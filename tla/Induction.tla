----------------------------- MODULE Induction -----------------------------
(***************************************************************************)
(* Induction and recursion on the naturals, stated about sets and          *)
(* functions rather than predicates and operators: these forms can be      *)
(* cited in first-order proofs.  To prove P(n) for all n, show that        *)
(* {n \in Nat : P(n)} contains 0 and the successors of its elements.       *)
(***************************************************************************)
EXTENDS Integers, WellFoundedInduction, TLAPS

(* Every nonempty set of naturals has a least element.                     *)
LEMMA LeastNatural ==
  ASSUME NEW T, T \subseteq Nat, T # {}
  PROVE  \E x \in T : \A y \in T : x <= y
<1> DEFINE R == OpToRel(<, Nat)
<1>1. IsWellFoundedOn(R, Nat)
  BY NatLessThanWellFounded
<1>2. \A x, y \in Nat : x < y => <<x, y>> \in R
  BY DEF OpToRel
<1> HIDE DEF R
<1>3. PICK x \in T : \A y \in T : ~ (<<y, x>> \in R)
  BY <1>1, WFMin
<1>4. ASSUME NEW y \in T
      PROVE  x <= y
  <2>1. x \in Nat /\ y \in Nat /\ ~ (<<y, x>> \in R)
    BY <1>3
  <2>2. ~ (y < x)
    BY <1>2, <2>1
  <2> QED BY <2>1, <2>2
<1> QED BY <1>4

(* Induction: a set with 0 and with n + 1 whenever with n has every        *)
(* natural.                                                                *)
LEMMA SetInduction ==
  ASSUME NEW T, 0 \in T, \A n \in Nat : n \in T => n + 1 \in T
  PROVE  Nat \subseteq T
<1> SUFFICES ASSUME Nat \ T # {}
             PROVE  FALSE
  OBVIOUS
<1>1. PICK x \in Nat \ T : \A y \in Nat \ T : x <= y
  BY LeastNatural
<1>2. x \in Nat /\ x # 0
  BY <1>1
<1>3. x - 1 \in Nat /\ ~ (x <= x - 1)
  BY <1>2
<1>4. x - 1 \in T
  BY <1>1, <1>3
<1>5. (x - 1) + 1 \in T /\ (x - 1) + 1 = x
  BY <1>2, <1>3, <1>4
<1> QED BY <1>1, <1>5

(* Induction up to n.                                                      *)
LEMMA BoundedInduction ==
  ASSUME NEW n \in Nat, NEW T, 0 \in T, \A i \in 1 .. n : i - 1 \in T => i \in T
  PROVE  0 .. n \subseteq T
<1> DEFINE U == {i \in Nat : i <= n => i \in T}
<1>1. 0 \in U
  OBVIOUS
<1>2. ASSUME NEW i \in Nat, i \in U
      PROVE  i + 1 \in U
  <2> SUFFICES ASSUME i + 1 <= n
               PROVE  i + 1 \in T
    OBVIOUS
  <2>1. i + 1 \in 1 .. n /\ (i + 1) - 1 = i /\ i \in T
    BY <1>2
  <2> QED BY <2>1
<1>3. Nat \subseteq U
  <2> HIDE DEF U
  <2> QED BY <1>1, <1>2, SetInduction
<1> QED BY <1>3

(* f has the value v0 at 0, and h gives each further value from the one    *)
(* before it.                                                              *)
IsRecursion(f, v0, h) == f[0] = v0 /\ \A n \in Nat : f[n + 1] = h[<<n, f[n]>>]

(* Primitive recursion: there is such a function.                          *)
LEMMA PrimitiveRecursion ==
  ASSUME NEW V, NEW v0 \in V, NEW h \in [Nat \X V -> V]
  PROVE  \E f \in [Nat -> V] : IsRecursion(f, v0, h)
<1> DEFINE Ok(n, g) == /\ g \in [0 .. n -> V] /\ g[0] = v0
                       /\ \A m \in 0 .. n - 1 : g[m + 1] = h[<<m, g[m]>>]
           T == {n \in Nat : \E g : Ok(n, g)}
<1>1. Nat \subseteq T
  <2>1. 0 \in T
    <3>1. Ok(0, [i \in 0 .. 0 |-> v0])
      OBVIOUS
    <3> QED BY <3>1
  <2>2. ASSUME NEW n \in Nat, n \in T
        PROVE  n + 1 \in T
    <3>1. PICK g : Ok(n, g)
      BY <2>2
    <3> DEFINE k == [i \in 0 .. n + 1 |-> IF i = n + 1 THEN h[<<n, g[n]>>] ELSE g[i]]
    <3>2. g[n] \in V /\ h[<<n, g[n]>>] \in V
      BY <3>1
    <3>3. k \in [0 .. n + 1 -> V] /\ k[0] = v0
      BY <3>1, <3>2
    <3>4. ASSUME NEW m \in 0 .. n
          PROVE  k[m + 1] = h[<<m, k[m]>>]
      <4>1. CASE m = n
        <5>1. k[n + 1] = h[<<n, g[n]>>] /\ k[n] = g[n]
          OBVIOUS
        <5> QED BY <4>1, <5>1
      <4>2. CASE m # n
        <5>1. m \in 0 .. n - 1 /\ m + 1 # n + 1 /\ m + 1 \in 0 .. n + 1 /\ m # n + 1
          BY <4>2
        <5> QED BY <3>1, <5>1
      <4> QED BY <4>1, <4>2
    <3>5. (n + 1) - 1 = n
      OBVIOUS
    <3> HIDE DEF k
    <3>6. Ok(n + 1, k)
      BY <3>3, <3>4, <3>5
    <3> QED BY <3>6
  <2> HIDE DEF T
  <2> QED BY <2>1, <2>2, SetInduction
<1>2. ASSUME NEW n \in Nat, NEW p \in Nat, n <= p, NEW g, NEW k, Ok(n, g), Ok(p, k)
      PROVE  g[n] = k[n]
  <2> DEFINE S == {m \in Nat : m <= n => g[m] = k[m]}
  <2>1. 0 \in S
    BY <1>2
  <2>2. ASSUME NEW m \in Nat, m \in S
        PROVE  m + 1 \in S
    <3> SUFFICES ASSUME m + 1 <= n
                 PROVE  g[m + 1] = k[m + 1]
      OBVIOUS
    <3>1. m \in 0 .. n - 1 /\ m \in 0 .. p - 1 /\ g[m] = k[m]
      BY <1>2, <2>2
    <3> QED BY <1>2, <3>1
  <2>3. Nat \subseteq S
    <3> HIDE DEF S
    <3> QED BY <2>1, <2>2, SetInduction
  <2> QED BY <2>3
<1> DEFINE f == [n \in Nat |-> (CHOOSE g : Ok(n, g))[n]]
<1>3. ASSUME NEW n \in Nat
      PROVE  \E g : Ok(n, g) /\ g[n] = f[n]
  <2>1. \E g : Ok(n, g)
    BY <1>1
  <2> DEFINE G == CHOOSE g : Ok(n, g)
  <2>2. Ok(n, G)
    <3> HIDE DEF Ok
    <3> QED BY <2>1
  <2>3. f[n] = G[n]
    OBVIOUS
  <2> HIDE DEF G, f, Ok
  <2> QED BY <2>2, <2>3
<1> HIDE DEF f
<1>4. f[0] = v0 /\ \A n \in Nat : f[n] \in V
  BY <1>3
<1>5. ASSUME NEW n \in Nat
      PROVE  f[n + 1] = h[<<n, f[n]>>]
  <2>1. PICK g : Ok(n, g) /\ g[n] = f[n]
    BY <1>3
  <2>2. PICK k : Ok(n + 1, k) /\ k[n + 1] = f[n + 1]
    <3>1. n + 1 \in Nat
      OBVIOUS
    <3> HIDE DEF Ok
    <3> QED BY <1>3, <3>1
  <2>3. n \in 0 .. (n + 1) - 1 /\ n + 1 \in Nat /\ n <= n + 1
    OBVIOUS
  <2>4. k[n + 1] = h[<<n, k[n]>>]
    BY <2>2, <2>3
  <2>5. g[n] = k[n]
    <3> HIDE DEF Ok
    <3> QED BY <1>2, <2>1, <2>2, <2>3
  <2> QED BY <2>1, <2>2, <2>4, <2>5
<1>6. f \in [Nat -> V]
  <2>1. f = [n \in Nat |-> f[n]]
    BY DEF f
  <2> QED BY <1>4, <2>1
<1> QED BY <1>4, <1>5, <1>6 DEF IsRecursion

(* The function on 0 .. n that a recursive definition                      *)
(*   f[i \in 0 .. n] == IF i = 0 THEN v0 ELSE h[<<i, f[i - 1]>>]           *)
(* means.                                                                  *)
IsRecursionTo(f, n, v0, h) ==
  f = [i \in 0 .. n |-> IF i = 0 THEN v0 ELSE h[<<i, f[i - 1]>>]]

(* There is such a function.                                               *)
LEMMA BoundedRecursion ==
  ASSUME NEW n \in Nat, NEW V, NEW v0 \in V, NEW h \in [(1 .. n) \X V -> V]
  PROVE  \E f \in [0 .. n -> V] : IsRecursionTo(f, n, v0, h)
<1> DEFINE k == [x \in Nat \X V |-> IF x[1] + 1 \in 1 .. n THEN h[<<x[1] + 1, x[2]>>] ELSE x[2]]
<1>1. k \in [Nat \X V -> V]
  <2>1. ASSUME NEW x \in Nat \X V, x[1] + 1 \in 1 .. n
        PROVE  h[<<x[1] + 1, x[2]>>] \in V
    <3>1. <<x[1] + 1, x[2]>> \in (1 .. n) \X V
      BY <2>1
    <3> QED BY <3>1
  <2> QED BY <2>1
<1>2. PICK g \in [Nat -> V] : IsRecursion(g, v0, k)
  <2> HIDE DEF k
  <2> QED BY <1>1, PrimitiveRecursion
<1> DEFINE f == [i \in 0 .. n |-> g[i]]
<1>3. ASSUME NEW i \in 0 .. n, i # 0
      PROVE  f[i] = h[<<i, f[i - 1]>>]
  <2>1. i - 1 \in Nat /\ (i - 1) + 1 = i /\ i \in 1 .. n /\ i - 1 \in 0 .. n /\ i \in Nat
    BY <1>3
  <2>2. g[(i - 1) + 1] = k[<<i - 1, g[i - 1]>>]
    <3> HIDE DEF k
    <3> QED BY <1>2, <2>1 DEF IsRecursion
  <2>3. <<i - 1, g[i - 1]>> \in Nat \X V
    BY <2>1
  <2>4. k[<<i - 1, g[i - 1]>>] = h[<<i, g[i - 1]>>]
    BY <2>1, <2>3
  <2>5. f[i] = g[i] /\ f[i - 1] = g[i - 1]
    BY <2>1
  <2> HIDE DEF f, k
  <2> QED BY <2>1, <2>2, <2>4, <2>5
<1>4. f[0] = v0
  BY <1>2 DEF IsRecursion
<1>5. f \in [0 .. n -> V]
  OBVIOUS
<1>6. f = [i \in 0 .. n |-> IF i = 0 THEN v0 ELSE h[<<i, f[i - 1]>>]]
  <2> HIDE DEF f
  <2> QED BY <1>3, <1>4, <1>5
<1> QED BY <1>5, <1>6 DEF IsRecursionTo
=============================================================================
