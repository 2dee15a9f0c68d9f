------------------------ MODULE ExpressionOps_proofs ------------------------
(***************************************************************************)
(* Proofs about ExpressionOps, for expressions whose calls are nested to   *)
(* any depth.  The operations that go into the arguments of calls are      *)
(* parameters of Expression; the theorems assume of them that they are     *)
(* what their steps say (Unfolds), which is how module Recursion defines   *)
(* them.                                                                   *)
(***************************************************************************)
EXTENDS ExpressionOps, TermLists_proofs, FiniteSetTheorems

(* The expressions of any depth, their terms and lists of them: a list of  *)
(* terms with a zero coefficient is one of Lists, not of Exps.             *)
NonZero(Fs) == [coef : Int \ {0}, fac : Fs]
Exps == UNION {Nested[n] : n \in Nat}
Factors == FactorsOver(Exps)
Lists == Seq(TermsOver(Factors))
-----------------------------------------------------------------------------
(* Nested is the function its recursive definition asks for.               *)
LEMMA NestedIs ==
  /\ Nested[0] = {}
  /\ \A n \in Nat : Nested[n + 1] = Seq(NonZero(FactorsOver(Nested[n])))
<1> DEFINE G(S) == Seq(NonZero(FactorsOver(S)))
           Ok(n, f) == f = [i \in 0 .. n |-> IF i = 0 THEN {} ELSE G(f[i - 1])]
           T == {n \in Nat : \E f : Ok(n, f)}
<1>1. ASSUME NEW n \in Nat, NEW f, Ok(n, f)
      PROVE  f[0] = {} /\ \A i \in 0 .. n - 1 : f[i + 1] = G(f[i])
  <2> HIDE DEF G
  <2>1. f[0] = {}
    BY <1>1
  <2>2. ASSUME NEW i \in 0 .. n - 1
        PROVE  f[i + 1] = G(f[i])
    <3>1. i + 1 \in 0 .. n /\ i + 1 # 0 /\ (i + 1) - 1 = i
      OBVIOUS
    <3> QED BY <1>1, <3>1
  <2> QED BY <2>1, <2>2
<1>2. Nat \subseteq T
  <2> HIDE DEF G
  <2>1. 0 \in T
    <3>1. Ok(0, [i \in 0 .. 0 |-> {}])
      OBVIOUS
    <3> QED BY <3>1
  <2>2. ASSUME NEW n \in Nat, n \in T
        PROVE  n + 1 \in T
    <3>1. PICK f : Ok(n, f)
      BY <2>2
    <3> DEFINE g == [i \in 0 .. n + 1 |-> IF i = n + 1 THEN G(f[n]) ELSE f[i]]
    <3>2. ASSUME NEW i \in 0 .. n + 1, i # 0
          PROVE  g[i] = G(g[i - 1])
      <4>1. i - 1 \in 0 .. n /\ g[i - 1] = f[i - 1]
        BY <3>2
      <4>2. CASE i = n + 1
        <5>1. g[i] = G(f[n]) /\ i - 1 = n
          BY <4>2
        <5> QED BY <4>1, <5>1
      <4>3. CASE i # n + 1
        <5>1. i \in 0 .. n /\ g[i] = f[i]
          BY <4>3
        <5>2. f[i] = G(f[i - 1])
          BY <3>1, <3>2, <5>1
        <5> QED BY <4>1, <5>1, <5>2
      <4> QED BY <4>2, <4>3
    <3>3. g[0] = {}
      <4>1. g[0] = f[0]
        OBVIOUS
      <4> QED BY <1>1, <3>1, <4>1
    <3>4. g = [i \in 0 .. n + 1 |-> g[i]]
      OBVIOUS
    <3> HIDE DEF g
    <3>5. Ok(n + 1, g)
      BY <3>2, <3>3, <3>4
    <3> QED BY <3>5
  <2> HIDE DEF T
  <2> QED BY <2>1, <2>2, SetInduction
<1>3. ASSUME NEW n \in Nat, NEW m \in Nat, n <= m, NEW f, NEW g, Ok(n, f), Ok(m, g)
      PROVE  f[n] = g[n]
  <2> HIDE DEF G
  <2> DEFINE S == {i \in Nat : i <= n => f[i] = g[i]}
  <2>1. 0 \in S
    BY <1>1, <1>3
  <2>2. ASSUME NEW i \in Nat, i \in S
        PROVE  i + 1 \in S
    <3> SUFFICES ASSUME i + 1 <= n
                 PROVE  f[i + 1] = g[i + 1]
      OBVIOUS
    <3>1. i \in 0 .. n - 1 /\ i \in 0 .. m - 1 /\ f[i] = g[i]
      BY <1>3, <2>2
    <3>2. f[i + 1] = G(f[i]) /\ g[i + 1] = G(g[i])
      <4> HIDE DEF Ok
      <4> QED BY <1>1, <1>3, <3>1
    <3> QED BY <3>1, <3>2
  <2>3. Nat \subseteq S
    <3> HIDE DEF S
    <3> QED BY <2>1, <2>2, SetInduction
  <2> QED BY <2>3
<1> DEFINE F == [n \in Nat |-> (CHOOSE f : Ok(n, f))[n]]
<1>4. ASSUME NEW n \in Nat
      PROVE  \E f : Ok(n, f) /\ f[n] = F[n]
  <2>1. \E f : Ok(n, f)
    BY <1>2
  <2> DEFINE C == CHOOSE f : Ok(n, f)
  <2>2. Ok(n, C)
    <3> HIDE DEF Ok
    <3> QED BY <2>1
  <2>3. F[n] = C[n]
    OBVIOUS
  <2> HIDE DEF C, F, Ok
  <2> QED BY <2>2, <2>3
<1>5. F[0] = {} /\ \A n \in Nat : F[n + 1] = G(F[n])
  <2> HIDE DEF F, G
  <2>1. F[0] = {}
    <3>1. PICK f : Ok(0, f) /\ f[0] = F[0]
      <4> HIDE DEF Ok
      <4> QED BY <1>4
    <3> QED BY <3>1
  <2>2. ASSUME NEW n \in Nat
        PROVE  F[n + 1] = G(F[n])
    <3> HIDE DEF Ok
    <3>1. n + 1 \in Nat /\ n <= n + 1 /\ n \in 0 .. (n + 1) - 1
      OBVIOUS
    <3>2. PICK f : Ok(n, f) /\ f[n] = F[n]
      BY <1>4
    <3>3. PICK g : Ok(n + 1, g) /\ g[n + 1] = F[n + 1]
      BY <1>4, <3>1
    <3>4. f[n] = g[n]
      BY <1>3, <3>1, <3>2, <3>3
    <3>5. g[n + 1] = G(g[n])
      BY <1>1, <3>1, <3>3
    <3> QED BY <3>2, <3>3, <3>4, <3>5
  <2> QED BY <2>1, <2>2
<1>6. F = [n \in Nat |-> IF n = 0 THEN {} ELSE Seq([coef : Int \ {0}, fac : FactorsOver(F[n - 1])])]
  <2>1. F = [n \in Nat |-> F[n]]
    OBVIOUS
  <2> HIDE DEF F
  <2>2. ASSUME NEW n \in Nat, n # 0
        PROVE  F[n] = Seq([coef : Int \ {0}, fac : FactorsOver(F[n - 1])])
    <3>1. n - 1 \in Nat /\ (n - 1) + 1 = n
      BY <2>2
    <3>2. F[(n - 1) + 1] = G(F[n - 1])
      <4> HIDE DEF G
      <4> QED BY <1>5, <3>1
    <3> QED BY <3>1, <3>2 DEF NonZero
  <2>3. F[0] = {}
    BY <1>5
  <2> QED BY <2>1, <2>2, <2>3
<1> HIDE DEF F
<1> DEFINE N == CHOOSE f : f = [n \in Nat |-> IF n = 0 THEN {} ELSE Seq([coef : Int \ {0}, fac : FactorsOver(f[n - 1])])]
<1>7. N = [n \in Nat |-> IF n = 0 THEN {} ELSE Seq([coef : Int \ {0}, fac : FactorsOver(N[n - 1])])]
  BY <1>6
<1>8. Nested = N
  BY DEF Nested
<1> HIDE DEF N
<1>9. Nested[0] = {}
  BY <1>7, <1>8
<1>10. ASSUME NEW n \in Nat
       PROVE  Nested[n + 1] = Seq(NonZero(FactorsOver(Nested[n])))
  <2>1. n + 1 \in Nat /\ n + 1 # 0 /\ (n + 1) - 1 = n
    OBVIOUS
  <2>2. N[n + 1] = Seq([coef : Int \ {0}, fac : FactorsOver(N[n])])
    BY <1>7, <2>1
  <2> QED BY <1>8, <2>2 DEF NonZero
<1> QED BY <1>9, <1>10
-----------------------------------------------------------------------------
(* Deeper nesting allows more.                                             *)
LEMMA FactorsGrow ==
  ASSUME NEW A, NEW B, A \subseteq B
  PROVE  /\ FactorsOver(A) \subseteq FactorsOver(B)
         /\ Seq(NonZero(FactorsOver(A))) \subseteq Seq(NonZero(FactorsOver(B)))
<1>1. Seq(A) \subseteq Seq(B)
  OBVIOUS
<1>2. FactorsOver(A) \subseteq FactorsOver(B)
  BY <1>1 DEF FactorsOver
<1>3. NonZero(FactorsOver(A)) \subseteq NonZero(FactorsOver(B))
  BY <1>2 DEF NonZero
<1>4. Seq(NonZero(FactorsOver(A))) \subseteq Seq(NonZero(FactorsOver(B)))
  <2> DEFINE C == NonZero(FactorsOver(A))
             D == NonZero(FactorsOver(B))
  <2> HIDE DEF C, D
  <2>1. C \subseteq D => Seq(C) \subseteq Seq(D)
    OBVIOUS
  <2> QED BY <1>3, <2>1 DEF C, D
<1> QED BY <1>2, <1>4

LEMMA NestedGrows ==
  ASSUME NEW n \in Nat, NEW m \in Nat, n <= m
  PROVE  Nested[n] \subseteq Nested[m]
<1>1. ASSUME NEW i \in Nat
      PROVE  Nested[i] \subseteq Nested[i + 1]
  <2> DEFINE S == {j \in Nat : Nested[j] \subseteq Nested[j + 1]}
  <2>1. 0 \in S
    BY NestedIs
  <2>2. ASSUME NEW j \in Nat, j \in S
        PROVE  j + 1 \in S
    <3>1. j + 1 \in Nat /\ Nested[j] \subseteq Nested[j + 1]
      BY <2>2
    <3>2. /\ Nested[j + 1] = Seq(NonZero(FactorsOver(Nested[j])))
          /\ Nested[(j + 1) + 1] = Seq(NonZero(FactorsOver(Nested[j + 1])))
      BY <3>1, NestedIs
    <3>3. Seq(NonZero(FactorsOver(Nested[j]))) \subseteq Seq(NonZero(FactorsOver(Nested[j + 1])))
      BY <3>1, FactorsGrow
    <3> QED BY <3>1, <3>2, <3>3
  <2>3. Nat \subseteq S
    <3> HIDE DEF S
    <3> QED BY <2>1, <2>2, SetInduction
  <2> QED BY <2>3
<1> DEFINE T == {d \in Nat : Nested[n] \subseteq Nested[n + d]}
<1>2. 0 \in T
  <2>1. n + 0 = n
    OBVIOUS
  <2> QED BY <2>1
<1>3. ASSUME NEW d \in Nat, d \in T
      PROVE  d + 1 \in T
  <2>1. n + d \in Nat /\ n + (d + 1) = (n + d) + 1 /\ d + 1 \in Nat
    OBVIOUS
  <2>2. Nested[n + d] \subseteq Nested[(n + d) + 1]
    BY <1>1, <2>1
  <2> QED BY <1>3, <2>1, <2>2
<1>4. Nat \subseteq T
  <2> HIDE DEF T
  <2> QED BY <1>2, <1>3, SetInduction
<1>5. m - n \in T
  BY <1>4
<1>6. n + (m - n) = m
  OBVIOUS
<1> QED BY <1>5, <1>6

(* A finite list of naturals is bounded.                                   *)
LEMMA Bounded ==
  ASSUME NEW n \in Nat, NEW g, \A i \in 1 .. n : g[i] \in Nat
  PROVE  \E b \in Nat : \A i \in 1 .. n : g[i] <= b
<1> DEFINE T == {m \in Nat : m <= n => \E b \in Nat : \A i \in 1 .. m : g[i] <= b}
<1>1. 0 \in T
  OBVIOUS
<1>2. ASSUME NEW m \in Nat, m \in T
      PROVE  m + 1 \in T
  <2> SUFFICES ASSUME m + 1 <= n
               PROVE  \E b \in Nat : \A i \in 1 .. m + 1 : g[i] <= b
    OBVIOUS
  <2>1. PICK b \in Nat : \A i \in 1 .. m : g[i] <= b
    BY <1>2
  <2>2. g[m + 1] \in Nat
    OBVIOUS
  <2> DEFINE c == b + g[m + 1]
  <2>3. c \in Nat /\ b <= c /\ g[m + 1] <= c
    BY <2>2
  <2> HIDE DEF c
  <2>4. ASSUME NEW i \in 1 .. m + 1
        PROVE  g[i] <= c
    <3>1. i = m + 1 \/ i \in 1 .. m
      OBVIOUS
    <3>2. g[i] \in Nat
      OBVIOUS
    <3> QED BY <2>1, <2>3, <3>1, <3>2
  <2> QED BY <2>3, <2>4
<1>3. Nat \subseteq T
  <2> HIDE DEF T
  <2> QED BY <1>1, <1>2, SetInduction
<1> HIDE DEF T
<1>4. n \in T
  BY <1>3
<1> QED BY <1>4 DEF T

(* A list of expressions is nested no deeper than the deepest of them.     *)
LEMMA ListNested ==
  ASSUME NEW s \in Seq(Exps)
  PROVE  \E n \in Nat : s \in Seq(Nested[n])
<1> DEFINE g == [i \in 1 .. Len(s) |-> CHOOSE n \in Nat : s[i] \in Nested[n]]
<1>1. ASSUME NEW i \in 1 .. Len(s)
      PROVE  g[i] \in Nat /\ s[i] \in Nested[g[i]]
  <2>1. s[i] \in Exps
    OBVIOUS
  <2>2. \E n \in Nat : s[i] \in Nested[n]
    BY <2>1 DEF Exps
  <2> QED BY <2>2
<1> HIDE DEF g
<1>2. PICK b \in Nat : \A i \in 1 .. Len(s) : g[i] <= b
  <2>1. Len(s) \in Nat
    OBVIOUS
  <2> QED BY <1>1, <2>1, Bounded
<1>3. \A i \in 1 .. Len(s) : s[i] \in Nested[b]
  BY <1>1, <1>2, NestedGrows
<1>4. s \in Seq(Nested[b])
  BY <1>3
<1> QED BY <1>4

(* The expressions are the lists of terms with nonzero coefficients over   *)
(* factors whose arguments are expressions.                                *)
LEMMA ExpsAre == Exps = Seq(NonZero(Factors))
<1>1. ASSUME NEW e \in Exps
      PROVE  e \in Seq(NonZero(Factors))
  <2>1. PICK n \in Nat : e \in Nested[n]
    BY DEF Exps
  <2>2. n # 0
    BY <2>1, NestedIs
  <2>3. n - 1 \in Nat /\ (n - 1) + 1 = n
    BY <2>1, <2>2
  <2>4. e \in Seq(NonZero(FactorsOver(Nested[n - 1])))
    BY <2>1, <2>3, NestedIs
  <2>5. Nested[n - 1] \subseteq Exps
    BY <2>3 DEF Exps
  <2>6. Seq(NonZero(FactorsOver(Nested[n - 1]))) \subseteq Seq(NonZero(Factors))
    BY <2>5, FactorsGrow DEF Factors
  <2> QED BY <2>4, <2>6
<1>2. ASSUME NEW e \in Seq(NonZero(Factors))
      PROVE  e \in Exps
  <2> DEFINE fits(i, n) == e[i] \in NonZero(FactorsOver(Nested[n]))
             g == [i \in 1 .. Len(e) |-> CHOOSE n \in Nat : fits(i, n)]
  <2>1. ASSUME NEW i \in 1 .. Len(e)
        PROVE  \E n \in Nat : fits(i, n)
    <3>1. e[i] \in NonZero(Factors)
      OBVIOUS
    <3>2. e[i].fac \in Factors /\ e[i].fac.args \in Seq(Exps)
      BY <3>1 DEF NonZero, Factors, FactorsOver
    <3>3. PICK n \in Nat : e[i].fac.args \in Seq(Nested[n])
      BY <3>2, ListNested
    <3>4. e[i].fac \in FactorsOver(Nested[n])
      BY <3>2, <3>3 DEF Factors, FactorsOver
    <3>5. e[i] \in NonZero(FactorsOver(Nested[n]))
      BY <3>1, <3>4 DEF NonZero
    <3> QED BY <3>5
  <2>2. ASSUME NEW i \in 1 .. Len(e)
        PROVE  g[i] \in Nat /\ fits(i, g[i])
    <3> HIDE DEF fits
    <3> QED BY <2>1
  <2> HIDE DEF g
  <2>3. Len(e) \in Nat
    OBVIOUS
  <2>4. PICK b \in Nat : \A i \in 1 .. Len(e) : g[i] <= b
    <3> HIDE DEF fits
    <3> QED BY <2>2, <2>3, Bounded
  <2>5. ASSUME NEW i \in 1 .. Len(e)
        PROVE  e[i] \in NonZero(FactorsOver(Nested[b]))
    <3>1. g[i] \in Nat /\ e[i] \in NonZero(FactorsOver(Nested[g[i]])) /\ g[i] <= b
      BY <2>2, <2>4
    <3>2. Nested[g[i]] \subseteq Nested[b]
      BY <3>1, NestedGrows
    <3>3. FactorsOver(Nested[g[i]]) \subseteq FactorsOver(Nested[b])
      BY <3>2, FactorsGrow
    <3> QED BY <3>1, <3>3 DEF NonZero
  <2>6. e \in Seq(NonZero(FactorsOver(Nested[b])))
    BY <2>5
  <2>7. b + 1 \in Nat /\ Nested[b + 1] = Seq(NonZero(FactorsOver(Nested[b])))
    BY NestedIs
  <2>8. e \in Nested[b + 1]
    BY <2>6, <2>7
  <2> QED BY <2>7, <2>8 DEF Exps
<1> QED BY <1>1, <1>2

(* Structural induction: a set that has every expression whose arguments   *)
(* it has has every expression.                                            *)
LEMMA ExpInduction ==
  ASSUME NEW S, \A e \in Exps : ArgsIn(e) \subseteq S => e \in S
  PROVE  Exps \subseteq S
<1> DEFINE T == {n \in Nat : Nested[n] \subseteq S}
<1>1. 0 \in T
  BY NestedIs
<1>2. ASSUME NEW n \in Nat, n \in T
      PROVE  n + 1 \in T
  <2>1. n + 1 \in Nat /\ Nested[n] \subseteq S
    BY <1>2
  <2>2. ASSUME NEW e \in Nested[n + 1]
        PROVE  e \in S
    <3>1. e \in Seq(NonZero(FactorsOver(Nested[n])))
      BY NestedIs
    <3>2. ASSUME NEW i \in DOMAIN e
          PROVE  Range(e[i].fac.args) \subseteq Nested[n]
      <4>1. e[i] \in NonZero(FactorsOver(Nested[n]))
        BY <3>1
      <4>2. e[i].fac.args \in Seq(Nested[n])
        BY <4>1 DEF NonZero, FactorsOver
      <4> QED BY <4>2 DEF Range
    <3>3. ArgsIn(e) \subseteq S
      BY <2>1, <3>2 DEF ArgsIn
    <3>4. e \in Exps
      BY <2>1 DEF Exps
    <3> QED BY <3>3, <3>4
  <2> QED BY <2>1, <2>2
<1>3. Nat \subseteq T
  <2> HIDE DEF T
  <2> QED BY <1>1, <1>2, SetInduction
<1> QED BY <1>3 DEF Exps

(* What a factor and a list of terms are made of.                          *)
LEMMA FactorIs ==
  ASSUME NEW F \in Factors
  PROVE  /\ F \in [type : 0 .. 3, id : Int, idx : Int, args : Seq(Exps)] /\ WellFormed(F)
         /\ F.args \in Seq(Exps) /\ Len(F.args) \in Nat /\ DOMAIN F.args = 1 .. Len(F.args)
         /\ \A a \in 1 .. Len(F.args) : F.args[a] \in Exps
<1>1. F \in [type : 0 .. 3, id : Int, idx : Int, args : Seq(Exps)] /\ WellFormed(F)
  BY DEF Factors, FactorsOver, TupleVar, ConstVal
<1>2. F.args \in Seq(Exps)
  BY <1>1
<1> QED BY <1>1, <1>2

LEMMA ListIs ==
  ASSUME NEW e \in Lists
  PROVE  /\ Len(e) \in Nat /\ DOMAIN e = 1 .. Len(e) /\ e \in Seq(TermsOver(Factors))
         /\ \A i \in 1 .. Len(e) : /\ e[i] \in TermsOver(Factors) /\ e[i].coef \in Int
                                   /\ e[i].fac \in Factors
         /\ ArgsIn(e) \subseteq Exps
<1>1. e \in Seq(TermsOver(Factors))
  BY DEF Lists
<1>2. ASSUME NEW i \in 1 .. Len(e)
      PROVE  e[i] \in TermsOver(Factors) /\ e[i].coef \in Int /\ e[i].fac \in Factors
  <2>1. e[i] \in TermsOver(Factors)
    BY <1>1
  <2> QED BY <2>1 DEF TermsOver
<1>3. Len(e) \in Nat /\ DOMAIN e = 1 .. Len(e)
  BY <1>1
<1>4. ASSUME NEW i \in 1 .. Len(e)
      PROVE  Range(e[i].fac.args) \subseteq Exps
  BY <1>2, FactorIs DEF Range
<1>5. ArgsIn(e) \subseteq Exps
  BY <1>3, <1>4 DEF ArgsIn
<1> QED BY <1>1, <1>2, <1>3, <1>5

LEMMA ExpIs ==
  ASSUME NEW e \in Exps
  PROVE  e \in Lists /\ \A i \in 1 .. Len(e) : e[i].coef # 0
<1>1. e \in Seq(NonZero(Factors))
  BY ExpsAre
<1>2. NonZero(Factors) \subseteq TermsOver(Factors)
  BY DEF NonZero, TermsOver
<1>3. e \in Lists
  <2> DEFINE C == NonZero(Factors)
             D == TermsOver(Factors)
  <2> HIDE DEF C, D
  <2>1. C \subseteq D => Seq(C) \subseteq Seq(D)
    OBVIOUS
  <2> QED BY <1>1, <1>2, <2>1 DEF C, D, Lists
<1>4. ASSUME NEW i \in 1 .. Len(e)
      PROVE  e[i].coef # 0
  <2>1. e[i] \in NonZero(Factors)
    BY <1>1
  <2> QED BY <2>1 DEF NonZero
<1> QED BY <1>3, <1>4

(* A list of terms without zero coefficients is an expression.             *)
LEMMA NonZeroIsExp ==
  ASSUME NEW e \in Lists, \A i \in 1 .. Len(e) : e[i].coef # 0
  PROVE  e \in Exps
<1>1. ASSUME NEW i \in 1 .. Len(e)
      PROVE  e[i] \in NonZero(Factors)
  BY ListIs DEF TermsOver, NonZero
<1>2. e \in Seq(NonZero(Factors))
  BY <1>1, ListIs
<1> QED BY <1>2, ExpsAre

(* Factors that match are the same.                                        *)
LEMMA FactorsExact == Exact(Factors)
<1> SUFFICES ASSUME NEW F \in Factors, NEW G \in Factors, FactorMatches(F, G)
             PROVE  F = G
  BY DEF Exact
<1>1. F.type = G.type /\ F.id = G.id /\ F.args = G.args /\ TupleIndex(F) = TupleIndex(G)
  BY DEF FactorMatches
<1>2. /\ F \in [type : 0 .. 3, id : Int, idx : Int, args : Seq(Exps)] /\ WellFormed(F)
      /\ G \in [type : 0 .. 3, id : Int, idx : Int, args : Seq(Exps)] /\ WellFormed(G)
  BY FactorIs
<1>3. F.idx \in Int /\ G.idx \in Int
  BY <1>2
<1>4. F.idx = G.idx
  BY <1>1, <1>2, <1>3 DEF WellFormed, TupleIndex
<1> QED BY <1>1, <1>2, <1>4
-----------------------------------------------------------------------------
(* R, a set of pairs, orders S: of two different elements one is before    *)
(* the other, and only one, and what is before is so transitively.         *)
StrictOrder(R, S) ==
  \A x, y \in S : /\ x # y => <<x, y>> \in R \/ <<y, x>> \in R
                  /\ ~ (<<x, y>> \in R /\ <<y, x>> \in R)
                  /\ \A z \in S : <<x, y>> \in R /\ <<y, z>> \in R => <<x, z>> \in R

(* s goes before t at position n + 1: there it ends or has the lesser.     *)
DiffersAt(R, s, t, n) ==
  /\ n \in 0 .. Len(t) - 1 /\ n <= Len(s) /\ \A i \in 1 .. n : s[i] = t[i]
  /\ n < Len(s) => <<s[n + 1], t[n + 1]>> \in R

(* Q is the lexicographic order of lists over S by R.                      *)
Lexicographic(Q, R, S) ==
  \A s, t \in Seq(S) : <<s, t>> \in Q <=> \E n \in Nat : DiffersAt(R, s, t, n)

(* Two lists have a longest common prefix.                                 *)
LEMMA CommonPrefix ==
  ASSUME NEW S, NEW s \in Seq(S), NEW t \in Seq(S)
  PROVE  \E n \in Nat : /\ n <= Len(s) /\ n <= Len(t) /\ \A i \in 1 .. n : s[i] = t[i]
                        /\ n = Len(s) \/ n = Len(t) \/ s[n + 1] # t[n + 1]
<1> DEFINE T == {n \in Nat : n = Len(s) \/ n = Len(t) \/ s[n + 1] # t[n + 1]}
<1>1. Len(s) \in Nat /\ Len(t) \in Nat
  OBVIOUS
<1>2. T \subseteq Nat /\ Len(s) \in T /\ Len(t) \in T
  BY <1>1
<1>3. PICK n \in T : \A m \in T : n <= m
  <2> HIDE DEF T
  <2> QED BY <1>2, LeastNatural
<1>4. n \in Nat /\ n <= Len(s) /\ n <= Len(t)
  <2> HIDE DEF T
  <2> QED BY <1>2, <1>3
<1>5. ASSUME NEW i \in 1 .. n
      PROVE  s[i] = t[i]
  <2>1. i - 1 \in Nat /\ ~ (n <= i - 1) /\ (i - 1) + 1 = i
    BY <1>4
  <2>2. i - 1 \notin T
    <3> HIDE DEF T
    <3> QED BY <1>3, <2>1
  <2> QED BY <2>1, <2>2
<1>6. n = Len(s) \/ n = Len(t) \/ s[n + 1] # t[n + 1]
  BY <1>3
<1> QED BY <1>4, <1>5, <1>6

LEMMA SamePrefix ==
  ASSUME NEW S, NEW s \in Seq(S), NEW t \in Seq(S), Len(s) = Len(t),
         \A i \in 1 .. Len(s) : s[i] = t[i]
  PROVE  s = t
OBVIOUS

(* Lists are ordered lexicographically when their elements are ordered.    *)
LEMMA LexOrders ==
  ASSUME NEW S, NEW R, StrictOrder(R, S), NEW Q, Lexicographic(Q, R, S)
  PROVE  StrictOrder(Q, Seq(S))
<1>1. ASSUME NEW s \in Seq(S), NEW i \in 1 .. Len(s)
      PROVE  s[i] \in S
  OBVIOUS
<1>2. ASSUME NEW s \in Seq(S)
      PROVE  Len(s) \in Nat
  OBVIOUS
<1>3. ASSUME NEW s \in Seq(S), NEW t \in Seq(S), s # t
      PROVE  <<s, t>> \in Q \/ <<t, s>> \in Q
  <2>1. PICK n \in Nat : /\ n <= Len(s) /\ n <= Len(t) /\ \A i \in 1 .. n : s[i] = t[i]
                         /\ n = Len(s) \/ n = Len(t) \/ s[n + 1] # t[n + 1]
    BY CommonPrefix
  <2>2. Len(s) \in Nat /\ Len(t) \in Nat
    BY <1>2
  <2>3. ~ (n = Len(s) /\ n = Len(t))
    BY <1>3, <2>1, SamePrefix
  <2>4. CASE n = Len(s)
    <3>1. DiffersAt(R, s, t, n)
      BY <2>1, <2>2, <2>3, <2>4 DEF DiffersAt
    <3> QED BY <3>1 DEF Lexicographic
  <2>5. CASE n = Len(t)
    <3>1. DiffersAt(R, t, s, n)
      BY <2>1, <2>2, <2>3, <2>5 DEF DiffersAt
    <3> QED BY <3>1 DEF Lexicographic
  <2>6. CASE n # Len(s) /\ n # Len(t)
    <3>1. n + 1 \in 1 .. Len(s) /\ n + 1 \in 1 .. Len(t)
      BY <2>1, <2>2, <2>6
    <3>2. s[n + 1] \in S /\ t[n + 1] \in S /\ s[n + 1] # t[n + 1]
      BY <1>1, <2>1, <2>6, <3>1
    <3>3. <<s[n + 1], t[n + 1]>> \in R \/ <<t[n + 1], s[n + 1]>> \in R
      BY <3>2 DEF StrictOrder
    <3>4. DiffersAt(R, s, t, n) \/ DiffersAt(R, t, s, n)
      BY <2>1, <2>2, <3>1, <3>3 DEF DiffersAt
    <3> QED BY <3>4 DEF Lexicographic
  <2> QED BY <2>4, <2>5, <2>6
<1>4. ASSUME NEW x \in S, NEW y \in S, <<x, y>> \in R, <<y, x>> \in R
      PROVE  FALSE
  BY <1>4 DEF StrictOrder
<1>5. ASSUME NEW s \in Seq(S), NEW t \in Seq(S), <<s, t>> \in Q, <<t, s>> \in Q
      PROVE  FALSE
  <2>1. PICK n \in Nat : DiffersAt(R, s, t, n)
    BY <1>5 DEF Lexicographic
  <2>2. PICK m \in Nat : DiffersAt(R, t, s, m)
    BY <1>5 DEF Lexicographic
  <2>3. Len(s) \in Nat /\ Len(t) \in Nat
    BY <1>2
  <2>4. /\ n < Len(t) /\ n <= Len(s) /\ \A i \in 1 .. n : s[i] = t[i]
        /\ n < Len(s) => <<s[n + 1], t[n + 1]>> \in R
        /\ m < Len(s) /\ m <= Len(t) /\ \A i \in 1 .. m : t[i] = s[i]
        /\ m < Len(t) => <<t[m + 1], s[m + 1]>> \in R
    BY <2>1, <2>2, <2>3 DEF DiffersAt
  <2>5. CASE n < m
    <3>1. n + 1 \in 1 .. m /\ n + 1 \in 1 .. Len(s) /\ n < Len(s)
      BY <2>3, <2>4, <2>5
    <3>2. <<s[n + 1], t[n + 1]>> \in R /\ t[n + 1] = s[n + 1] /\ s[n + 1] \in S
      BY <1>1, <2>4, <3>1
    <3> QED BY <1>4, <3>2
  <2>6. CASE m < n
    <3>1. m + 1 \in 1 .. n /\ m + 1 \in 1 .. Len(s) /\ m < Len(t)
      BY <2>3, <2>4, <2>6
    <3>2. <<t[m + 1], s[m + 1]>> \in R /\ t[m + 1] = s[m + 1] /\ s[m + 1] \in S
      BY <1>1, <2>4, <3>1
    <3> QED BY <1>4, <3>2
  <2>7. CASE n = m
    <3>1. n + 1 \in 1 .. Len(s) /\ n + 1 \in 1 .. Len(t) /\ n < Len(s) /\ n < Len(t)
      BY <2>3, <2>4, <2>7
    <3>2. s[n + 1] \in S /\ t[n + 1] \in S
      BY <1>1, <3>1
    <3> QED BY <1>4, <2>4, <2>7, <3>1, <3>2
  <2> QED BY <2>5, <2>6, <2>7
<1>6. ASSUME NEW s \in Seq(S), NEW t \in Seq(S), NEW u \in Seq(S), <<s, t>> \in Q, <<t, u>> \in Q
      PROVE  <<s, u>> \in Q
  <2>1. PICK n \in Nat : DiffersAt(R, s, t, n)
    BY <1>6 DEF Lexicographic
  <2>2. PICK m \in Nat : DiffersAt(R, t, u, m)
    BY <1>6 DEF Lexicographic
  <2>3. Len(s) \in Nat /\ Len(t) \in Nat /\ Len(u) \in Nat
    BY <1>2
  <2>4. /\ n < Len(t) /\ n <= Len(s) /\ \A i \in 1 .. n : s[i] = t[i]
        /\ n < Len(s) => <<s[n + 1], t[n + 1]>> \in R
        /\ m < Len(u) /\ m <= Len(t) /\ \A i \in 1 .. m : t[i] = u[i]
        /\ m < Len(t) => <<t[m + 1], u[m + 1]>> \in R
    BY <2>1, <2>2, <2>3 DEF DiffersAt
  <2>5. CASE n < m
    <3>1. n + 1 \in 1 .. m /\ n \in 0 .. Len(u) - 1
      BY <2>3, <2>4, <2>5
    <3>2. t[n + 1] = u[n + 1] /\ \A i \in 1 .. n : s[i] = u[i]
      BY <2>4, <2>5, <3>1
    <3>3. DiffersAt(R, s, u, n)
      BY <2>4, <3>1, <3>2 DEF DiffersAt
    <3> QED BY <3>3 DEF Lexicographic
  <2>6. CASE m < n
    <3>1. m + 1 \in 1 .. n /\ m \in 0 .. Len(u) - 1 /\ m < Len(t) /\ m <= Len(s)
      BY <2>3, <2>4, <2>6
    <3>2. s[m + 1] = t[m + 1] /\ \A i \in 1 .. m : s[i] = u[i]
      BY <2>4, <2>6, <3>1
    <3>3. DiffersAt(R, s, u, m)
      BY <2>4, <3>1, <3>2 DEF DiffersAt
    <3> QED BY <3>3 DEF Lexicographic
  <2>7. CASE n = m
    <3>1. n \in 0 .. Len(u) - 1 /\ n + 1 \in 1 .. Len(t) /\ n + 1 \in 1 .. Len(u)
      BY <2>3, <2>4, <2>7
    <3>2. \A i \in 1 .. n : s[i] = u[i]
      BY <2>4, <2>7
    <3>3. ASSUME n < Len(s)
          PROVE  <<s[n + 1], u[n + 1]>> \in R
      <4>1. n + 1 \in 1 .. Len(s)
        BY <2>3, <3>3
      <4>2. s[n + 1] \in S /\ t[n + 1] \in S /\ u[n + 1] \in S
        BY <1>1, <3>1, <4>1
      <4>3. <<s[n + 1], t[n + 1]>> \in R /\ <<t[n + 1], u[n + 1]>> \in R
        BY <2>4, <2>7, <3>3
      <4> QED BY <4>2, <4>3 DEF StrictOrder
    <3>4. DiffersAt(R, s, u, n)
      BY <2>4, <3>1, <3>2, <3>3 DEF DiffersAt
    <3> QED BY <3>4 DEF Lexicographic
  <2> QED BY <2>5, <2>6, <2>7
<1> QED BY <1>3, <1>5, <1>6 DEF StrictOrder
-----------------------------------------------------------------------------
(* The hypothesis of the theorems: the operations are what module          *)
(* Recursion makes of their steps, on every list of terms.                 *)
Unfolding == Unfolds(Lists, [1 .. Arity -> Int])

(* TermLess and the order of lists of terms and of lists of those, as      *)
(* sets of pairs.                                                          *)
TermPairs(S) == {p \in S \X S : TermLess(p[1], p[2])}
ListPairs(S) == {p \in S \X S : LexLess(p[1], p[2])}
ArgPairs(S) == {p \in S \X S : ArgsLess(p[1], p[2])}

LEMMA PairsAre ==
  ASSUME NEW S, NEW x \in S, NEW y \in S
  PROVE  /\ <<x, y>> \in TermPairs(S) <=> TermLess(x, y)
         /\ <<x, y>> \in ListPairs(S) <=> LexLess(x, y)
         /\ <<x, y>> \in ArgPairs(S) <=> ArgsLess(x, y)
BY DEF TermPairs, ListPairs, ArgPairs

LEMMA ListsLexicographic ==
  ASSUME NEW S
  PROVE  Lexicographic(ListPairs(Seq(S)), TermPairs(S), S)
<1> SUFFICES ASSUME NEW s \in Seq(S), NEW t \in Seq(S)
             PROVE  LexLess(s, t) <=> \E n \in Nat : DiffersAt(TermPairs(S), s, t, n)
  <2> DEFINE C == Seq(S)
  <2> HIDE DEF C
  <2>1. \A s, t \in C : <<s, t>> \in ListPairs(C) <=> LexLess(s, t)
    BY PairsAre
  <2> QED BY <2>1 DEF Lexicographic, C
<1>1. Len(s) \in Nat /\ Len(t) \in Nat
  OBVIOUS
<1>2. ASSUME NEW n \in 0 .. Len(t) - 1, n < Len(s)
      PROVE  <<s[n + 1], t[n + 1]>> \in TermPairs(S) <=> TermLess(s[n + 1], t[n + 1])
  <2>1. s[n + 1] \in S /\ t[n + 1] \in S
    BY <1>1, <1>2
  <2> QED BY <2>1, PairsAre
<1>3. ASSUME NEW n \in 0 .. Len(t) - 1
      PROVE  n \in Nat
  BY <1>1
<1> QED BY <1>2, <1>3 DEF LexLess, DiffersAt

LEMMA ArgsLexicographic ==
  ASSUME NEW S
  PROVE  Lexicographic(ArgPairs(Seq(S)), ListPairs(S), S)
<1> SUFFICES ASSUME NEW s \in Seq(S), NEW t \in Seq(S)
             PROVE  ArgsLess(s, t) <=> \E n \in Nat : DiffersAt(ListPairs(S), s, t, n)
  <2> DEFINE C == Seq(S)
  <2> HIDE DEF C
  <2>1. \A s, t \in C : <<s, t>> \in ArgPairs(C) <=> ArgsLess(s, t)
    BY PairsAre
  <2> QED BY <2>1 DEF Lexicographic, C
<1>1. Len(s) \in Nat /\ Len(t) \in Nat
  OBVIOUS
<1>2. ASSUME NEW n \in 0 .. Len(t) - 1, n < Len(s)
      PROVE  <<s[n + 1], t[n + 1]>> \in ListPairs(S) <=> LexLess(s[n + 1], t[n + 1])
  <2>1. s[n + 1] \in S /\ t[n + 1] \in S
    BY <1>1, <1>2
  <2> QED BY <2>1, PairsAre
<1>3. ASSUME NEW n \in 0 .. Len(t) - 1
      PROVE  n \in Nat
  BY <1>1
<1> QED BY <1>2, <1>3 DEF ArgsLess, DiffersAt

LEMMA TermStep ==
  ASSUME Unfolding, NEW t \in TermsOver(Factors), NEW u \in TermsOver(Factors)
  PROVE  TermLess(t, u) <=> TermLessStep(t, u)
<1>1. <<t>> \in Lists /\ <<u>> \in Lists /\ 1 \in DOMAIN <<t>> /\ 1 \in DOMAIN <<u>>
  BY DEF Lists
<1>2. TermLess(<<t>>[1], <<u>>[1]) <=> TermLessStep(<<t>>[1], <<u>>[1])
  BY <1>1 DEF Unfolding, Unfolds
<1> QED BY <1>2

(* Terms are ordered when the arguments of their factors are.              *)
LEMMA TermOrders ==
  ASSUME Unfolding, NEW A, A \subseteq Exps, StrictOrder(ArgPairs(Seq(A)), Seq(A))
  PROVE  StrictOrder(TermPairs(TermsOver(FactorsOver(A))), TermsOver(FactorsOver(A)))
<1> DEFINE T == TermsOver(FactorsOver(A))
<1>1. FactorsOver(A) \subseteq Factors
  BY FactorsGrow DEF Factors
<1>2. ASSUME NEW t \in T
      PROVE  /\ t \in TermsOver(Factors)
             /\ t.fac \in [type : TupleVar .. ConstVal, id : Int, idx : Int, args : Seq(A)]
             /\ t \in [coef : Int, fac : FactorsOver(A)]
             /\ t.coef \in Int /\ t.fac.type \in Int /\ t.fac.id \in Int /\ t.fac.idx \in Int
             /\ t.fac.args \in Seq(A)
  <2>1. t \in [coef : Int, fac : FactorsOver(A)]
    BY DEF TermsOver
  <2>2. t \in TermsOver(Factors)
    BY <1>1, <2>1 DEF TermsOver
  <2>3. t.fac \in [type : TupleVar .. ConstVal, id : Int, idx : Int, args : Seq(A)]
    BY <2>1 DEF FactorsOver
  <2>4. t.fac.type \in Int
    BY <2>3 DEF TupleVar, ConstVal
  <2> QED BY <2>1, <2>2, <2>3, <2>4
<1>3. ASSUME NEW t \in T, NEW u \in T
      PROVE  /\ TermLess(t, u) <=> TermLessStep(t, u)
             /\ t # u => \/ t.coef # u.coef \/ t.fac.type # u.fac.type \/ t.fac.id # u.fac.id
                         \/ t.fac.idx # u.fac.idx \/ t.fac.args # u.fac.args
  <2>1. TermLess(t, u) <=> TermLessStep(t, u)
    BY <1>2, TermStep
  <2>2. /\ t \in [coef : Int, fac : FactorsOver(A)] /\ u \in [coef : Int, fac : FactorsOver(A)]
        /\ t.fac \in [type : TupleVar .. ConstVal, id : Int, idx : Int, args : Seq(A)]
        /\ u.fac \in [type : TupleVar .. ConstVal, id : Int, idx : Int, args : Seq(A)]
    BY <1>2
  <2>3. t # u => t.coef # u.coef \/ t.fac # u.fac
    BY <2>2
  <2>4. t.fac # u.fac => \/ t.fac.type # u.fac.type \/ t.fac.id # u.fac.id
                         \/ t.fac.idx # u.fac.idx \/ t.fac.args # u.fac.args
    BY <2>2
  <2> QED BY <2>1, <2>3, <2>4
<1>4. ASSUME NEW a \in Seq(A), NEW b \in Seq(A)
      PROVE  /\ a # b => ArgsLess(a, b) \/ ArgsLess(b, a)
             /\ ~ (ArgsLess(a, b) /\ ArgsLess(b, a))
             /\ \A c \in Seq(A) : ArgsLess(a, b) /\ ArgsLess(b, c) => ArgsLess(a, c)
  <2> DEFINE C == Seq(A)
  <2>1. StrictOrder(ArgPairs(C), C) /\ a \in C /\ b \in C
    OBVIOUS
  <2> HIDE DEF C
  <2>2. /\ a # b => ArgsLess(a, b) \/ ArgsLess(b, a)
        /\ ~ (ArgsLess(a, b) /\ ArgsLess(b, a))
        /\ \A c \in C : ArgsLess(a, b) /\ ArgsLess(b, c) => ArgsLess(a, c)
    BY <2>1, PairsAre DEF StrictOrder
  <2> QED BY <2>2 DEF C
<1> HIDE DEF T
<1>5. ASSUME NEW t \in T, NEW u \in T
      PROVE  (t # u => TermLess(t, u) \/ TermLess(u, t)) /\ ~ (TermLess(t, u) /\ TermLess(u, t))
  <2>1. /\ t.coef \in Int /\ t.fac.type \in Int /\ t.fac.id \in Int /\ t.fac.idx \in Int
        /\ u.coef \in Int /\ u.fac.type \in Int /\ u.fac.id \in Int /\ u.fac.idx \in Int
    BY <1>2
  <2>2. /\ t.fac.args # u.fac.args => ArgsLess(t.fac.args, u.fac.args) \/ ArgsLess(u.fac.args, t.fac.args)
        /\ ~ (ArgsLess(t.fac.args, u.fac.args) /\ ArgsLess(u.fac.args, t.fac.args))
        /\ ~ ArgsLess(t.fac.args, t.fac.args)
    BY <1>2, <1>4
  <2>3. (TermLess(t, u) <=> TermLessStep(t, u)) /\ (TermLess(u, t) <=> TermLessStep(u, t))
    BY <1>3
  <2>4. t # u => \/ t.coef # u.coef \/ t.fac.type # u.fac.type \/ t.fac.id # u.fac.id
                 \/ t.fac.idx # u.fac.idx \/ t.fac.args # u.fac.args
    BY <1>3
  <2> QED BY <2>1, <2>2, <2>3, <2>4 DEF TermLessStep
<1>6. ASSUME NEW t \in T, NEW u \in T, NEW v \in T, TermLess(t, u), TermLess(u, v)
      PROVE  TermLess(t, v)
  <2>1. /\ t.coef \in Int /\ t.fac.type \in Int /\ t.fac.id \in Int /\ t.fac.idx \in Int
        /\ u.coef \in Int /\ u.fac.type \in Int /\ u.fac.id \in Int /\ u.fac.idx \in Int
        /\ v.coef \in Int /\ v.fac.type \in Int /\ v.fac.id \in Int /\ v.fac.idx \in Int
    BY <1>2
  <2>2. ArgsLess(t.fac.args, u.fac.args) /\ ArgsLess(u.fac.args, v.fac.args)
        => ArgsLess(t.fac.args, v.fac.args)
    BY <1>2, <1>4
  <2>3. /\ TermLess(t, v) <=> TermLessStep(t, v)
        /\ TermLessStep(t, u) /\ TermLessStep(u, v)
    BY <1>3, <1>6
  <2> QED BY <2>1, <2>2, <2>3 DEF TermLessStep
<1>7. StrictOrder(TermPairs(T), T)
  BY <1>5, <1>6, PairsAre DEF StrictOrder
<1> QED BY <1>7 DEF T

LEMMA SubsetOrdered ==
  ASSUME NEW S, NEW R, StrictOrder(R, S), NEW T, T \subseteq S, NEW Q,
         \A x, y \in T : <<x, y>> \in Q <=> <<x, y>> \in R
  PROVE  StrictOrder(Q, T)
BY DEF StrictOrder

(* The expressions of each depth are ordered, and so the terms over them.  *)
LEMMA LevelOrdered ==
  ASSUME Unfolding, NEW A, A \subseteq Exps, StrictOrder(ListPairs(A), A)
  PROVE  LET T == TermsOver(FactorsOver(A))
         IN  StrictOrder(TermPairs(T), T) /\ StrictOrder(ListPairs(Seq(T)), Seq(T))
<1> DEFINE T == TermsOver(FactorsOver(A))
<1>1. StrictOrder(ArgPairs(Seq(A)), Seq(A))
  BY ArgsLexicographic, LexOrders
<1>2. StrictOrder(TermPairs(T), T)
  BY <1>1, TermOrders
<1>3. StrictOrder(ListPairs(Seq(T)), Seq(T))
  <2> HIDE DEF T
  <2> QED BY <1>2, ListsLexicographic, LexOrders
<1> QED BY <1>2, <1>3

LEMMA NestedOrdered ==
  ASSUME Unfolding, NEW n \in Nat
  PROVE  StrictOrder(ListPairs(Nested[n]), Nested[n])
<1> DEFINE S == {m \in Nat : StrictOrder(ListPairs(Nested[m]), Nested[m])}
<1>1. 0 \in S
  BY NestedIs DEF StrictOrder
<1>2. ASSUME NEW m \in Nat, m \in S
      PROVE  m + 1 \in S
  <2> DEFINE A == Nested[m]
             T == TermsOver(FactorsOver(A))
             C == Seq(T)
             B == Nested[m + 1]
  <2>1. m + 1 \in Nat /\ StrictOrder(ListPairs(A), A) /\ A \subseteq Exps
    BY <1>2 DEF Exps
  <2>2. StrictOrder(ListPairs(C), C)
    <3> HIDE DEF A
    <3> QED BY <2>1, LevelOrdered
  <2>3. B \subseteq C
    <3>1. B = Seq(NonZero(FactorsOver(A)))
      BY NestedIs
    <3>2. NonZero(FactorsOver(A)) \subseteq T
      BY DEF NonZero, TermsOver
    <3> HIDE DEF B, T, A
    <3> DEFINE D == NonZero(FactorsOver(A))
    <3> HIDE DEF D
    <3>3. D \subseteq T => Seq(D) \subseteq Seq(T)
      OBVIOUS
    <3> QED BY <3>1, <3>2, <3>3 DEF D
  <2> HIDE DEF A, B, C
  <2>4. \A x, y \in B : <<x, y>> \in ListPairs(B) <=> <<x, y>> \in ListPairs(C)
    BY <2>3, PairsAre
  <2>5. StrictOrder(ListPairs(B), B)
    BY <2>2, <2>3, <2>4, SubsetOrdered
  <2> QED BY <2>1, <2>5 DEF B
<1>3. Nat \subseteq S
  <2> HIDE DEF S
  <2> QED BY <1>1, <1>2, SetInduction
<1> QED BY <1>3

LEMMA ExpsOrdered ==
  ASSUME Unfolding
  PROVE  StrictOrder(ListPairs(Exps), Exps)
<1>1. ASSUME NEW x \in Exps, NEW y \in Exps, NEW z \in Exps
      PROVE  \E n \in Nat : x \in Nested[n] /\ y \in Nested[n] /\ z \in Nested[n]
  <2>1. PICK i \in Nat : x \in Nested[i]
    BY DEF Exps
  <2>2. PICK j \in Nat : y \in Nested[j]
    BY DEF Exps
  <2>3. PICK k \in Nat : z \in Nested[k]
    BY DEF Exps
  <2>4. i + j + k \in Nat /\ i <= i + j + k /\ j <= i + j + k /\ k <= i + j + k
    OBVIOUS
  <2> QED BY <2>1, <2>2, <2>3, <2>4, NestedGrows
<1>2. ASSUME NEW x \in Exps, NEW y \in Exps, NEW z \in Exps
      PROVE  /\ x # y => LexLess(x, y) \/ LexLess(y, x)
             /\ ~ (LexLess(x, y) /\ LexLess(y, x))
             /\ LexLess(x, y) /\ LexLess(y, z) => LexLess(x, z)
  <2>1. PICK n \in Nat : x \in Nested[n] /\ y \in Nested[n] /\ z \in Nested[n]
    BY <1>1
  <2> DEFINE N == Nested[n]
  <2>2. StrictOrder(ListPairs(N), N)
    BY NestedOrdered
  <2> HIDE DEF N
  <2>3. x \in N /\ y \in N /\ z \in N
    BY <2>1 DEF N
  <2>4. /\ x # y => <<x, y>> \in ListPairs(N) \/ <<y, x>> \in ListPairs(N)
        /\ ~ (<<x, y>> \in ListPairs(N) /\ <<y, x>> \in ListPairs(N))
        /\ <<x, y>> \in ListPairs(N) /\ <<y, z>> \in ListPairs(N) => <<x, z>> \in ListPairs(N)
    BY <2>2, <2>3 DEF StrictOrder
  <2> QED BY <2>3, <2>4, PairsAre
<1> QED BY <1>2, PairsAre DEF StrictOrder

(* Term::operator< orders terms by their factors, at every depth; it tells *)
(* the lists of terms apart.  (What TermLists_proofs assumes of it.)       *)
THEOREM TermLessOrders ==
  ASSUME Unfolding
  PROVE  Exact(Factors) /\ OrdersFactors(TermsOver(Factors))
<1> DEFINE T == TermsOver(Factors)
<1>1. StrictOrder(TermPairs(T), T)
  BY ExpsOrdered, LevelOrdered DEF Factors
<1>2. ASSUME NEW t \in T, NEW u \in T, NEW v \in T, TermLess(t, u), TermLess(u, v)
      PROVE  TermLess(t, v)
  <2> HIDE DEF T
  <2> QED BY <1>1, <1>2, PairsAre DEF StrictOrder
<1>3. ASSUME NEW t \in T, NEW u \in T
      PROVE  (t # u => TermLess(t, u) \/ TermLess(u, t)) /\ ~ (TermLess(t, u) /\ TermLess(u, t))
  <2> HIDE DEF T
  <2> QED BY <1>1, PairsAre DEF StrictOrder
<1>4. ASSUME NEW t \in T, NEW u \in T, NEW v \in T, NEW w \in T, t.fac # u.fac,
             v.fac = t.fac, w.fac = u.fac, TermLess(t, u)
      PROVE  TermLess(v, w)
  <2>1. TermLessStep(t, u)
    BY <1>4, TermStep
  <2>2. ~ (/\ t.fac.type = u.fac.type /\ t.fac.id = u.fac.id /\ t.fac.idx = u.fac.idx
           /\ t.fac.args = u.fac.args)
    <3>1. /\ t.fac \in [type : 0 .. 3, id : Int, idx : Int, args : Seq(Exps)]
          /\ u.fac \in [type : 0 .. 3, id : Int, idx : Int, args : Seq(Exps)]
      BY FactorIs DEF TermsOver
    <3> QED BY <1>4, <3>1
  <2>3. TermLessStep(v, w)
    BY <1>4, <2>1, <2>2 DEF TermLessStep
  <2> QED BY <2>3, TermStep
<1>5. OrdersFactors(T)
  <2>1. ASSUME NEW t \in T, NEW u \in T, t.fac # u.fac
        PROVE  t # u
    BY <2>1
  <2> HIDE DEF T
  <2> QED BY <1>2, <1>3, <1>4, <2>1 DEF OrdersFactors
<1> QED BY <1>5, FactorsExact

(* Exp::operator== is equality.                                            *)
LEMMA ExpEqualIs ==
  ASSUME Unfolding, NEW d \in Exps, NEW e \in Exps
  PROVE  ExpEqual(d, e) <=> d = e
<1>1. Len(d) \in Nat /\ Len(e) \in Nat
  BY ExpIs, ListIs
<1>2. /\ d # e => LexLess(d, e) \/ LexLess(e, d)
      /\ ~ LexLess(d, d)
  BY ExpsOrdered, PairsAre DEF StrictOrder
<1> QED BY <1>1, <1>2 DEF ExpEqual, ExpLess
-----------------------------------------------------------------------------
(* A list without zero coefficients, and with more terms of the same       *)
(* factors: the operations of TermLists keep both.                         *)
LEMMA NonZeroIs ==
  ASSUME NEW Fs, NEW e
  PROVE  e \in Seq(NonZero(Fs)) <=> /\ e \in Seq(TermsOver(Fs))
                                    /\ \A i \in 1 .. Len(e) : e[i].coef # 0
<1> DEFINE C == NonZero(Fs)
           D == TermsOver(Fs)
<1>1. ASSUME NEW t
      PROVE  t \in C <=> t \in D /\ t.coef # 0
  BY DEF NonZero, TermsOver
<1> HIDE DEF C, D
<1>2. ASSUME e \in Seq(C)
      PROVE  e \in Seq(D) /\ \A i \in 1 .. Len(e) : e[i].coef # 0
  <2>1. \A i \in 1 .. Len(e) : e[i] \in C
    BY <1>2
  <2>2. \A i \in 1 .. Len(e) : e[i] \in D /\ e[i].coef # 0
    BY <1>1, <2>1
  <2> QED BY <1>2, <2>2
<1>3. ASSUME e \in Seq(D), \A i \in 1 .. Len(e) : e[i].coef # 0
      PROVE  e \in Seq(C)
  <2>1. \A i \in 1 .. Len(e) : e[i] \in D
    BY <1>3
  <2>2. \A i \in 1 .. Len(e) : e[i] \in C
    BY <1>1, <1>3, <2>1
  <2> QED BY <1>3, <2>2
<1> QED BY <1>2, <1>3 DEF C, D

LEMMA AddTermNonZero ==
  ASSUME NEW Fs, NEW e \in Seq(NonZero(Fs)), NEW t \in TermsOver(Fs)
  PROVE  AddTerm(e, t) \in Seq(NonZero(Fs))
<1> DEFINE r == AddTerm(e, t)
<1>1. e \in Seq(TermsOver(Fs)) /\ Len(e) \in Nat /\ \A i \in 1 .. Len(e) : e[i].coef # 0
  BY NonZeroIs
<1>2. /\ r \in Seq(TermsOver(Fs))
      /\ \/ t.coef = 0 /\ r = e
         \/ t.coef # 0 /\ \E i : GoesIn(r, e, t, i) \/ Cancels(r, e, t, i) \/ Combines(r, e, t, i)
  BY <1>1, AddTermCases
<1> HIDE DEF r
<1>3. ASSUME NEW j \in 1 .. Len(r)
      PROVE  r[j].coef # 0
  <2>1. CASE r = e
    BY <1>1, <2>1
  <2>2. ASSUME NEW i, GoesIn(r, e, t, i), t.coef # 0
        PROVE  r[j].coef # 0
    BY <1>1, <2>2 DEF GoesIn, Inserted
  <2>3. ASSUME NEW i, Cancels(r, e, t, i)
        PROVE  r[j].coef # 0
    BY <1>1, <2>3 DEF Cancels, Deleted
  <2>4. ASSUME NEW i, Combines(r, e, t, i)
        PROVE  r[j].coef # 0
    <3>1. /\ i \in 1 .. Len(e) /\ e[i].coef + t.coef # 0
          /\ r = [e EXCEPT ![i].coef = e[i].coef + t.coef]
      BY <2>4 DEF Combines
    <3>2. Len(r) = Len(e) /\ e \in [1 .. Len(e) -> TermsOver(Fs)]
      BY <1>1, <3>1
    <3>3. j \in 1 .. Len(e) /\ e[j] \in TermsOver(Fs)
      BY <3>2
    <3>4. r[j].coef = IF j = i THEN e[i].coef + t.coef ELSE e[j].coef
      BY <3>1, <3>2, <3>3 DEF TermsOver
    <3> QED BY <1>1, <3>1, <3>3, <3>4
  <2> QED BY <1>2, <2>1, <2>2, <2>3, <2>4
<1> QED BY <1>2, <1>3, NonZeroIs DEF r

LEMMA AddExpNonZero ==
  ASSUME NEW Fs, NEW d \in Seq(NonZero(Fs)), NEW e \in Seq(TermsOver(Fs))
  PROVE  AddExp(d, e) \in Seq(NonZero(Fs))
<1> DEFINE C == Seq(NonZero(Fs))
<1>1. Len(e) \in Nat /\ \A i \in 1 .. Len(e) : e[i] \in TermsOver(Fs)
  OBVIOUS
<1>2. ASSUME NEW x \in C, NEW i \in 1 .. Len(e)
      PROVE  AddTerm(x, e[i]) \in C
  BY <1>1, AddTermNonZero
<1>3. d \in C
  OBVIOUS
<1> HIDE DEF C
<1>4. PICK s \in [0 .. Len(e) -> C] : AddedUpTo(s, d, e)
  BY <1>1, <1>2, <1>3, AddExpSteps
<1>5. AddExp(d, e) = s[Len(e)] /\ s[Len(e)] \in C
  BY <1>1, <1>4 DEF AddedUpTo
<1> QED BY <1>5 DEF C

LEMMA RebuildNonZero ==
  ASSUME NEW Fs, NEW lists, Len(lists) \in Nat,
         \A i \in 1 .. Len(lists) : lists[i] \in Seq(TermsOver(Fs))
  PROVE  Rebuild(lists) \in Seq(NonZero(Fs))
<1> DEFINE C == Seq(NonZero(Fs))
<1>1. ASSUME NEW x \in C, NEW i \in 1 .. Len(lists)
      PROVE  AddExp(x, lists[i]) \in C
  BY AddExpNonZero
<1>2. <<>> \in C
  OBVIOUS
<1> HIDE DEF C
<1>3. PICK s \in [0 .. Len(lists) -> C] : RebuiltUpTo(s, lists)
  BY <1>1, <1>2, RebuildSteps
<1>4. Rebuild(lists) = s[Len(lists)] /\ s[Len(lists)] \in C
  BY <1>3 DEF RebuiltUpTo
<1> QED BY <1>4 DEF C

LEMMA MultiplyByNonZero ==
  ASSUME NEW Fs, NEW e \in Seq(NonZero(Fs)), NEW c \in Int \ {0}
  PROVE  MultiplyBy(e, c) \in Seq(NonZero(Fs))
<1> DEFINE r == MultiplyBy(e, c)
           cf == [i \in 1 .. Len(e) |-> c * e[i].coef]
<1>1. e \in Seq(TermsOver(Fs)) /\ Len(e) \in Nat /\ \A i \in 1 .. Len(e) : e[i].coef # 0
  BY NonZeroIs
<1>2. r \in Seq(TermsOver(Fs)) /\ Recoefficients(r, e, cf)
  BY <1>1, MultiplyByIs
<1> HIDE DEF r
<1>3. ASSUME NEW i \in 1 .. Len(e)
      PROVE  cf[i] # 0
  <2>1. e[i].coef \in Int \ {0}
    <3>1. e[i] \in TermsOver(Fs)
      BY <1>1
    <3> QED BY <1>1, <3>1 DEF TermsOver
  <2>2. \A x \in Int \ {0} : c * x # 0
    OBVIOUS
  <2> QED BY <2>1, <2>2
<1>4. \A i \in 1 .. Len(r) : r[i].coef # 0
  BY <1>2, <1>3 DEF Recoefficients
<1> QED BY <1>2, <1>4, NonZeroIs DEF r

LEMMA NormalizeNonZero ==
  ASSUME NEW Fs, NEW e \in Seq(NonZero(Fs))
  PROVE  NormalizeForEquality(e) \in Seq(NonZero(Fs))
<1> DEFINE s == IF e # <<>> /\ e[1].coef < 0 THEN MultiplyBy(e, -1) ELSE e
<1>1. s \in Seq(NonZero(Fs))
  BY MultiplyByNonZero
<1>2. NormalizeForEquality(e) = IF s # <<>> /\ Last(s).coef = 0 THEN Front(s) ELSE s
  BY DEF NormalizeForEquality
<1> HIDE DEF s
<1>3. s # <<>> => Last(s).coef # 0
  <2> SUFFICES ASSUME s # <<>>
               PROVE  Last(s).coef # 0
    OBVIOUS
  <2>1. Len(s) \in 1 .. Len(s) /\ Last(s) = s[Len(s)]
    BY <1>1 DEF Last
  <2> QED BY <1>1, <2>1, NonZeroIs
<1> QED BY <1>1, <1>2, <1>3
-----------------------------------------------------------------------------
(* Substitutes are expressions.                                            *)
LEMMA SubsAre ==
  ASSUME NEW sub \in Subs
  PROVE  /\ DOMAIN sub \subseteq {Tv(l) : l \in 0 .. Arity - 1}
         /\ \A F \in DOMAIN sub : F \in Factors /\ sub[F] \in Exps /\ Canonical(sub[F])
<1>1. MaxDepth \in Nat /\ Arity \in Nat
  BY ClientAssumption
<1>2. Nested[MaxDepth] \subseteq Exps
  BY <1>1 DEF Exps
<1>3. /\ DOMAIN sub \subseteq {Tv(l) : l \in 0 .. Arity - 1}
      /\ \A F \in DOMAIN sub : sub[F] \in Nested[MaxDepth] /\ Canonical(sub[F])
  BY ClientAssumption
<1>4. ASSUME NEW l \in 0 .. Arity - 1
      PROVE  Tv(l) \in Factors
  <2>1. Tv(l) \in [type : TupleVar .. ConstVal, id : Int, idx : Int, args : Seq(Exps)]
    BY <1>1 DEF Tv, Factor, TupleVar, ConstVal
  <2>2. WellFormed(Tv(l))
    BY <1>1 DEF Tv, Factor, TupleVar, UFCall, WellFormed
  <2> QED BY <2>1, <2>2 DEF Factors, FactorsOver
<1> QED BY <1>2, <1>3, <1>4

(* The terms of an expression, and their arguments.                        *)
LEMMA ArgsAre ==
  ASSUME NEW e \in Exps, NEW i \in 1 .. Len(e)
  PROVE  /\ e[i].fac \in Factors /\ e[i].coef \in Int \ {0} /\ e[i] \in TermsOver(Factors)
         /\ \A a \in 1 .. Len(e[i].fac.args) : e[i].fac.args[a] \in ArgsIn(e)
<1>1. /\ e \in Lists /\ e[i].coef # 0 /\ DOMAIN e = 1 .. Len(e) /\ e[i].coef \in Int
      /\ e[i].fac \in Factors /\ e[i] \in TermsOver(Factors)
  BY ExpIs, ListIs
<1>2. Range(e[i].fac.args) \subseteq ArgsIn(e)
  BY <1>1 DEF ArgsIn
<1>3. DOMAIN e[i].fac.args = 1 .. Len(e[i].fac.args)
  BY <1>1, FactorIs
<1> QED BY <1>1, <1>2, <1>3 DEF Range

(* A term with other arguments, as many.                                   *)
WithArgs(t, args) == [t EXCEPT !.fac.args = args]
LEMMA WithArgsIs ==
  ASSUME NEW t \in TermsOver(Factors), NEW S, NEW args \in Seq(S), Len(args) = Len(t.fac.args)
  PROVE  LET u == WithArgs(t, args)
         IN  /\ u \in TermsOver(FactorsOver(S)) /\ u.fac \in FactorsOver(S) /\ u.coef = t.coef
             /\ u.fac.args = args /\ u.fac.type = t.fac.type /\ u.fac.id = t.fac.id
             /\ Bare(u.fac) = Bare(t.fac)
<1> DEFINE F == t.fac
           u == WithArgs(t, args)
           G == [F EXCEPT !.args = args]
<1>1. t.coef \in Int /\ F \in Factors
  BY DEF TermsOver
<1>2. F \in [type : 0 .. 3, id : Int, idx : Int, args : Seq(Exps)] /\ WellFormed(F)
  BY <1>1, FactorIs
<1>3. u = [coef |-> t.coef, fac |-> G]
  BY DEF WithArgs, TermsOver
<1>4. /\ G \in [type : 0 .. 3, id : Int, idx : Int, args : Seq(S)]
      /\ G.type = F.type /\ G.id = F.id /\ G.idx = F.idx /\ G.args = args
  BY <1>2
<1>5. WellFormed(G)
  <2> HIDE DEF F, G
  <2> QED BY <1>2, <1>4 DEF WellFormed, F
<1>6. Bare(G) = Bare(F)
  BY <1>2 DEF Bare
<1>7. G \in FactorsOver(S)
  <2> HIDE DEF G, F
  <2> QED BY <1>4, <1>5 DEF FactorsOver, TupleVar, ConstVal
<1> QED BY <1>1, <1>3, <1>4, <1>6, <1>7 DEF TermsOver

(* The three operations, their inner definitions taken out.                *)
SubstitutedArgs(F, sub) == [a \in DOMAIN F.args |-> Substitute(F.args[a], sub)]
SubstitutedTerm(t, sub) ==
  IF t.fac \in DOMAIN sub THEN MultiplyBy(sub[t.fac], t.coef)
  ELSE <<WithArgs(t, SubstitutedArgs(t.fac, sub))>>
SubLists(e, sub) == [i \in 1 .. Len(e) |-> SubstitutedTerm(e[i], sub)]

RemappedArgs(F, locs) == [a \in DOMAIN F.args |-> RemapTupleVars(F.args[a], locs)]
RemappedTerm(t, locs) ==
  IF t.fac.type = TupleVar THEN [t EXCEPT !.fac.id = locs[t.fac.id + 1]]
  ELSE WithArgs(t, RemappedArgs(t.fac, locs))

CollapsedArgs(F) == [a \in DOMAIN F.args |-> Collapse(F.args[a])]
CollapsedTerm(t) ==
  IF Collapses(t.fac) THEN MultiplyBy(Collapse(InnerCalls(t.fac)[1].args[1]), t.coef)
  ELSE <<WithArgs(t, CollapsedArgs(t.fac))>>
ColLists(e) == [i \in 1 .. Len(e) |-> CollapsedTerm(e[i])]

LEMMA SubstituteIs ==
  ASSUME Unfolding, NEW sub \in Subs, NEW e \in Exps
  PROVE  Substitute(e, sub) = Rebuild(SubLists(e, sub))
<1> DEFINE keys(t) == {F \in DOMAIN sub : FactorMatches(t.fac, F)}
           with(t) == IF keys(t) # {}
                        THEN MultiplyBy(sub[CHOOSE F \in keys(t) : TRUE], t.coef)
                        ELSE <<[t EXCEPT !.fac.args =
                                 [a \in DOMAIN @ |-> Substitute(@[a], sub)]]>>
<1>1. e \in Lists /\ DOMAIN e = 1 .. Len(e)
  BY ExpIs, ListIs
<1>2. Substitute(e, sub) = Rebuild([i \in DOMAIN e |-> with(e[i])])
  <2>1. Substitute(e, sub) = SubstituteStep(e, sub)
    BY <1>1 DEF Unfolding, Unfolds
  <2> QED BY <2>1 DEF SubstituteStep
<1>3. ASSUME NEW i \in 1 .. Len(e)
      PROVE  with(e[i]) = SubstitutedTerm(e[i], sub)
  <2> DEFINE t == e[i]
  <2>1. t.fac \in Factors
    BY ArgsAre
  <2>2. \A F \in DOMAIN sub : FactorMatches(t.fac, F) <=> t.fac = F
    <3>1. \A F \in DOMAIN sub : F \in Factors
      BY SubsAre
    <3>2. \A F \in DOMAIN sub : FactorMatches(t.fac, F) => t.fac = F
      BY <2>1, <3>1, FactorsExact DEF Exact
    <3>3. FactorMatches(t.fac, t.fac)
      BY DEF FactorMatches
    <3> HIDE DEF t
    <3> QED BY <3>2, <3>3
  <2> HIDE DEF t
  <2>3. CASE t.fac \in DOMAIN sub
    <3>1. keys(t) = {t.fac}
      BY <2>2, <2>3
    <3>2. with(t) = MultiplyBy(sub[t.fac], t.coef)
      BY <3>1
    <3> QED BY <2>3, <3>2 DEF SubstitutedTerm, t
  <2>4. CASE t.fac \notin DOMAIN sub
    <3>1. keys(t) = {}
      BY <2>2, <2>4
    <3> QED BY <2>4, <3>1 DEF SubstitutedTerm, SubstitutedArgs, WithArgs, t
  <2> QED BY <2>3, <2>4
<1>4. [i \in DOMAIN e |-> with(e[i])] = SubLists(e, sub)
  <2> HIDE DEF with
  <2> QED BY <1>1, <1>3 DEF SubLists
<1> QED BY <1>2, <1>4

LEMMA RemapIs ==
  ASSUME Unfolding, NEW locs \in Remaps, NEW e \in Exps
  PROVE  RemapTupleVars(e, locs) = [i \in 1 .. Len(e) |-> RemappedTerm(e[i], locs)]
<1>1. e \in Lists /\ DOMAIN e = 1 .. Len(e)
  BY ExpIs, ListIs
<1>2. RemapTupleVars(e, locs) = RemapStep(e, locs)
  BY <1>1 DEF Unfolding, Unfolds
<1> QED BY <1>1, <1>2 DEF RemapStep, RemappedTerm, RemappedArgs, WithArgs

LEMMA CollapseIs ==
  ASSUME Unfolding, NEW e \in Exps
  PROVE  Collapse(e) = Rebuild(ColLists(e))
<1>1. e \in Lists /\ DOMAIN e = 1 .. Len(e)
  BY ExpIs, ListIs
<1>2. Collapse(e) = CollapseStep(e)
  BY <1>1 DEF Unfolding, Unfolds
<1> QED BY <1>1, <1>2 DEF CollapseStep, ColLists, CollapsedTerm, CollapsedArgs, WithArgs

(* The lists that are added up have terms over the arguments S, when the   *)
(* operation takes the arguments of calls to S and substitutes are over S. *)
LEMMA SubListsOver ==
  ASSUME NEW S, NEW sub \in Subs, NEW e \in Exps,
         \A F \in DOMAIN sub : sub[F] \in Seq(TermsOver(FactorsOver(S))),
         \A x \in ArgsIn(e) : Substitute(x, sub) \in S
  PROVE  SubLists(e, sub) \in [1 .. Len(e) -> Seq(TermsOver(FactorsOver(S)))]
<1>1. ASSUME NEW i \in 1 .. Len(e)
      PROVE  SubstitutedTerm(e[i], sub) \in Seq(TermsOver(FactorsOver(S)))
  <2> DEFINE t == e[i]
             args == SubstitutedArgs(t.fac, sub)
  <2>1. t \in TermsOver(Factors) /\ t.coef \in Int /\ t.fac \in Factors
    BY ArgsAre
  <2>2. CASE t.fac \in DOMAIN sub
    <3>1. MultiplyBy(sub[t.fac], t.coef) \in Seq(TermsOver(FactorsOver(S)))
      BY <2>1, <2>2, MultiplyByIs
    <3> QED BY <2>2, <3>1 DEF SubstitutedTerm
  <2>3. CASE t.fac \notin DOMAIN sub
    <3>1. \A a \in 1 .. Len(t.fac.args) : t.fac.args[a] \in ArgsIn(e)
      BY ArgsAre
    <3>2. DOMAIN t.fac.args = 1 .. Len(t.fac.args) /\ Len(t.fac.args) \in Nat
      BY <2>1, FactorIs
    <3>3. args \in Seq(S) /\ Len(args) = Len(t.fac.args)
      BY <3>1, <3>2 DEF SubstitutedArgs
    <3>4. WithArgs(t, args) \in TermsOver(FactorsOver(S))
      BY <2>1, <3>3, WithArgsIs
    <3> QED BY <2>3, <3>4 DEF SubstitutedTerm
  <2> QED BY <2>2, <2>3
<1> QED BY <1>1 DEF SubLists

(* What f(f_inv(x)) collapses to.                                          *)
LEMMA CollapsedArgIs ==
  ASSUME NEW e \in Exps, NEW i \in 1 .. Len(e), Collapses(e[i].fac)
  PROVE  LET F == e[i].fac
         IN  /\ Len(F.args) \in Nat /\ 1 \in 1 .. Len(F.args) /\ F.args[1] \in ArgsIn(e)
             /\ InnerCalls(F)[1].args[1] \in ArgsIn(F.args[1])
<1> DEFINE F == e[i].fac
           x == F.args[1]
<1>1. F \in Factors /\ \A a \in 1 .. Len(F.args) : F.args[a] \in ArgsIn(e)
  BY ArgsAre
<1>2. /\ Len(F.args) \in Nat /\ DOMAIN F.args = 1 .. Len(F.args) /\ F.args \in Seq(Exps)
      /\ \A a \in 1 .. Len(F.args) : F.args[a] \in Exps
  BY <1>1, FactorIs
<1>3. F.args # <<>> /\ \A a \in DOMAIN F.args : Inverts(F, a)
  BY DEF Collapses
<1>4. 1 \in 1 .. Len(F.args)
  BY <1>2, <1>3
<1>5. Len(x) = 1 /\ InnerCalls(F)[1] = x[1].fac /\ x[1].fac.type = UFCall
  BY <1>2, <1>3, <1>4 DEF Inverts, InnerCalls
<1>6. x \in Exps /\ 1 \in 1 .. Len(x)
  BY <1>2, <1>4, <1>5
<1>7. x[1].fac \in Factors /\ \A a \in 1 .. Len(x[1].fac.args) : x[1].fac.args[a] \in ArgsIn(x)
  <2> HIDE DEF x
  <2> QED BY <1>6, ArgsAre
<1>8. 1 \in 1 .. Len(x[1].fac.args)
  <2>1. WellFormed(x[1].fac)
    BY <1>7, FactorIs
  <2> HIDE DEF x
  <2> QED BY <1>5, <2>1, ClientAssumption DEF WellFormed
<1> QED BY <1>1, <1>2, <1>4, <1>5, <1>7, <1>8

LEMMA ColListsOver ==
  ASSUME NEW S, NEW e \in Exps,
         \A x \in ArgsIn(e) : Collapse(x) \in S,
         \A x \in ArgsIn(e) : \A y \in ArgsIn(x) : Collapse(y) \in Seq(TermsOver(FactorsOver(S)))
  PROVE  ColLists(e) \in [1 .. Len(e) -> Seq(TermsOver(FactorsOver(S)))]
<1>1. ASSUME NEW i \in 1 .. Len(e)
      PROVE  CollapsedTerm(e[i]) \in Seq(TermsOver(FactorsOver(S)))
  <2> DEFINE t == e[i]
             args == CollapsedArgs(t.fac)
  <2>1. t \in TermsOver(Factors) /\ t.coef \in Int /\ t.fac \in Factors
    BY ArgsAre
  <2>2. CASE Collapses(t.fac)
    <3>1. Collapse(InnerCalls(t.fac)[1].args[1]) \in Seq(TermsOver(FactorsOver(S)))
      BY <2>2, CollapsedArgIs
    <3> QED BY <2>1, <2>2, <3>1, MultiplyByIs DEF CollapsedTerm
  <2>3. CASE ~ Collapses(t.fac)
    <3>1. \A a \in 1 .. Len(t.fac.args) : t.fac.args[a] \in ArgsIn(e)
      BY ArgsAre
    <3>2. DOMAIN t.fac.args = 1 .. Len(t.fac.args) /\ Len(t.fac.args) \in Nat
      BY <2>1, FactorIs
    <3>3. args \in Seq(S) /\ Len(args) = Len(t.fac.args)
      BY <3>1, <3>2 DEF CollapsedArgs
    <3>4. WithArgs(t, args) \in TermsOver(FactorsOver(S))
      BY <2>1, <3>3, WithArgsIs
    <3> QED BY <2>3, <3>4 DEF CollapsedTerm
  <2> QED BY <2>2, <2>3
<1> QED BY <1>1 DEF ColLists
-----------------------------------------------------------------------------
(* The operations take expressions to expressions.                         *)
LEMMA ExpsOver == Exps \subseteq Lists /\ Lists = Seq(TermsOver(FactorsOver(Exps)))
BY ExpIs DEF Lists, Factors

LEMMA RebuiltIsExp ==
  ASSUME NEW e \in Exps, NEW lists \in [1 .. Len(e) -> Lists]
  PROVE  Rebuild(lists) \in Exps
<1>1. Len(e) \in Nat
  BY ExpIs, ListIs
<1>2. Len(lists) \in Nat /\ \A i \in 1 .. Len(lists) : lists[i] \in Seq(TermsOver(Factors))
  BY <1>1 DEF Lists
<1> QED BY <1>2, RebuildNonZero, ExpsAre

LEMMA SubstituteExp ==
  ASSUME Unfolding, NEW sub \in Subs, NEW e \in Exps
  PROVE  Substitute(e, sub) \in Exps
<1> DEFINE S == {x \in Exps : Substitute(x, sub) \in Exps}
<1>1. ASSUME NEW x \in Exps, ArgsIn(x) \subseteq S
      PROVE  x \in S
  <2>1. \A y \in ArgsIn(x) : Substitute(y, sub) \in Exps
    BY <1>1
  <2>2. \A F \in DOMAIN sub : sub[F] \in Lists
    BY SubsAre, ExpsOver
  <2>3. SubLists(x, sub) \in [1 .. Len(x) -> Lists]
    BY <2>1, <2>2, SubListsOver, ExpsOver
  <2> QED BY <2>3, RebuiltIsExp, SubstituteIs
<1>2. Exps \subseteq S
  <2> HIDE DEF S
  <2> QED BY <1>1, ExpInduction
<1> QED BY <1>2

(* Structural induction two levels at a time.                              *)
LEMMA ExpInduction2 ==
  ASSUME NEW S, \A e \in Exps : /\ ArgsIn(e) \subseteq S
                                /\ \A x \in ArgsIn(e) : ArgsIn(x) \subseteq S
                                => e \in S
  PROVE  Exps \subseteq S
<1> DEFINE T == {e \in S : ArgsIn(e) \subseteq S}
<1>1. ASSUME NEW e \in Exps, ArgsIn(e) \subseteq T
      PROVE  e \in T
  BY <1>1
<1>2. Exps \subseteq T
  <2> HIDE DEF T
  <2> QED BY <1>1, ExpInduction
<1> QED BY <1>2

LEMMA CollapseExp ==
  ASSUME Unfolding, NEW e \in Exps
  PROVE  Collapse(e) \in Exps
<1> DEFINE S == {x \in Exps : Collapse(x) \in Exps}
<1>1. ASSUME NEW x \in Exps, ArgsIn(x) \subseteq S, \A y \in ArgsIn(x) : ArgsIn(y) \subseteq S
      PROVE  x \in S
  <2>1. \A y \in ArgsIn(x) : Collapse(y) \in Exps
    BY <1>1
  <2>2. \A y \in ArgsIn(x) : \A z \in ArgsIn(y) : Collapse(z) \in Lists
    BY <1>1, ExpsOver
  <2>3. ColLists(x) \in [1 .. Len(x) -> Lists]
    BY <2>1, <2>2, ColListsOver, ExpsOver
  <2> QED BY <2>3, RebuiltIsExp, CollapseIs
<1>2. Exps \subseteq S
  <2> HIDE DEF S
  <2> QED BY <1>1, ExpInduction2
<1> QED BY <1>2

LEMMA RemappedOver ==
  ASSUME NEW S, NEW locs \in Remaps, NEW t \in TermsOver(Factors),
         \A a \in 1 .. Len(t.fac.args) : RemapTupleVars(t.fac.args[a], locs) \in S
  PROVE  /\ RemappedTerm(t, locs) \in TermsOver(FactorsOver(S))
         /\ RemappedTerm(t, locs).coef = t.coef
<1> DEFINE F == t.fac
           args == RemappedArgs(F, locs)
<1>1. t.coef \in Int /\ F \in Factors
  BY DEF TermsOver
<1>2. /\ F \in [type : 0 .. 3, id : Int, idx : Int, args : Seq(Exps)] /\ WellFormed(F)
      /\ Len(F.args) \in Nat /\ DOMAIN F.args = 1 .. Len(F.args)
  BY <1>1, FactorIs
<1>3. CASE F.type = TupleVar
  <2> DEFINE G == [F EXCEPT !.id = locs[F.id + 1]]
  <2>1. RemappedTerm(t, locs) = [coef |-> t.coef, fac |-> G]
    BY <1>3 DEF RemappedTerm, TermsOver
  <2>2. F.id + 1 \in 1 .. Arity /\ locs \in [1 .. Arity -> 0 .. Arity - 1]
    <3>1. F.id \in 0 .. Arity - 1 /\ Arity \in Nat
      BY <1>2, <1>3, ClientAssumption DEF WellFormed
    <3> QED BY <3>1, ClientAssumption
  <2>3. locs[F.id + 1] \in 0 .. Arity - 1 /\ Arity \in Nat
    BY <2>2, ClientAssumption
  <2>4. Len(F.args) = 0
    BY <1>2, <1>3 DEF WellFormed, TupleVar, UFCall
  <2>5. F.args = <<>>
    BY <1>2, <2>4
  <2>6. /\ G.type = F.type /\ G.id \in 0 .. Arity - 1 /\ G.idx = F.idx /\ G.args = F.args
        /\ G \in [type : 0 .. 3, id : Int, idx : Int, args : Seq(S)]
    BY <1>2, <2>3, <2>5
  <2>7. WellFormed(G)
    <3> HIDE DEF G, F
    <3> QED BY <1>2, <1>3, <2>6 DEF WellFormed, TupleVar, UFCall
  <2>8. G \in FactorsOver(S)
    <3> HIDE DEF G, F
    <3> QED BY <2>6, <2>7 DEF FactorsOver, TupleVar, ConstVal
  <2> QED BY <1>1, <2>1, <2>8 DEF TermsOver
<1>4. CASE F.type # TupleVar
  <2>1. args \in Seq(S) /\ Len(args) = Len(F.args)
    BY <1>2 DEF RemappedArgs
  <2>2. RemappedTerm(t, locs) = WithArgs(t, args)
    BY <1>4 DEF RemappedTerm
  <2> QED BY <2>1, <2>2, WithArgsIs
<1> QED BY <1>3, <1>4

LEMMA RemapExp ==
  ASSUME Unfolding, NEW locs \in Remaps, NEW e \in Exps
  PROVE  RemapTupleVars(e, locs) \in Exps
<1> DEFINE S == {x \in Exps : RemapTupleVars(x, locs) \in Exps}
<1>1. ASSUME NEW x \in Exps, ArgsIn(x) \subseteq S
      PROVE  x \in S
  <2> DEFINE r == RemapTupleVars(x, locs)
  <2>1. r = [i \in 1 .. Len(x) |-> RemappedTerm(x[i], locs)] /\ Len(x) \in Nat
    BY RemapIs, ExpIs, ListIs
  <2>2. ASSUME NEW i \in 1 .. Len(x)
        PROVE  r[i] \in TermsOver(Factors) /\ r[i].coef # 0
    <3>1. \A y \in ArgsIn(x) : RemapTupleVars(y, locs) \in Exps
      BY <1>1
    <3>2. /\ x[i] \in TermsOver(Factors) /\ x[i].coef # 0
          /\ \A a \in 1 .. Len(x[i].fac.args) : x[i].fac.args[a] \in ArgsIn(x)
      BY ArgsAre
    <3>3. \A a \in 1 .. Len(x[i].fac.args) : RemapTupleVars(x[i].fac.args[a], locs) \in Exps
      BY <3>1, <3>2
    <3>4. /\ RemappedTerm(x[i], locs) \in TermsOver(FactorsOver(Exps))
          /\ RemappedTerm(x[i], locs).coef = x[i].coef
      BY <3>2, <3>3, RemappedOver
    <3> QED BY <2>1, <3>2, <3>4 DEF Factors
  <2>3. r \in Lists /\ \A i \in 1 .. Len(r) : r[i].coef # 0
    <3> HIDE DEF r
    <3>1. Len(r) = Len(x)
      BY <2>1
    <3> QED BY <2>1, <2>2, <3>1 DEF Lists
  <2> QED BY <2>3, NonZeroIsExp
<1>2. Exps \subseteq S
  <2> HIDE DEF S
  <2> QED BY <1>1, ExpInduction
<1> QED BY <1>2

(* The parts of an expression are expressions; what its arguments have for *)
(* parts, it has.                                                          *)
LEMMA PartsAre ==
  ASSUME Unfolding, NEW e \in Exps
  PROVE  /\ Parts(e) = {e} \cup UNION {Parts(x) : x \in ArgsIn(e)}
         /\ e \in Parts(e) /\ \A x \in ArgsIn(e) : x \in Exps /\ Parts(x) \subseteq Parts(e)
         /\ Parts(e) \subseteq Exps
<1>1. ASSUME NEW x \in Exps
      PROVE  ArgsIn(x) \subseteq Exps /\ Parts(x) = {x} \cup UNION {Parts(y) : y \in ArgsIn(x)}
  <2>1. x \in Lists /\ ArgsIn(x) \subseteq Exps
    BY ExpIs, ListIs
  <2>2. Parts(x) = PartsStep(x)
    BY <2>1 DEF Unfolding, Unfolds
  <2> QED BY <2>1, <2>2 DEF PartsStep
<1> DEFINE S == {x \in Exps : Parts(x) \subseteq Exps}
<1>2. ASSUME NEW x \in Exps, ArgsIn(x) \subseteq S
      PROVE  x \in S
  BY <1>1, <1>2
<1>3. Exps \subseteq S
  <2> HIDE DEF S
  <2> QED BY <1>2, ExpInduction
<1> QED BY <1>1, <1>3
-----------------------------------------------------------------------------
(* What a client's call leaves is an expression again: the inductive       *)
(* invariant.  TypeOK speaks of its parts.                                 *)
IsExp == exp \in Exps /\ ops \in 0 .. MaxOps

LEMMA TermsAre ==
  ASSUME NEW t \in Terms
  PROVE  t \in TermsOver(Factors)
<1>1. t \in [coef : Int, fac : FactorsOver(Nested[MaxDepth])] /\ Nested[MaxDepth] \subseteq Exps
  BY ClientAssumption DEF Exps
<1> QED BY <1>1, FactorsGrow DEF Factors, TermsOver

LEMMA IsExpInit == Init => IsExp
<1>1. <<>> \in Exps
  BY ExpsAre
<1> QED BY <1>1, ClientAssumption DEF Init, IsExp

LEMMA IsExpStep ==
  ASSUME Unfolding, IsExp, [Next]_vars
  PROVE  IsExp'
<1> USE DEF IsExp
<1>1. ASSUME NEW e \in Exps, Becomes(e)
      PROVE  IsExp'
  BY <1>1, ClientAssumption DEF Becomes
<1>2. ASSUME NEW t \in Terms, DoAddTerm(t)
      PROVE  IsExp'
  <2>1. AddTerm(exp, t) \in Exps
    BY TermsAre, AddTermNonZero, ExpsAre
  <2> QED BY <1>1, <1>2, <2>1 DEF DoAddTerm
<1>3. ASSUME NEW s \in Subs, DoSubstitute(s)
      PROVE  IsExp'
  BY <1>1, <1>3, SubstituteExp DEF DoSubstitute
<1>4. ASSUME NEW locs \in Remaps, DoRemap(locs)
      PROVE  IsExp'
  BY <1>1, <1>4, RemapExp DEF DoRemap
<1>5. CASE DoCollapse
  BY <1>1, <1>5, CollapseExp DEF DoCollapse
<1>6. CASE DoNegate
  <2>1. MultiplyBy(exp, -1) \in Exps
    BY MultiplyByNonZero, ExpsAre
  <2> QED BY <1>1, <1>6, <2>1 DEF DoNegate
<1>7. CASE DoNormalize
  <2>1. NormalizeForEquality(exp) \in Exps
    BY NormalizeNonZero, ExpsAre
  <2> QED BY <1>1, <1>7, <2>1 DEF DoNormalize
<1>8. CASE UNCHANGED vars
  BY <1>8 DEF vars
<1> QED BY <1>2, <1>3, <1>4, <1>5, <1>6, <1>7, <1>8 DEF Next

LEMMA IsExpTypeOK ==
  ASSUME Unfolding, IsExp
  PROVE  TypeOK
<1>1. ASSUME NEW x \in Exps
      PROVE  \A i \in DOMAIN x : x[i].coef # 0 /\ WellFormed(x[i].fac)
  BY ExpIs, ListIs, FactorIs
<1> QED BY <1>1, PartsAre DEF IsExp, TypeOK, WellTyped

LEMMA IsExpAlways ==
  ASSUME Unfolding
  PROVE  Spec => []IsExp
<1>1. IsExp /\ [Next]_vars => IsExp'
  BY IsExpStep
<1> QED BY <1>1, IsExpInit, PTL DEF Spec

(* At every depth the coefficients are not zero and the factors are well   *)
(* formed, whatever is added, substituted, renamed and collapsed, for      *)
(* expressions, substitutes and nesting of any size.                       *)
THEOREM ExpTypeCorrect ==
  ASSUME Unfolding
  PROVE  Spec => []TypeOK
<1>1. IsExp => TypeOK
  BY IsExpTypeOK
<1> QED BY <1>1, IsExpAlways, PTL
-----------------------------------------------------------------------------
(* The canonical expressions are the canonical lists over factors with     *)
(* canonical arguments.                                                    *)
CanonicalExps == {e \in Exps : Canonical(e)}
CanonicalTerms == TermsOver(FactorsOver(CanonicalExps))

LEMMA CanonicalAtEveryDepth ==
  ASSUME Unfolding, NEW e \in Exps
  PROVE  Canonical(e) <=> CanonicalList(e) /\ ArgsIn(e) \subseteq CanonicalExps
<1>1. /\ Parts(e) = {e} \cup UNION {Parts(x) : x \in ArgsIn(e)}
      /\ \A x \in ArgsIn(e) : x \in Exps
  BY PartsAre
<1> QED BY <1>1 DEF Canonical, CanonicalExps

LEMMA CanonicalExpIs ==
  ASSUME Unfolding, NEW e
  PROVE  e \in CanonicalExps <=> e \in Seq(CanonicalTerms) /\ CanonicalList(e)
<1> DEFINE K == CanonicalExps
<1>1. K \subseteq Exps
  BY DEF CanonicalExps
<1>2. ASSUME e \in K
      PROVE  e \in Seq(CanonicalTerms) /\ CanonicalList(e)
  <2>1. e \in Exps /\ CanonicalList(e) /\ ArgsIn(e) \subseteq K
    BY <1>2, CanonicalAtEveryDepth DEF CanonicalExps
  <2>2. ASSUME NEW i \in 1 .. Len(e)
        PROVE  e[i] \in CanonicalTerms
    <3> DEFINE F == e[i].fac
    <3>1. /\ F \in Factors /\ e[i] \in TermsOver(Factors)
          /\ \A a \in 1 .. Len(F.args) : F.args[a] \in K
      BY <2>1, ArgsAre
    <3>2. F \in [type : 0 .. 3, id : Int, idx : Int, args : Seq(Exps)] /\ WellFormed(F) /\ F.args \in Seq(Exps)
      BY <3>1, FactorIs
    <3>3. F.args \in Seq(K)
      <4> HIDE DEF K, F
      <4> QED BY <3>1, <3>2
    <3>4. F \in FactorsOver(K)
      <4> HIDE DEF K, F
      <4> QED BY <3>2, <3>3 DEF FactorsOver, TupleVar, ConstVal
    <3> QED BY <3>1, <3>4 DEF CanonicalTerms, TermsOver
  <2>3. e \in Seq(CanonicalTerms)
    BY <2>1, <2>2, ExpIs, ListIs
  <2> QED BY <2>1, <2>3
<1>3. ASSUME e \in Seq(CanonicalTerms), CanonicalList(e)
      PROVE  e \in K
  <2>1. CanonicalTerms \subseteq TermsOver(Factors)
    BY <1>1, FactorsGrow DEF CanonicalTerms, Factors, TermsOver
  <2>2. /\ Len(e) \in Nat /\ DOMAIN e = 1 .. Len(e)
        /\ \A i \in 1 .. Len(e) : e[i] \in CanonicalTerms /\ e[i].coef # 0
    BY <1>3 DEF CanonicalList
  <2>3. e \in Exps
    <3>1. e \in Lists
      BY <1>3, <2>1, <2>2 DEF Lists
    <3> QED BY <2>2, <3>1, NonZeroIsExp
  <2>4. ASSUME NEW i \in 1 .. Len(e)
        PROVE  Range(e[i].fac.args) \subseteq K
    <3>1. e[i].fac.args \in Seq(K)
      BY <2>2 DEF CanonicalTerms, TermsOver, FactorsOver
    <3> QED BY <3>1 DEF Range
  <2>5. ArgsIn(e) \subseteq K
    BY <2>2, <2>4 DEF ArgsIn
  <2> QED BY <1>3, <2>3, <2>5, CanonicalAtEveryDepth DEF CanonicalExps
<1> QED BY <1>2, <1>3

LEMMA CanonicalOrdered ==
  ASSUME Unfolding
  PROVE  /\ Exact(FactorsOver(CanonicalExps)) /\ OrdersFactors(CanonicalTerms)
         /\ CanonicalTerms \subseteq TermsOver(Factors)
<1>1. FactorsOver(CanonicalExps) \subseteq Factors
  <2>1. CanonicalExps \subseteq Exps
    BY DEF CanonicalExps
  <2> QED BY <2>1, FactorsGrow DEF Factors
<1>2. CanonicalTerms \subseteq TermsOver(Factors)
  BY <1>1 DEF CanonicalTerms, TermsOver
<1>3. Exact(FactorsOver(CanonicalExps))
  BY <1>1, TermLessOrders DEF Exact
<1>4. OrdersFactors(CanonicalTerms)
  BY <1>2, TermLessOrders DEF OrdersFactors
<1> QED BY <1>2, <1>3, <1>4

LEMMA RebuiltIsCanonical ==
  ASSUME Unfolding, NEW e \in Exps, NEW lists \in [1 .. Len(e) -> Seq(CanonicalTerms)]
  PROVE  Rebuild(lists) \in CanonicalExps
<1>1. Len(e) \in Nat
  BY ExpIs, ListIs
<1>2. lists \in Seq(Seq(CanonicalTerms))
  BY <1>1
<1>3. Rebuild(lists) \in Seq(CanonicalTerms) /\ CanonicalList(Rebuild(lists))
  BY <1>2, CanonicalOrdered, RebuildCanonical DEF CanonicalTerms
<1> QED BY <1>3, CanonicalExpIs

(* substitute and collapse build canonical expressions, from any.          *)
LEMMA SubstituteCanonical ==
  ASSUME Unfolding, NEW sub \in Subs, NEW e \in Exps
  PROVE  Substitute(e, sub) \in CanonicalExps
<1> DEFINE S == {x \in Exps : Substitute(x, sub) \in CanonicalExps}
<1>1. ASSUME NEW x \in Exps, ArgsIn(x) \subseteq S
      PROVE  x \in S
  <2>1. \A y \in ArgsIn(x) : Substitute(y, sub) \in CanonicalExps
    BY <1>1
  <2>2. \A F \in DOMAIN sub : sub[F] \in Seq(CanonicalTerms)
    BY SubsAre, CanonicalExpIs DEF CanonicalExps
  <2>3. SubLists(x, sub) \in [1 .. Len(x) -> Seq(CanonicalTerms)]
    BY <2>1, <2>2, SubListsOver DEF CanonicalTerms
  <2> QED BY <2>3, RebuiltIsCanonical, SubstituteIs
<1>2. Exps \subseteq S
  <2> HIDE DEF S
  <2> QED BY <1>1, ExpInduction
<1> QED BY <1>2

LEMMA CollapseCanonical ==
  ASSUME Unfolding, NEW e \in Exps
  PROVE  Collapse(e) \in CanonicalExps
<1> DEFINE S == {x \in Exps : Collapse(x) \in CanonicalExps}
<1>1. ASSUME NEW x \in Exps, ArgsIn(x) \subseteq S, \A y \in ArgsIn(x) : ArgsIn(y) \subseteq S
      PROVE  x \in S
  <2>1. \A y \in ArgsIn(x) : Collapse(y) \in CanonicalExps
    BY <1>1
  <2>2. \A y \in ArgsIn(x) : \A z \in ArgsIn(y) : Collapse(z) \in Seq(CanonicalTerms)
    BY <1>1, CanonicalExpIs
  <2>3. ColLists(x) \in [1 .. Len(x) -> Seq(CanonicalTerms)]
    BY <2>1, <2>2, ColListsOver DEF CanonicalTerms
  <2> QED BY <2>3, RebuiltIsCanonical, CollapseIs
<1>2. Exps \subseteq S
  <2> HIDE DEF S
  <2> QED BY <1>1, ExpInduction2
<1> QED BY <1>2

(* The other calls but remapTupleVars keep an expression canonical.        *)
LEMMA AddTermKeepsCanonical ==
  ASSUME Unfolding, NEW e \in CanonicalExps, NEW t \in Terms
  PROVE  AddTerm(e, t) \in CanonicalExps
<1> DEFINE F == t.fac
<1>1. F \in Factors /\ t.coef \in Int /\ t \in TermsOver(Factors)
  BY TermsAre DEF TermsOver
<1>2. /\ F \in [type : 0 .. 3, id : Int, idx : Int, args : Seq(Exps)] /\ WellFormed(F)
      /\ F.args \in Seq(Exps)
  BY <1>1, FactorIs
<1>3. \A x \in Range(F.args) : x \in CanonicalExps
  <2>1. \A x \in Range(F.args) : Canonical(x)
    BY ClientAssumption
  <2>2. \A x \in Range(F.args) : x \in Exps
    BY <1>2 DEF Range
  <2> QED BY <2>1, <2>2 DEF CanonicalExps
<1>4. F.args \in Seq(CanonicalExps)
  <2>1. \A a \in 1 .. Len(F.args) : F.args[a] \in CanonicalExps
    BY <1>2, <1>3 DEF Range
  <2> HIDE DEF F
  <2> QED BY <1>2, <2>1
<1>5. F \in FactorsOver(CanonicalExps)
  <2> HIDE DEF F
  <2> QED BY <1>2, <1>4 DEF FactorsOver, TupleVar, ConstVal
<1>6. t \in CanonicalTerms
  BY <1>1, <1>5 DEF CanonicalTerms, TermsOver
<1>7. e \in Seq(CanonicalTerms) /\ CanonicalList(e)
  BY CanonicalExpIs
<1>8. AddTerm(e, t) \in Seq(CanonicalTerms) /\ CanonicalList(AddTerm(e, t))
  BY <1>6, <1>7, CanonicalOrdered, AddTermCanonical, AddTermCases DEF CanonicalTerms
<1> QED BY <1>8, CanonicalExpIs

LEMMA RecoefficientsKeepCanonical ==
  ASSUME Unfolding, NEW e \in CanonicalExps
  PROVE  MultiplyBy(e, -1) \in CanonicalExps /\ NormalizeForEquality(e) \in CanonicalExps
<1> DEFINE Fs == FactorsOver(CanonicalExps)
           u == MultiplyBy(e, -1)
           v == NormalizeForEquality(e)
           cf == [i \in 1 .. Len(e) |-> (-1) * e[i].coef]
<1>1. e \in Seq(TermsOver(Fs)) /\ CanonicalList(e)
  BY CanonicalExpIs DEF CanonicalTerms
<1>2. Exact(Fs) /\ OrdersFactors(TermsOver(Fs))
  BY CanonicalOrdered DEF CanonicalTerms
<1>3. e \in Seq(NonZero(Fs))
  <2>1. \A i \in 1 .. Len(e) : e[i].coef # 0
    BY <1>1 DEF CanonicalList
  <2> HIDE DEF Fs
  <2> QED BY <1>1, <2>1, NonZeroIs
<1> HIDE DEF Fs
<1>4. u \in Seq(TermsOver(Fs)) /\ CanonicalList(u)
  <2>1. u \in Seq(TermsOver(Fs)) /\ Recoefficients(u, e, cf)
    BY <1>1, MultiplyByIs
  <2>2. \A i \in 1 .. Len(e) : cf[i] # 0
    <3>1. \A i \in 1 .. Len(e) : e[i].coef \in Int \ {0}
      <4>1. \A i \in 1 .. Len(e) : e[i] \in NonZero(Fs)
        BY <1>3
      <4> QED BY <4>1 DEF NonZero
    <3> QED BY <3>1
  <2> HIDE DEF u, cf
  <2> QED BY <1>1, <1>2, <2>1, <2>2, RecoefficientsCanonical
<1>5. v \in Seq(TermsOver(Fs)) /\ CanonicalList(v)
  BY <1>1, <1>2, <1>3, NormalizeNonZero, NonZeroIs, NormalizeCanonical
<1> QED BY <1>4, <1>5, CanonicalExpIs DEF Fs, CanonicalTerms

(* Whatever the calls before, substitute and collapse leave the expression *)
(* canonical at every depth, and no call but remapTupleVars takes it out   *)
(* of that form (which addTerm's scan and Exp::operator== rely on).        *)
THEOREM ExpKeepsCanonical ==
  ASSUME Unfolding
  PROVE  Spec => KeepsCanonical
<1> DEFINE Step == \/ op'.name \in {"substitute", "collapse"}
                   \/ Canonical(exp) /\ op'.name # "remap"
                   => Canonical(exp')
<1>1. ASSUME IsExp, Next
      PROVE  Step
  <2>1. exp \in Exps /\ (Canonical(exp) => exp \in CanonicalExps)
    BY <1>1 DEF IsExp, CanonicalExps
  <2>2. \A e \in CanonicalExps : Canonical(e)
    BY DEF CanonicalExps
  <2>3. ASSUME NEW t \in Terms, DoAddTerm(t)
        PROVE  Step
    <3>1. op'.name = "addTerm" /\ exp' = AddTerm(exp, t)
      BY <2>3 DEF DoAddTerm, Did, Becomes
    <3> QED BY <2>1, <2>2, <3>1, AddTermKeepsCanonical
  <2>4. ASSUME NEW s \in Subs, DoSubstitute(s)
        PROVE  Step
    BY <2>1, <2>2, <2>4, SubstituteCanonical DEF DoSubstitute, Becomes
  <2>5. ASSUME NEW locs \in Remaps, DoRemap(locs)
        PROVE  Step
    BY <2>5 DEF DoRemap, Did
  <2>6. CASE DoCollapse
    BY <2>1, <2>2, <2>6, CollapseCanonical DEF DoCollapse, Becomes
  <2>7. CASE DoNegate
    <3>1. op'.name = "multiplyBy" /\ exp' = MultiplyBy(exp, -1)
      BY <2>7 DEF DoNegate, Did, Becomes
    <3> QED BY <2>1, <2>2, <3>1, RecoefficientsKeepCanonical
  <2>8. CASE DoNormalize
    <3>1. op'.name = "normalize" /\ exp' = NormalizeForEquality(exp)
      BY <2>8 DEF DoNormalize, Did, Becomes
    <3> QED BY <2>1, <2>2, <3>1, RecoefficientsKeepCanonical
  <2> QED BY <1>1, <2>3, <2>4, <2>5, <2>6, <2>7, <2>8 DEF Next
<1>2. IsExp /\ [Next]_vars => [Step]_vars
  BY <1>1
<1> QED BY <1>2, IsExpAlways, PTL DEF Spec, KeepsCanonical
-----------------------------------------------------------------------------
(* The value of an expression is its terms' under the valuation of factors *)
(* that a tuple gives.  Symbols and calls are taken to be integers.        *)
Tuples == [1 .. Arity -> Int]
ValuationAt(k, p) == [F \in Factors |-> FactorValue(F, k, p)]
Meanings == IntegerMeaning(Factors, Seq(Int))

LEMMA ArgValueInt ==
  ASSUME Meanings, NEW k \in Interps, NEW p \in Tuples, NEW F \in Factors,
         \A a \in 1 .. Len(F.args) : Value(F.args[a], k, p) \in Int
  PROVE  FactorValue(F, k, p) \in Int
<1>1. /\ F.type \in 0 .. 3 /\ WellFormed(F)
      /\ Len(F.args) \in Nat /\ DOMAIN F.args = 1 .. Len(F.args)
  BY FactorIs
<1>2. CASE F.type = TupleVar
  <2>1. F.id \in 0 .. Arity - 1 /\ Arity \in Nat
    BY <1>1, <1>2, ClientAssumption DEF WellFormed
  <2>2. F.id + 1 \in 1 .. Arity
    BY <2>1
  <2> QED BY <1>2, <2>2 DEF FactorValue, Tuples
<1>3. CASE F.type = ConstVal
  BY <1>3 DEF FactorValue, ConstVal, TupleVar
<1>4. CASE F.type \in {SymConst, UFCall}
  <2> DEFINE vs == [a \in DOMAIN F.args |-> Value(F.args[a], k, p)]
  <2>1. vs \in Seq(Int) /\ Len(vs) = Len(F.args)
    BY <1>1
  <2>2. FactorValue(F, k, p) = Meaning(k, Bare(F), vs)
    BY <1>4 DEF FactorValue, ConstVal, TupleVar, SymConst, UFCall
  <2> HIDE DEF vs
  <2> QED BY <1>4, <2>1, <2>2 DEF Meanings, IntegerMeaning
<1> QED BY <1>1, <1>2, <1>3, <1>4 DEF TupleVar, ConstVal, SymConst, UFCall

LEMMA ListValue ==
  ASSUME Unfolding, NEW k \in Interps, NEW p \in Tuples, NEW e \in Lists
  PROVE  Value(e, k, p) = ValueOf(e, ValuationAt(k, p))
<1> DEFINE w == [i \in DOMAIN e |-> e[i].coef * FactorValue(e[i].fac, k, p)]
<1>1. Value(e, k, p) = Total(w, Len(e))
  <2>1. Value(e, k, p) = ValueStep(e, k, p)
    BY DEF Unfolding, Unfolds, Tuples
  <2> QED BY <2>1 DEF ValueStep
<1>2. Weights(e, ValuationAt(k, p)) = w
  <2>1. \A i \in DOMAIN e : e[i].fac \in Factors
    BY ListIs
  <2>2. \A i \in DOMAIN e : ValuationAt(k, p)[e[i].fac] = FactorValue(e[i].fac, k, p)
    BY <2>1 DEF ValuationAt
  <2> QED BY <2>2 DEF Weights
<1> QED BY <1>1, <1>2 DEF ValueOf

LEMMA ExpValueInt ==
  ASSUME Unfolding, Meanings, NEW k \in Interps, NEW p \in Tuples, NEW e \in Exps
  PROVE  Value(e, k, p) \in Int
<1> DEFINE S == {x \in Exps : Value(x, k, p) \in Int}
<1>1. ASSUME NEW x \in Exps, ArgsIn(x) \subseteq S
      PROVE  x \in S
  <2> DEFINE val == ValuationAt(k, p)
             w == Weights(x, val)
  <2>1. x \in Lists /\ Len(x) \in Nat /\ DOMAIN x = 1 .. Len(x)
    BY ExpIs, ListIs
  <2>2. ASSUME NEW i \in 1 .. Len(x)
        PROVE  w[i] \in Int
    <3>1. /\ x[i].fac \in Factors /\ x[i].coef \in Int
          /\ \A a \in 1 .. Len(x[i].fac.args) : x[i].fac.args[a] \in ArgsIn(x)
      BY ArgsAre
    <3>2. FactorValue(x[i].fac, k, p) \in Int
      BY <1>1, <3>1, ArgValueInt
    <3>3. w[i] = x[i].coef * FactorValue(x[i].fac, k, p)
      BY <2>1, <3>1 DEF Weights, ValuationAt
    <3> QED BY <3>1, <3>2, <3>3
  <2> HIDE DEF w
  <2>3. PICK s : PartialSums(s, w, Len(x)) /\ Total(w, Len(x)) = s[Len(x)]
    BY <2>1, <2>2, TotalSums
  <2>4. Total(w, Len(x)) \in Int
    BY <2>1, <2>3 DEF PartialSums
  <2>5. Value(x, k, p) \in Int
    BY <2>1, <2>4, ListValue DEF ValueOf, w
  <2> QED BY <2>5
<1>2. Exps \subseteq S
  <2> HIDE DEF S
  <2> QED BY <1>1, ExpInduction
<1> QED BY <1>2

LEMMA TupleValuation ==
  ASSUME Unfolding, Meanings, NEW k \in Interps, NEW p \in Tuples
  PROVE  Valuation(ValuationAt(k, p), Factors)
<1>1. ASSUME NEW F \in Factors
      PROVE  FactorValue(F, k, p) \in Int
  BY ArgValueInt, ExpValueInt, FactorIs
<1>2. ValuationAt(k, p) \in [Factors -> Int]
  BY <1>1 DEF ValuationAt
<1> QED BY <1>2, FactorsExact DEF Valuation, Exact

LEMMA SingleValue ==
  ASSUME NEW val, Valuation(val, Factors), NEW t \in TermsOver(Factors)
  PROVE  <<t>> \in Lists /\ ValueOf(<<t>>, val) = t.coef * val[t.fac]
<1> DEFINE e == <<t>>
           w == Weights(e, val)
<1>1. e \in Seq(TermsOver(Factors)) /\ Len(e) = 1 /\ e[1] = t /\ 1 \in Nat
  OBVIOUS
<1> HIDE DEF e
<1>2. \A j \in 1 .. 1 : w[j] \in Int
  BY <1>1, WeightsAre
<1>3. w[1] = t.coef * val[t.fac]
  BY <1>1, WeightsAre
<1> HIDE DEF w
<1>4. PICK s : PartialSums(s, w, 1) /\ Total(w, 1) = s[1]
  BY <1>1, <1>2, TotalSums
<1>5. s[0] = 0 /\ s[1] = s[1 - 1] + w[1] /\ s[1] \in Int
  BY <1>4 DEF PartialSums
<1>6. s[1] = w[1]
  BY <1>2, <1>5
<1> QED BY <1>1, <1>3, <1>4, <1>6 DEF e, w, ValueOf, Lists

(* At every step addTerm adds the term's value, into an unsorted list too, *)
(* and multiplyBy(-1) and normalizeForEquality keep the zeros.             *)
THEOREM ExpAddsValue ==
  ASSUME Unfolding, Meanings
  PROVE  Spec => AddsValue
<1> DEFINE Step == \A k \in Interps, p \in Points :
             /\ op'.name = "addTerm" =>
                  Value(exp', k, p) = Value(exp, k, p) + Value(<<op'.arg>>, k, p)
             /\ op'.name \in {"multiplyBy", "normalize"} =>
                  (Value(exp', k, p) = 0) = (Value(exp, k, p) = 0)
<1>1. ASSUME IsExp, Next, NEW k \in Interps, NEW p \in Points
      PROVE  /\ op'.name = "addTerm" =>
                  Value(exp', k, p) = Value(exp, k, p) + Value(<<op'.arg>>, k, p)
             /\ op'.name \in {"multiplyBy", "normalize"} =>
                  (Value(exp', k, p) = 0) = (Value(exp, k, p) = 0)
  <2> DEFINE val == ValuationAt(k, p)
  <2>1. p \in Tuples
    BY ClientAssumption DEF Points, Tuples
  <2>2. Valuation(val, Factors)
    BY <2>1, TupleValuation
  <2>3. exp \in Seq(TermsOver(Factors)) /\ exp \in Lists
    BY <1>1, ExpIs DEF IsExp, Lists
  <2>4. \A e \in Seq(TermsOver(Factors)) : Value(e, k, p) = ValueOf(e, val)
    BY <2>1, ListValue DEF Lists
  <2> HIDE DEF val
  <2>5. ASSUME NEW t \in Terms, DoAddTerm(t)
        PROVE  /\ op'.name = "addTerm"
               /\ Value(exp', k, p) = Value(exp, k, p) + Value(<<op'.arg>>, k, p)
    <3>1. exp' = AddTerm(exp, t) /\ op'.arg = t /\ op'.name = "addTerm"
      BY <2>5 DEF DoAddTerm, Becomes, Did
    <3>2. t \in TermsOver(Factors)
      BY TermsAre
    <3>3. AddTerm(exp, t) \in Seq(TermsOver(Factors))
      BY <2>3, <3>2, AddTermCases
    <3>4. ValueOf(AddTerm(exp, t), val) = ValueOf(exp, val) + t.coef * val[t.fac]
      BY <2>2, <2>3, <3>2, AddTermAdds
    <3>5. <<t>> \in Seq(TermsOver(Factors)) /\ ValueOf(<<t>>, val) = t.coef * val[t.fac]
      BY <2>2, <3>2, SingleValue DEF Lists
    <3> QED BY <2>3, <2>4, <3>1, <3>3, <3>4, <3>5
  <2>6. CASE DoNegate
    <3> DEFINE u == MultiplyBy(exp, -1)
               cf == [i \in 1 .. Len(exp) |-> (-1) * exp[i].coef]
    <3>1. exp' = u /\ op'.name = "multiplyBy"
      BY <2>6 DEF DoNegate, Becomes, Did
    <3>2. u \in Seq(TermsOver(Factors)) /\ Recoefficients(u, exp, cf)
      BY <2>3, MultiplyByIs
    <3>3. \A i \in 1 .. Len(exp) : cf[i] = (-1) * exp[i].coef
      OBVIOUS
    <3> HIDE DEF u, cf
    <3>4. ValueOf(u, val) = (-1) * ValueOf(exp, val) /\ ValueOf(exp, val) \in Int
      <4>1. -1 \in Int
        OBVIOUS
      <4>2. ValueOf(exp, val) \in Int
        BY <2>2, <2>3, WeightsAre
      <4>3. ValueOf(u, val) = (-1) * ValueOf(exp, val)
        BY <2>2, <2>3, <3>2, <3>3, <4>1, ScaledValue
      <4> QED BY <4>2, <4>3
    <3>5. ValueOf(u, val) = 0 <=> ValueOf(exp, val) = 0
      BY <3>4
    <3> QED BY <2>3, <2>4, <3>1, <3>2, <3>5
  <2>7. CASE DoNormalize
    <3>1. exp' = NormalizeForEquality(exp) /\ op'.name = "normalize"
      BY <2>7 DEF DoNormalize, Becomes, Did
    <3>2. /\ NormalizeForEquality(exp) \in Seq(TermsOver(Factors))
          /\ ValueOf(NormalizeForEquality(exp), val) = 0 <=> ValueOf(exp, val) = 0
      BY <2>2, <2>3, NormalizeKeepsZeros
    <3> QED BY <2>3, <2>4, <3>1, <3>2
  <2>8. ASSUME DoCollapse \/ (\E s \in Subs : DoSubstitute(s)) \/ \E locs \in Remaps : DoRemap(locs)
        PROVE  op'.name \notin {"addTerm", "multiplyBy", "normalize"}
    BY <2>8 DEF DoCollapse, DoSubstitute, DoRemap, Did
  <2>9. op'.name = "addTerm" \/ op'.name # "addTerm"
    OBVIOUS
  <2>10. ASSUME NEW t \in Terms, DoAddTerm(t)
         PROVE  op'.name \notin {"multiplyBy", "normalize"}
    BY <2>5, <2>10
  <2>11. DoNegate \/ DoNormalize => op'.name # "addTerm"
    BY DEF DoNegate, DoNormalize, Did
  <2> QED BY <1>1, <2>5, <2>6, <2>7, <2>8, <2>10, <2>11 DEF Next
<1>2. IsExp /\ [Next]_vars => [Step]_vars
  BY <1>1
<1> QED BY <1>2, IsExpAlways, PTL DEF Spec, AddsValue
-----------------------------------------------------------------------------
(* A factor with other arguments, and the tuple read through a change: the *)
(* value is the old one at q, when it is for arguments and variables.      *)
LEMMA ReplacedValue ==
  ASSUME NEW k \in Interps, NEW p \in Tuples, NEW q \in Tuples,
         NEW F \in Factors, NEW G \in Factors, G.type = F.type, Len(G.args) = Len(F.args),
         F.type = TupleVar => p[G.id + 1] = q[F.id + 1],
         F.type # TupleVar => Bare(G) = Bare(F),
         \A a \in 1 .. Len(F.args) : Value(G.args[a], k, p) = Value(F.args[a], k, q)
  PROVE  ValuationAt(k, p)[G] = ValuationAt(k, q)[F]
<1>1. /\ ValuationAt(k, p)[G] = FactorValue(G, k, p)
      /\ ValuationAt(k, q)[F] = FactorValue(F, k, q)
  BY DEF ValuationAt
<1>2. /\ DOMAIN F.args = 1 .. Len(F.args) /\ DOMAIN G.args = 1 .. Len(G.args)
  BY FactorIs
<1>3. CASE F.type = TupleVar
  BY <1>1, <1>3 DEF FactorValue
<1>4. CASE F.type = ConstVal
  BY <1>1, <1>4 DEF FactorValue, ConstVal, TupleVar
<1>5. CASE F.type # TupleVar /\ F.type # ConstVal
  <2>1. [a \in DOMAIN G.args |-> Value(G.args[a], k, p)] = [a \in DOMAIN F.args |-> Value(F.args[a], k, q)]
    BY <1>2
  <2>2. Bare(G) = Bare(F)
    BY <1>5
  <2> QED BY <1>1, <1>5, <2>1, <2>2 DEF FactorValue
<1> QED BY <1>3, <1>4, <1>5

(* A tuple variable is Tv of its location.                                 *)
LEMMA TupleVarIs ==
  ASSUME NEW F \in Factors, F.type = TupleVar
  PROVE  F = Tv(F.id) /\ F.id \in 0 .. Arity - 1 /\ F.id + 1 \in 1 .. Arity /\ (F.id + 1) - 1 = F.id
<1>1. /\ F \in [type : 0 .. 3, id : Int, idx : Int, args : Seq(Exps)] /\ WellFormed(F)
      /\ F.args \in Seq(Exps)
  BY FactorIs
<1>2. F.id \in 0 .. Arity - 1 /\ Arity \in Nat /\ Len(F.args) = 0 /\ F.idx = -1
  BY <1>1, ClientAssumption DEF WellFormed, TupleVar, UFCall
<1>3. F.args = <<>>
  BY <1>1, <1>2
<1> QED BY <1>1, <1>2, <1>3 DEF Tv, Factor, TupleVar

(* The tuple of the substitutes' values at p.                              *)
SubstitutedAt(sub, k, p) ==
  [l \in 1 .. Arity |->
     IF Tv(l - 1) \in DOMAIN sub THEN Value(sub[Tv(l - 1)], k, p) ELSE p[l]]

LEMMA SubstitutedTermValue ==
  ASSUME Unfolding, Meanings, NEW k \in Interps, NEW p \in Tuples, NEW sub \in Subs,
         NEW e \in Exps, NEW i \in 1 .. Len(e),
         \A x \in ArgsIn(e) : Value(Substitute(x, sub), k, p) = Value(x, k, SubstitutedAt(sub, k, p))
  PROVE  ValueOf(SubstitutedTerm(e[i], sub), ValuationAt(k, p))
         = e[i].coef * ValuationAt(k, SubstitutedAt(sub, k, p))[e[i].fac]
<1> DEFINE t == e[i]
           F == t.fac
           q == SubstitutedAt(sub, k, p)
           val == ValuationAt(k, p)
           val2 == ValuationAt(k, q)
<1>1. /\ F \in Factors /\ t.coef \in Int /\ t \in TermsOver(Factors)
      /\ \A a \in 1 .. Len(F.args) : F.args[a] \in ArgsIn(e)
  BY ArgsAre
<1>2. \A G \in DOMAIN sub : G \in Factors /\ sub[G] \in Exps /\ sub[G] \in Seq(TermsOver(Factors))
  BY SubsAre, ExpIs DEF Lists
<1>3. q \in Tuples
  <2>1. ASSUME NEW l \in 1 .. Arity, Tv(l - 1) \in DOMAIN sub
        PROVE  Value(sub[Tv(l - 1)], k, p) \in Int
    BY <1>2, <2>1, ExpValueInt
  <2> QED BY <2>1 DEF SubstitutedAt, Tuples
<1>4. Valuation(val, Factors) /\ Valuation(val2, Factors)
  BY <1>3, TupleValuation
<1>5. CASE F \in DOMAIN sub
  <2> DEFINE s == sub[F]
             cf == [j \in 1 .. Len(s) |-> t.coef * s[j].coef]
  <2>1. F.type = TupleVar
    BY <1>5, SubsAre DEF Tv, Factor
  <2>2. val2[F] = q[F.id + 1]
    <3> HIDE DEF F, q
    <3>1. val2[F] = FactorValue(F, k, q)
      BY <1>1 DEF ValuationAt
    <3> QED BY <2>1, <3>1 DEF FactorValue, TupleVar, ConstVal
  <2>3. q[F.id + 1] = Value(s, k, p)
    <3>1. F = Tv(F.id) /\ F.id + 1 \in 1 .. Arity /\ (F.id + 1) - 1 = F.id
      BY <1>1, <2>1, TupleVarIs
    <3> HIDE DEF F
    <3> QED BY <1>5, <3>1 DEF SubstitutedAt
  <2>4. s \in Seq(TermsOver(Factors)) /\ Value(s, k, p) = ValueOf(s, val)
    BY <1>2, <1>5, ListValue DEF Lists
  <2>5. ValueOf(MultiplyBy(s, t.coef), val) = t.coef * ValueOf(s, val)
    <3> HIDE DEF s, val, t
    <3>1. MultiplyBy(s, t.coef) \in Seq(TermsOver(Factors)) /\ Recoefficients(MultiplyBy(s, t.coef), s, cf)
      BY <1>1, <2>4, MultiplyByIs
    <3>2. \A j \in 1 .. Len(s) : cf[j] = t.coef * s[j].coef
      OBVIOUS
    <3> HIDE DEF cf
    <3> QED BY <1>1, <1>4, <2>4, <3>1, <3>2, ScaledValue
  <2>6. SubstitutedTerm(t, sub) = MultiplyBy(s, t.coef)
    BY <1>5 DEF SubstitutedTerm
  <2> QED BY <2>2, <2>3, <2>4, <2>5, <2>6
<1>6. CASE F \notin DOMAIN sub
  <2> DEFINE args == SubstitutedArgs(F, sub)
             u == WithArgs(t, args)
  <2>1. Len(F.args) \in Nat /\ DOMAIN F.args = 1 .. Len(F.args)
    BY <1>1, FactorIs
  <2>2. \A a \in 1 .. Len(F.args) : Substitute(F.args[a], sub) \in Exps
    BY <1>1, SubstituteExp, FactorIs
  <2>3. /\ args \in Seq(Exps) /\ Len(args) = Len(F.args)
        /\ \A a \in 1 .. Len(F.args) : args[a] = Substitute(F.args[a], sub)
    BY <2>1, <2>2 DEF SubstitutedArgs
  <2> HIDE DEF args
  <2>4. /\ u \in TermsOver(Factors) /\ u.fac \in Factors /\ u.coef = t.coef
        /\ u.fac.args = args /\ u.fac.type = F.type /\ u.fac.id = F.id /\ Bare(u.fac) = Bare(F)
    BY <1>1, <2>3, WithArgsIs DEF Factors
  <2>5. F.type = TupleVar => p[F.id + 1] = q[F.id + 1]
    <3> SUFFICES ASSUME F.type = TupleVar
                 PROVE  p[F.id + 1] = q[F.id + 1]
      OBVIOUS
    <3>1. F = Tv(F.id) /\ F.id + 1 \in 1 .. Arity /\ (F.id + 1) - 1 = F.id
      BY <1>1, TupleVarIs
    <3> HIDE DEF F
    <3> QED BY <1>6, <3>1 DEF SubstitutedAt
  <2>6. \A a \in 1 .. Len(F.args) : Value(args[a], k, p) = Value(F.args[a], k, q)
    BY <1>1, <2>3
  <2>7. val[u.fac] = val2[F]
    <3> DEFINE G == u.fac
    <3>1. /\ G \in Factors /\ G.type = F.type /\ Len(G.args) = Len(F.args)
          /\ F.type = TupleVar => p[G.id + 1] = q[F.id + 1]
          /\ F.type # TupleVar => Bare(G) = Bare(F)
          /\ \A a \in 1 .. Len(F.args) : Value(G.args[a], k, p) = Value(F.args[a], k, q)
      BY <2>3, <2>4, <2>5, <2>6
    <3> HIDE DEF G, F, q
    <3>2. ValuationAt(k, p)[G] = ValuationAt(k, q)[F]
      BY <1>1, <1>3, <3>1, ReplacedValue
    <3> QED BY <3>2 DEF G
  <2>8. SubstitutedTerm(t, sub) = <<u>>
    BY <1>6 DEF SubstitutedTerm, args
  <2>9. ValueOf(<<u>>, val) = u.coef * val[u.fac]
    <3> HIDE DEF u, val
    <3> QED BY <1>4, <2>4, SingleValue
  <2> QED BY <2>4, <2>7, <2>8, <2>9
<1> QED BY <1>5, <1>6

LEMMA SubstituteValue ==
  ASSUME Unfolding, Meanings, NEW k \in Interps, NEW p \in Tuples, NEW sub \in Subs, NEW e \in Exps
  PROVE  Value(Substitute(e, sub), k, p) = Value(e, k, SubstitutedAt(sub, k, p))
<1> DEFINE q == SubstitutedAt(sub, k, p)
           S == {x \in Exps : Value(Substitute(x, sub), k, p) = Value(x, k, q)}
<1>1. q \in Tuples
  <2>1. ASSUME NEW l \in 1 .. Arity, Tv(l - 1) \in DOMAIN sub
        PROVE  Value(sub[Tv(l - 1)], k, p) \in Int
    BY <2>1, SubsAre, ExpValueInt
  <2> QED BY <2>1 DEF SubstitutedAt, Tuples
<1>2. ASSUME NEW x \in Exps, ArgsIn(x) \subseteq S
      PROVE  x \in S
  <2> DEFINE val == ValuationAt(k, p)
             val2 == ValuationAt(k, q)
             lists == SubLists(x, sub)
  <2>1. \A y \in ArgsIn(x) : Value(Substitute(y, sub), k, p) = Value(y, k, q) /\ y \in Exps
    BY <1>2
  <2>2. \A y \in ArgsIn(x) : Substitute(y, sub) \in Exps
    BY <2>1, SubstituteExp
  <2>3. Len(x) \in Nat /\ x \in Seq(TermsOver(Factors)) /\ x \in Lists
    BY ExpIs, ListIs
  <2>4. lists \in Seq(Seq(TermsOver(Factors))) /\ Len(lists) = Len(x)
    <3>1. \A F \in DOMAIN sub : sub[F] \in Lists
      BY SubsAre, ExpsOver
    <3>2. lists \in [1 .. Len(x) -> Seq(TermsOver(Factors))]
      BY <2>2, <3>1, SubListsOver, ExpsOver DEF Lists
    <3> HIDE DEF lists
    <3> QED BY <2>3, <3>2
  <2>5. ASSUME NEW i \in 1 .. Len(x)
        PROVE  ValueOf(lists[i], val) = x[i].coef * val2[x[i].fac]
    <3>1. lists[i] = SubstitutedTerm(x[i], sub)
      BY DEF SubLists
    <3> QED BY <2>1, <3>1, SubstitutedTermValue
  <2>6. Valuation(val, Factors) /\ Valuation(val2, Factors)
    BY <1>1, TupleValuation
  <2>7. ValueOf(Rebuild(lists), val) = ValueOf(x, val2)
    <3>1. \A i \in 1 .. Len(x) : ValueOf(lists[i], val) = x[i].coef * val2[x[i].fac]
      BY <2>5
    <3> HIDE DEF lists, val, val2
    <3>2. x \in Seq(TermsOver(Factors)) /\ lists \in Seq(Seq(TermsOver(Factors))) /\ Len(x) = Len(lists)
      BY <2>3, <2>4
    <3> QED BY <2>6, <3>1, <3>2, RebuildReplaces
  <2>8. Substitute(x, sub) = Rebuild(lists) /\ Substitute(x, sub) \in Lists
    BY SubstituteIs, SubstituteExp, ExpIs
  <2>9. Value(Substitute(x, sub), k, p) = ValueOf(Substitute(x, sub), val)
    BY <2>8, ListValue
  <2>10. Value(x, k, q) = ValueOf(x, val2)
    BY <1>1, <2>3, ListValue
  <2> QED BY <2>7, <2>8, <2>9, <2>10
<1>3. Exps \subseteq S
  <2> HIDE DEF S
  <2> QED BY <1>2, ExpInduction
<1> QED BY <1>3

(* The tuple read through a location vector.                               *)
RemappedAt(locs, p) == [l \in 1 .. Arity |-> p[locs[l] + 1]]

LEMMA RemapValue ==
  ASSUME Unfolding, Meanings, NEW k \in Interps, NEW p \in Tuples, NEW locs \in Remaps, NEW e \in Exps
  PROVE  Value(RemapTupleVars(e, locs), k, p) = Value(e, k, RemappedAt(locs, p))
<1> DEFINE q == RemappedAt(locs, p)
           S == {x \in Exps : Value(RemapTupleVars(x, locs), k, p) = Value(x, k, q)}
<1>1. q \in Tuples
  <2>1. locs \in [1 .. Arity -> 0 .. Arity - 1] /\ Arity \in Nat
    BY ClientAssumption
  <2>2. \A l \in 1 .. Arity : locs[l] + 1 \in 1 .. Arity
    BY <2>1
  <2> QED BY <2>2 DEF RemappedAt, Tuples
<1>2. ASSUME NEW x \in Exps, ArgsIn(x) \subseteq S
      PROVE  x \in S
  <2> DEFINE val == ValuationAt(k, p)
             val2 == ValuationAt(k, q)
             r == RemapTupleVars(x, locs)
  <2>1. \A y \in ArgsIn(x) : Value(RemapTupleVars(y, locs), k, p) = Value(y, k, q) /\ y \in Exps
    BY <1>2
  <2>2. /\ r = [i \in 1 .. Len(x) |-> RemappedTerm(x[i], locs)] /\ Len(x) \in Nat
        /\ x \in Lists /\ DOMAIN x = 1 .. Len(x) /\ r \in Lists
    BY RemapIs, RemapExp, ExpIs, ListIs
  <2>3. ASSUME NEW i \in 1 .. Len(x)
        PROVE  r[i].coef * val[r[i].fac] = x[i].coef * val2[x[i].fac]
    <3> DEFINE t == x[i]
               F == t.fac
               u == RemappedTerm(t, locs)
    <3>1. /\ F \in Factors /\ t \in TermsOver(Factors)
          /\ \A a \in 1 .. Len(F.args) : F.args[a] \in ArgsIn(x)
      BY ArgsAre
    <3>2. Len(F.args) \in Nat /\ DOMAIN F.args = 1 .. Len(F.args)
      BY <3>1, FactorIs
    <3>3. \A a \in 1 .. Len(F.args) : RemapTupleVars(F.args[a], locs) \in Exps
      BY <2>1, <3>1, RemapExp
    <3>4. u \in TermsOver(Factors) /\ u.coef = t.coef
      BY <3>1, <3>3, RemappedOver DEF Factors
    <3>5. val[u.fac] = val2[F]
      <4> DEFINE G == u.fac
      <4>1. G \in Factors
        BY <3>4 DEF TermsOver
      <4>2. CASE F.type = TupleVar
        <5>1. /\ F.id \in 0 .. Arity - 1 /\ F.id + 1 \in 1 .. Arity
              /\ F \in [type : 0 .. 3, id : Int, idx : Int, args : Seq(Exps)] /\ F.args = <<>>
          <6>1. F = Tv(F.id) /\ F.id \in 0 .. Arity - 1 /\ F.id + 1 \in 1 .. Arity
            BY <3>1, <4>2, TupleVarIs
          <6>2. Tv(F.id).args = <<>>
            BY DEF Tv, Factor
          <6> HIDE DEF F
          <6> QED BY <3>1, <6>1, <6>2, FactorIs
        <5>2. G = [F EXCEPT !.id = locs[F.id + 1]]
          BY <3>1, <4>2 DEF RemappedTerm, TermsOver
        <5>3. G.type = F.type /\ G.id = locs[F.id + 1] /\ G.args = F.args
          BY <5>1, <5>2
        <5>4. p[G.id + 1] = q[F.id + 1]
          BY <5>1, <5>3 DEF RemappedAt
        <5>5. Len(F.args) = 0
          BY <5>1
        <5> HIDE DEF F, G, q
        <5>6. ValuationAt(k, p)[G] = ValuationAt(k, q)[F]
          BY <1>1, <3>1, <4>1, <4>2, <5>3, <5>4, <5>5, ReplacedValue
        <5> QED BY <5>6 DEF G
      <4>3. CASE F.type # TupleVar
        <5> DEFINE args == RemappedArgs(F, locs)
        <5>1. /\ args \in Seq(Exps) /\ Len(args) = Len(F.args)
              /\ \A a \in 1 .. Len(F.args) : args[a] = RemapTupleVars(F.args[a], locs)
          BY <3>2, <3>3 DEF RemappedArgs
        <5>2. u = WithArgs(t, args)
          BY <4>3 DEF RemappedTerm
        <5> HIDE DEF args
        <5>3. G.args = args /\ G.type = F.type /\ Bare(G) = Bare(F)
          BY <3>1, <5>1, <5>2, WithArgsIs
        <5>4. \A a \in 1 .. Len(F.args) : Value(G.args[a], k, p) = Value(F.args[a], k, q)
          BY <2>1, <3>1, <5>1, <5>3
        <5>5. Len(G.args) = Len(F.args)
          BY <5>1, <5>3
        <5> HIDE DEF F, G, q
        <5>6. ValuationAt(k, p)[G] = ValuationAt(k, q)[F]
          BY <1>1, <3>1, <4>1, <4>3, <5>3, <5>4, <5>5, ReplacedValue
        <5> QED BY <5>6 DEF G
      <4> QED BY <4>2, <4>3
    <3>6. r[i] = u
      BY <2>2
    <3> QED BY <3>4, <3>5, <3>6
  <2>4. Len(r) = Len(x) /\ DOMAIN r = 1 .. Len(x)
    BY <2>2
  <2>5. Weights(r, val) = Weights(x, val2)
    <3> HIDE DEF r, val, val2
    <3> QED BY <2>2, <2>3, <2>4 DEF Weights
  <2>6. ValueOf(r, val) = ValueOf(x, val2)
    BY <2>4, <2>5 DEF ValueOf
  <2>7. Value(r, k, p) = ValueOf(r, val) /\ Value(x, k, q) = ValueOf(x, val2)
    <3> HIDE DEF r, q
    <3> QED BY <1>1, <2>2, ListValue
  <2> QED BY <2>6, <2>7
<1>3. Exps \subseteq S
  <2> HIDE DEF S
  <2> QED BY <1>2, ExpInduction
<1> QED BY <1>3

(* At every step substitute replaces every occurrence, simultaneously and  *)
(* inside calls of any depth, and remapTupleVars renames the same way.     *)
THEOREM ExpSubstitutesValue ==
  ASSUME Unfolding, Meanings
  PROVE  Spec => SubstitutesValue
<1> DEFINE Step == \A k \in Interps, p \in Points :
             /\ op'.name = "substitute" =>
                  Value(exp', k, p) =
                  Value(exp, k, [l \in 1 .. Arity |->
                    IF Tv(l - 1) \in DOMAIN op'.arg THEN Value(op'.arg[Tv(l - 1)], k, p) ELSE p[l]])
             /\ op'.name = "remap" =>
                  Value(exp', k, p) = Value(exp, k, [l \in 1 .. Arity |-> p[op'.arg[l] + 1]])
<1>1. ASSUME IsExp, Next
      PROVE  Step
  <2> SUFFICES ASSUME NEW k \in Interps, NEW p \in Points
               PROVE  /\ op'.name = "substitute" =>
                           Value(exp', k, p) = Value(exp, k, SubstitutedAt(op'.arg, k, p))
                      /\ op'.name = "remap" =>
                           Value(exp', k, p) = Value(exp, k, RemappedAt(op'.arg, p))
    BY DEF SubstitutedAt, RemappedAt
  <2>1. p \in Tuples /\ exp \in Exps
    BY <1>1, ClientAssumption DEF Points, Tuples, IsExp
  <2>2. ASSUME NEW s \in Subs, DoSubstitute(s)
        PROVE  /\ op'.name = "substitute"
               /\ Value(exp', k, p) = Value(exp, k, SubstitutedAt(op'.arg, k, p))
    <3>1. exp' = Substitute(exp, s) /\ op'.arg = s /\ op'.name = "substitute"
      BY <2>2 DEF DoSubstitute, Becomes, Did
    <3> QED BY <2>1, <3>1, SubstituteValue
  <2>3. ASSUME NEW locs \in Remaps, DoRemap(locs)
        PROVE  /\ op'.name = "remap"
               /\ Value(exp', k, p) = Value(exp, k, RemappedAt(op'.arg, p))
    <3>1. exp' = RemapTupleVars(exp, locs) /\ op'.arg = locs /\ op'.name = "remap"
      BY <2>3 DEF DoRemap, Becomes, Did
    <3> QED BY <2>1, <3>1, RemapValue
  <2>4. ASSUME DoCollapse \/ DoNegate \/ DoNormalize \/ \E t \in Terms : DoAddTerm(t)
        PROVE  op'.name \notin {"substitute", "remap"}
    BY <2>4 DEF DoCollapse, DoNegate, DoNormalize, DoAddTerm, Did
  <2>5. ASSUME NEW s \in Subs, DoSubstitute(s)
        PROVE  op'.name # "remap"
    BY <2>2, <2>5
  <2>6. ASSUME NEW locs \in Remaps, DoRemap(locs)
        PROVE  op'.name # "substitute"
    BY <2>3, <2>6
  <2> QED BY <1>1, <2>2, <2>3, <2>4, <2>5, <2>6 DEF Next
<1>2. IsExp /\ [Next]_vars => [Step]_vars
  BY <1>1
<1> QED BY <1>2, IsExpAlways, PTL DEF Spec, SubstitutesValue
-----------------------------------------------------------------------------
(* A function of the components of its inverse is the identity.            *)
Inverses == InverseMeaning(Factors, Int)

(* What the arguments of a call that collapses are: one call each, not     *)
(* scaled, of the inverse, which takes the same expression.                *)
LEMMA CollapsingCall ==
  ASSUME Unfolding, NEW e \in Exps, ~ ScaledInverse(e),
         NEW i \in 1 .. Len(e), Collapses(e[i].fac), ~ InverseTakesSeveral(e[i].fac)
  PROVE  LET F == e[i].fac
             G(a) == F.args[a][1].fac
             y == InnerCalls(F)[1].args[1]
         IN  /\ y \in Exps /\ y \in ArgsIn(F.args[1]) /\ F.args[1] \in ArgsIn(e)
             /\ F.type = UFCall /\ F.args # <<>>
             /\ \A a \in 1 .. Len(F.args) :
                  /\ F.args[a] = <<[coef |-> 1, fac |-> G(a)]>> /\ G(a) \in Factors
                  /\ G(a).type = UFCall /\ G(a).id = InverseOf[F.id] /\ TupleIndex(G(a)) = a - 1
                  /\ Len(G(a).args) = 1 /\ G(a).args[1] = y
<1> DEFINE F == e[i].fac
           G(a) == F.args[a][1].fac
           y == InnerCalls(F)[1].args[1]
<1>1. F \in Factors /\ \A a \in 1 .. Len(F.args) : F.args[a] \in ArgsIn(e)
  BY ArgsAre
<1>2. /\ Len(F.args) \in Nat /\ DOMAIN F.args = 1 .. Len(F.args)
      /\ \A a \in 1 .. Len(F.args) : F.args[a] \in Exps
  BY <1>1, FactorIs
<1>3. /\ 1 \in 1 .. Len(F.args) /\ F.args[1] \in ArgsIn(e) /\ y \in ArgsIn(F.args[1])
      /\ y \in Exps
  <2>1. /\ 1 \in 1 .. Len(F.args) /\ F.args[1] \in ArgsIn(e) /\ y \in ArgsIn(F.args[1])
    BY CollapsedArgIs
  <2> QED BY <2>1, PartsAre
<1>4. /\ F.type = UFCall /\ F.args # <<>>
      /\ \A a \in 1 .. Len(F.args) : Inverts(F, a) /\ SameArg(F, a)
  BY <1>2 DEF Collapses
<1>5. ASSUME NEW a \in 1 .. Len(F.args)
      PROVE  /\ InnerCalls(F)[a] = G(a) /\ Len(F.args[a]) = 1
             /\ G(a).type = UFCall /\ G(a).id = InverseOf[F.id] /\ TupleIndex(G(a)) = a - 1
  BY <1>2, <1>4 DEF Inverts, InnerCalls
<1>6. ASSUME NEW a \in 1 .. Len(F.args)
      PROVE  Len(G(a).args) = 1
  <2> DEFINE T == {b \in Nat : b \in 1 .. Len(F.args) /\ Len(InnerCalls(F)[b].args) # 1}
  <2> SUFFICES ASSUME Len(G(a).args) # 1
               PROVE  FALSE
    OBVIOUS
  <2>1. a \in T /\ T \subseteq Nat
    BY <1>2, <1>5
  <2>2. PICK b \in T : \A c \in T : b <= c
    <3> HIDE DEF T
    <3> QED BY <2>1, LeastNatural
  <2>3. b \in DOMAIN F.args /\ Len(InnerCalls(F)[b].args) # 1 /\ b \in Nat /\ Inverts(F, b)
    BY <1>2, <1>4
  <2>4. ASSUME NEW c \in 1 .. b - 1
        PROVE  Inverts(F, c) /\ Len(InnerCalls(F)[c].args) = 1 /\ SameArg(F, c)
    <3>1. c \in 1 .. Len(F.args) /\ ~ (b <= c) /\ c \in Nat
      BY <1>2, <2>3
    <3>2. c \notin T
      <4> HIDE DEF T
      <4> QED BY <2>2, <3>1
    <3> QED BY <1>4, <3>1, <3>2
  <2>5. InverseTakesSeveral(F)
    <3> HIDE DEF F, T
    <3> QED BY <1>4, <2>3, <2>4 DEF InverseTakesSeveral
  <2> QED BY <2>5
<1>7. ASSUME NEW a \in 1 .. Len(F.args)
      PROVE  F.args[a] = <<[coef |-> 1, fac |-> G(a)]>> /\ G(a) \in Factors
  <2> DEFINE x == F.args[a]
  <2>1. x \in Exps /\ x \in ArgsIn(e) /\ Len(x) = 1 /\ x[1].fac.type = UFCall /\ 1 \in 1 .. Len(x)
    BY <1>1, <1>2, <1>5
  <2>2. x[1].coef = 1
    <3>1. e \in Parts(e)
      BY PartsAre
    <3> HIDE DEF x
    <3> QED BY <2>1, <3>1 DEF ScaledInverse
  <2>3. x[1] \in TermsOver(Factors) /\ x[1].fac \in Factors
    <3> HIDE DEF x
    <3> QED BY <2>1, ArgsAre
  <2>4. x \in Seq(TermsOver(Factors))
    <3> HIDE DEF x
    <3> QED BY <2>1, ExpIs DEF Lists
  <2>5. x[1] = [coef |-> 1, fac |-> x[1].fac]
    <3> HIDE DEF x
    <3> QED BY <2>2, <2>3 DEF TermsOver
  <2>6. x = <<x[1]>>
    <3> HIDE DEF x
    <3> QED BY <2>1, <2>4
  <2> QED BY <2>3, <2>5, <2>6
<1>8. ASSUME NEW a \in 1 .. Len(F.args)
      PROVE  G(a).args[1] = y
  <2>1. ExpEqual(G(a).args[1], y)
    BY <1>4, <1>5 DEF SameArg
  <2>2. G(a).args[1] \in Exps
    <3> DEFINE g == G(a)
    <3>1. g \in Factors /\ Len(g.args) = 1
      BY <1>6, <1>7
    <3> HIDE DEF g
    <3>2. 1 \in 1 .. Len(g.args)
      BY <3>1
    <3>3. g.args[1] \in Exps
      BY <3>1, <3>2, FactorIs
    <3> QED BY <3>3 DEF g
  <2> HIDE DEF G, y
  <2> QED BY <1>3, <2>1, <2>2, ExpEqualIs
<1> QED BY <1>3, <1>4, <1>5, <1>6, <1>7, <1>8

(* f(f_inv(y)) is y.                                                       *)
LEMMA CollapsingCallValue ==
  ASSUME Unfolding, Meanings, Inverses, NEW k \in Interps, NEW p \in Tuples,
         NEW e \in Exps, ~ ScaledInverse(e),
         NEW i \in 1 .. Len(e), Collapses(e[i].fac), ~ InverseTakesSeveral(e[i].fac)
  PROVE  ValuationAt(k, p)[e[i].fac] = Value(InnerCalls(e[i].fac)[1].args[1], k, p)
<1> DEFINE F == e[i].fac
           y == InnerCalls(F)[1].args[1]
           v == Value(y, k, p)
           Gs == [a \in DOMAIN F.args |-> F.args[a][1].fac]
           val == ValuationAt(k, p)
<1>1. F \in Factors
  BY ArgsAre
<1>2. Len(F.args) \in Nat /\ DOMAIN F.args = 1 .. Len(F.args)
  BY <1>1, FactorIs
<1>3. /\ y \in Exps /\ F.type = UFCall /\ F.args # <<>>
      /\ \A a \in 1 .. Len(F.args) :
           /\ F.args[a] = <<[coef |-> 1, fac |-> Gs[a]]>> /\ Gs[a] \in Factors
           /\ Gs[a].type = UFCall /\ Gs[a].id = InverseOf[F.id] /\ TupleIndex(Gs[a]) = a - 1
           /\ Len(Gs[a].args) = 1 /\ Gs[a].args[1] = y
  <2>1. \A a \in 1 .. Len(F.args) : Gs[a] = F.args[a][1].fac
    BY <1>2
  <2> HIDE DEF Gs
  <2>2. y \in Exps /\ F.type = UFCall /\ F.args # <<>>
    BY CollapsingCall
  <2>3. ASSUME NEW a \in 1 .. Len(F.args)
        PROVE  LET g == F.args[a][1].fac
               IN  /\ F.args[a] = <<[coef |-> 1, fac |-> g]>> /\ g \in Factors
                   /\ g.type = UFCall /\ g.id = InverseOf[F.id] /\ TupleIndex(g) = a - 1
                   /\ Len(g.args) = 1 /\ g.args[1] = y
    BY CollapsingCall
  <2> HIDE DEF F, y
  <2> QED BY <2>1, <2>2, <2>3
<1>4. DOMAIN Gs = 1 .. Len(F.args)
  BY <1>2
<1> HIDE DEF y, Gs
<1>5. v \in Int
  BY <1>3, ExpValueInt
<1>6. ASSUME NEW a \in 1 .. Len(F.args)
      PROVE  Value(F.args[a], k, p) = Meaning(k, Bare(Gs[a]), <<v>>)
  <2> DEFINE g == Gs[a]
             t == [coef |-> 1, fac |-> g]
  <2>1. g \in Factors /\ g.type = UFCall /\ Len(g.args) = 1 /\ g.args[1] = y /\ F.args[a] = <<t>>
    BY <1>3
  <2>2. t \in TermsOver(Factors) /\ t.coef = 1 /\ t.fac = g
    BY <2>1 DEF TermsOver
  <2>3. Valuation(val, Factors)
    BY TupleValuation
  <2>4. <<t>> \in Lists /\ ValueOf(<<t>>, val) = 1 * val[g]
    <3> HIDE DEF t, g, val
    <3> QED BY <2>2, <2>3, SingleValue
  <2>5. Value(F.args[a], k, p) = val[g]
    <3>1. val[g] \in Int
      BY <2>1, <2>3 DEF Valuation
    <3>2. Value(<<t>>, k, p) = ValueOf(<<t>>, val)
      BY <2>4, ListValue
    <3> QED BY <2>1, <2>4, <3>1, <3>2
  <2>6. val[g] = FactorValue(g, k, p)
    BY <2>1 DEF ValuationAt
  <2>7. [b \in DOMAIN g.args |-> Value(g.args[b], k, p)] = <<v>>
    <3>1. DOMAIN g.args = 1 .. 1
      BY <2>1, FactorIs
    <3>2. \A b \in 1 .. 1 : g.args[b] = y
      BY <2>1
    <3> HIDE DEF g
    <3> QED BY <3>1, <3>2
  <2>8. FactorValue(g, k, p) = Meaning(k, Bare(g), <<v>>)
    <3> HIDE DEF g, v
    <3> QED BY <2>1, <2>7 DEF FactorValue, UFCall, TupleVar, ConstVal
  <2> QED BY <2>5, <2>6, <2>8
<1>7. val[F] = Meaning(k, Bare(F), [a \in DOMAIN F.args |-> Value(F.args[a], k, p)])
  <2>1. val[F] = FactorValue(F, k, p)
    BY <1>1 DEF ValuationAt
  <2> QED BY <1>3, <2>1 DEF FactorValue, UFCall, TupleVar, ConstVal
<1>8. [a \in DOMAIN F.args |-> Value(F.args[a], k, p)] = [a \in DOMAIN Gs |-> Meaning(k, Bare(Gs[a]), <<v>>)]
  <2> HIDE DEF v, F
  <2> QED BY <1>2, <1>4, <1>6
<1>9. Meaning(k, Bare(F), [a \in DOMAIN Gs |-> Meaning(k, Bare(Gs[a]), <<v>>)]) = v
  <2>1. Gs \in [DOMAIN F.args -> {G \in Factors : G.type = UFCall /\ G.id = InverseOf[F.id]}]
    <3>1. Gs = [a \in DOMAIN F.args |-> Gs[a]]
      BY DEF Gs
    <3>2. \A a \in DOMAIN F.args : Gs[a] \in {G \in Factors : G.type = UFCall /\ G.id = InverseOf[F.id]}
      BY <1>2, <1>3
    <3> QED BY <3>1, <3>2
  <2>2. \A a \in DOMAIN Gs : TupleIndex(Gs[a]) = a - 1 /\ Len(Gs[a].args) = 1
    BY <1>3, <1>4
  <2> HIDE DEF F, v
  <2> QED BY <1>1, <1>3, <1>5, <2>1, <2>2 DEF Inverses, InverseMeaning
<1> QED BY <1>7, <1>8, <1>9 DEF y

(* collapse keeps the value of each term.                                  *)
LEMMA CollapsedTermValue ==
  ASSUME Unfolding, Meanings, Inverses, NEW k \in Interps, NEW p \in Tuples,
         NEW e \in Exps, ~ ScaledInverse(e), ~ CollapseThrows(e), NEW i \in 1 .. Len(e),
         \A x \in ArgsIn(e) : ~ CollapseThrows(x) => Value(Collapse(x), k, p) = Value(x, k, p),
         \A x \in ArgsIn(e) : \A y \in ArgsIn(x) :
           ~ CollapseThrows(y) => Value(Collapse(y), k, p) = Value(y, k, p)
  PROVE  ValueOf(CollapsedTerm(e[i]), ValuationAt(k, p)) = e[i].coef * ValuationAt(k, p)[e[i].fac]
<1> DEFINE t == e[i]
           F == t.fac
           val == ValuationAt(k, p)
<1>1. /\ F \in Factors /\ t.coef \in Int /\ t \in TermsOver(Factors)
      /\ \A a \in 1 .. Len(F.args) : F.args[a] \in ArgsIn(e)
  BY ArgsAre
<1>2. Len(F.args) \in Nat /\ DOMAIN F.args = 1 .. Len(F.args)
  BY <1>1, FactorIs
<1>3. Valuation(val, Factors)
  BY TupleValuation
<1>4. /\ ~ InverseTakesSeveral(F)
      /\ Collapses(F) => ~ CollapseThrows(InnerCalls(F)[1].args[1])
      /\ ~ Collapses(F) => \A a \in 1 .. Len(F.args) : ~ CollapseThrows(F.args[a])
  <2>1. e \in Lists /\ i \in DOMAIN e
    BY ExpIs, ListIs
  <2>2. ~ CollapseThrowsStep(e)
    BY <2>1 DEF Unfolding, Unfolds
  <2> QED BY <1>2, <2>1, <2>2 DEF CollapseThrowsStep
<1>5. CASE Collapses(F)
  <2> DEFINE y == InnerCalls(F)[1].args[1]
             x == Collapse(y)
             cf == [j \in 1 .. Len(x) |-> t.coef * x[j].coef]
  <2>1. y \in Exps /\ y \in ArgsIn(F.args[1]) /\ F.args[1] \in ArgsIn(e)
    BY <1>4, <1>5, CollapsingCall
  <2>2. val[F] = Value(y, k, p)
    BY <1>4, <1>5, CollapsingCallValue
  <2>3. Value(x, k, p) = Value(y, k, p)
    BY <1>4, <1>5, <2>1
  <2>4. x \in Seq(TermsOver(Factors)) /\ Value(x, k, p) = ValueOf(x, val)
    <3>1. x \in Lists
      BY <2>1, CollapseExp, ExpIs
    <3> QED BY <3>1, ListValue DEF Lists
  <2>5. ValueOf(MultiplyBy(x, t.coef), val) = t.coef * ValueOf(x, val)
    <3> HIDE DEF x, val, t
    <3>1. MultiplyBy(x, t.coef) \in Seq(TermsOver(Factors)) /\ Recoefficients(MultiplyBy(x, t.coef), x, cf)
      BY <1>1, <2>4, MultiplyByIs
    <3>2. \A j \in 1 .. Len(x) : cf[j] = t.coef * x[j].coef
      OBVIOUS
    <3> HIDE DEF cf
    <3> QED BY <1>1, <1>3, <2>4, <3>1, <3>2, ScaledValue
  <2>6. CollapsedTerm(t) = MultiplyBy(x, t.coef)
    BY <1>5 DEF CollapsedTerm
  <2> QED BY <2>2, <2>3, <2>4, <2>5, <2>6
<1>6. CASE ~ Collapses(F)
  <2> DEFINE args == CollapsedArgs(F)
             u == WithArgs(t, args)
  <2>1. \A a \in 1 .. Len(F.args) : Collapse(F.args[a]) \in Exps
    BY <1>1, CollapseExp, FactorIs
  <2>2. /\ args \in Seq(Exps) /\ Len(args) = Len(F.args)
        /\ \A a \in 1 .. Len(F.args) : args[a] = Collapse(F.args[a])
    BY <1>2, <2>1 DEF CollapsedArgs
  <2> HIDE DEF args
  <2>3. /\ u \in TermsOver(Factors) /\ u.fac \in Factors /\ u.coef = t.coef
        /\ u.fac.args = args /\ u.fac.type = F.type /\ u.fac.id = F.id /\ Bare(u.fac) = Bare(F)
    BY <1>1, <2>2, WithArgsIs DEF Factors
  <2>4. \A a \in 1 .. Len(F.args) : Value(args[a], k, p) = Value(F.args[a], k, p)
    BY <1>1, <1>4, <1>6, <2>2
  <2>5. val[u.fac] = val[F]
    <3> DEFINE G == u.fac
    <3>1. /\ G \in Factors /\ G.type = F.type /\ Len(G.args) = Len(F.args) /\ G.id = F.id
          /\ Bare(G) = Bare(F)
          /\ \A a \in 1 .. Len(F.args) : Value(G.args[a], k, p) = Value(F.args[a], k, p)
      BY <2>2, <2>3, <2>4
    <3> HIDE DEF G, F
    <3>2. ValuationAt(k, p)[G] = ValuationAt(k, p)[F]
      BY <1>1, <3>1, ReplacedValue
    <3> QED BY <3>2 DEF G
  <2>6. CollapsedTerm(t) = <<u>>
    BY <1>6 DEF CollapsedTerm, args
  <2>7. ValueOf(<<u>>, val) = u.coef * val[u.fac]
    <3> HIDE DEF u, val
    <3> QED BY <1>3, <2>3, SingleValue
  <2> QED BY <2>3, <2>5, <2>6, <2>7
<1> QED BY <1>5, <1>6

LEMMA CollapseValue ==
  ASSUME Unfolding, Meanings, Inverses, NEW k \in Interps, NEW p \in Tuples,
         NEW e \in Exps, ~ ScaledInverse(e), ~ CollapseThrows(e)
  PROVE  Value(Collapse(e), k, p) = Value(e, k, p)
<1> DEFINE same(x) == Value(Collapse(x), k, p) = Value(x, k, p)
           S == {x \in Exps : ~ ScaledInverse(x) /\ ~ CollapseThrows(x) => same(x)}
<1>1. ASSUME NEW x \in Exps, ArgsIn(x) \subseteq S, \A y \in ArgsIn(x) : ArgsIn(y) \subseteq S
      PROVE  x \in S
  <2> SUFFICES ASSUME ~ ScaledInverse(x), ~ CollapseThrows(x)
               PROVE  same(x)
    BY <1>1
  <2> DEFINE val == ValuationAt(k, p)
             lists == ColLists(x)
  <2>1. \A y \in ArgsIn(x) : y \in Exps /\ ~ ScaledInverse(y)
    BY PartsAre DEF ScaledInverse
  <2>2. \A y \in ArgsIn(x) : \A z \in ArgsIn(y) : z \in Exps /\ ~ ScaledInverse(z)
    BY <2>1, PartsAre DEF ScaledInverse
  <2>3. \A y \in ArgsIn(x) : ~ CollapseThrows(y) => same(y)
    BY <1>1, <2>1
  <2>4. \A y \in ArgsIn(x) : \A z \in ArgsIn(y) : ~ CollapseThrows(z) => same(z)
    BY <1>1, <2>2
  <2>5. Len(x) \in Nat /\ x \in Seq(TermsOver(Factors)) /\ x \in Lists
    BY ExpIs, ListIs
  <2>6. lists \in Seq(Seq(TermsOver(Factors))) /\ Len(lists) = Len(x)
    <3>1. \A y \in ArgsIn(x) : Collapse(y) \in Exps
      BY <2>1, CollapseExp
    <3>2. \A y \in ArgsIn(x) : \A z \in ArgsIn(y) : Collapse(z) \in Lists
      BY <2>2, CollapseExp, ExpsOver
    <3>3. lists \in [1 .. Len(x) -> Seq(TermsOver(Factors))]
      BY <3>1, <3>2, ColListsOver, ExpsOver DEF Lists
    <3> HIDE DEF lists
    <3> QED BY <2>5, <3>3
  <2>7. ASSUME NEW i \in 1 .. Len(x)
        PROVE  ValueOf(lists[i], val) = x[i].coef * val[x[i].fac]
    <3>1. lists[i] = CollapsedTerm(x[i])
      BY DEF ColLists
    <3> QED BY <2>3, <2>4, <3>1, CollapsedTermValue
  <2>8. Valuation(val, Factors)
    BY TupleValuation
  <2>9. ValueOf(Rebuild(lists), val) = ValueOf(x, val)
    <3>1. \A i \in 1 .. Len(x) : ValueOf(lists[i], val) = x[i].coef * val[x[i].fac]
      BY <2>7
    <3> HIDE DEF lists, val
    <3>2. x \in Seq(TermsOver(Factors)) /\ lists \in Seq(Seq(TermsOver(Factors))) /\ Len(x) = Len(lists)
      BY <2>5, <2>6
    <3> QED BY <2>8, <3>1, <3>2, RebuildReplaces
  <2>10. Collapse(x) = Rebuild(lists) /\ Collapse(x) \in Lists
    BY CollapseIs, CollapseExp, ExpIs
  <2>11. Value(Collapse(x), k, p) = ValueOf(Collapse(x), val) /\ Value(x, k, p) = ValueOf(x, val)
    BY <2>5, <2>10, ListValue
  <2> QED BY <2>9, <2>10, <2>11
<1>2. Exps \subseteq S
  <2> HIDE DEF S
  <2> QED BY <1>1, ExpInduction2
<1> QED BY <1>2

(* At every step "f(f_inv(i)) changed to i" keeps the value, at any depth  *)
(* and whatever else is in the expression, when no nested call is scaled.  *)
THEOREM ExpCollapseKeepsValue ==
  ASSUME Unfolding, Meanings, Inverses
  PROVE  Spec => CollapseKeepsValue
<1> DEFINE Step == op'.name = "collapse" /\ ~ ScaledInverse(exp) =>
                     \A k \in Interps, p \in Points : Value(exp', k, p) = Value(exp, k, p)
<1>1. ASSUME IsExp, Next
      PROVE  Step
  <2>1. \A p \in Points : p \in Tuples
    BY ClientAssumption DEF Points, Tuples
  <2>2. CASE DoCollapse
    <3>1. exp' = Collapse(exp) /\ ~ CollapseThrows(exp) /\ exp \in Exps
      BY <1>1, <2>2 DEF DoCollapse, Becomes, IsExp
    <3> QED BY <2>1, <3>1, CollapseValue
  <2>3. ASSUME \/ DoNegate \/ DoNormalize \/ \E t \in Terms : DoAddTerm(t)
               \/ (\E s \in Subs : DoSubstitute(s)) \/ \E locs \in Remaps : DoRemap(locs)
        PROVE  op'.name # "collapse"
    BY <2>3 DEF DoNegate, DoNormalize, DoAddTerm, DoSubstitute, DoRemap, Did
  <2> QED BY <1>1, <2>2, <2>3 DEF Next
<1>2. IsExp /\ [Next]_vars => [Step]_vars
  BY <1>1
<1> QED BY <1>2, IsExpAlways, PTL DEF Spec, CollapseKeepsValue
-----------------------------------------------------------------------------
(* The factors with no F in an argument, at any depth.                     *)
FactorsFree(F) ==
  {G \in Factors : \A a \in 1 .. Len(G.args) : ~ DependsOn(G.args[a], F)}

(* A list depends on F when a term does: its factor matches, or an         *)
(* argument depends on F.                                                  *)
LEMMA DependsOnIs ==
  ASSUME Unfolding, NEW e \in Lists, NEW F
  PROVE  DependsOn(e, F) <=> \/ \E i \in 1 .. Len(e) : FactorMatches(e[i].fac, F)
                             \/ \E x \in ArgsIn(e) : DependsOn(x, F)
<1>1. Parts(e) = {e} \cup UNION {Parts(x) : x \in ArgsIn(e)}
  BY DEF Unfolding, Unfolds, PartsStep
<1>2. DOMAIN e = 1 .. Len(e)
  BY ListIs
<1> QED BY <1>1, <1>2 DEF DependsOn

LEMMA FreeFactorIs ==
  ASSUME Unfolding, NEW e \in Lists, NEW F, NEW i \in 1 .. Len(e), ~ DependsOn(e, F)
  PROVE  e[i].fac \in FactorsFree(F) /\ ~ FactorMatches(e[i].fac, F)
<1>1. e[i].fac \in Factors /\ i \in DOMAIN e
  BY ListIs
<1>2. DOMAIN e[i].fac.args = 1 .. Len(e[i].fac.args)
  BY <1>1, FactorIs
<1>3. \A a \in 1 .. Len(e[i].fac.args) : e[i].fac.args[a] \in ArgsIn(e)
  BY <1>1, <1>2 DEF ArgsIn, Range
<1> QED BY <1>1, <1>3, DependsOnIs DEF FactorsFree

LEMMA FreeListIs ==
  ASSUME Unfolding, NEW F, NEW e \in Seq(TermsOver(FactorsFree(F))),
         \A i \in 1 .. Len(e) : ~ FactorMatches(e[i].fac, F)
  PROVE  ~ DependsOn(e, F)
<1>1. TermsOver(FactorsFree(F)) \subseteq TermsOver(Factors)
  BY DEF FactorsFree, TermsOver
<1>2. e \in Lists /\ DOMAIN e = 1 .. Len(e) /\ \A i \in 1 .. Len(e) : e[i] \in TermsOver(FactorsFree(F))
  <2> DEFINE C == TermsOver(FactorsFree(F))
             D == TermsOver(Factors)
  <2> HIDE DEF C, D
  <2>1. C \subseteq D /\ e \in Seq(C) => e \in Seq(D) /\ DOMAIN e = 1 .. Len(e) /\ \A i \in 1 .. Len(e) : e[i] \in C
    OBVIOUS
  <2> QED BY <1>1, <2>1 DEF C, D, Lists
<1>3. ASSUME NEW i \in 1 .. Len(e)
      PROVE  \A x \in Range(e[i].fac.args) : ~ DependsOn(x, F)
  <2>1. e[i].fac \in FactorsFree(F)
    BY <1>2 DEF TermsOver
  <2>2. DOMAIN e[i].fac.args = 1 .. Len(e[i].fac.args)
    BY <2>1, FactorIs DEF FactorsFree
  <2> QED BY <2>1, <2>2 DEF FactorsFree, Range
<1>4. \A x \in ArgsIn(e) : ~ DependsOn(x, F)
  BY <1>2, <1>3 DEF ArgsIn
<1> QED BY <1>2, <1>4, DependsOnIs

(* The least of a nonempty set of indices is in it.                        *)
LEMMA LeastIndexIs ==
  ASSUME NEW n, NEW I, I \subseteq 1 .. n, I # {}
  PROVE  Min(I) \in I
<1>1. I \subseteq Nat
  OBVIOUS
<1>2. \E x \in I : \A y \in I : x <= y
  BY <1>1, LeastNatural
<1> QED BY <1>2 DEF Min

(* The factor is found when a term has it and its coefficient divides.     *)
LEMMA FoundDirectly ==
  ASSUME NEW e \in Exps, NEW i \in 1 .. Len(e), IsDivisible(e, e[i].coef)
  PROVE  FindMatchingFactor(e, e[i].fac) # 0
<1> DEFINE F == e[i].fac
           found == {j \in DOMAIN e : FactorMatches(e[j].fac, F) /\ IsDivisible(e, e[j].coef)}
<1>1. DOMAIN e = 1 .. Len(e) /\ \A j \in 1 .. Len(e) : e[j].coef # 0
  BY ExpIs, ListIs
<1>2. i \in found /\ found \subseteq 1 .. Len(e)
  BY <1>1 DEF FactorMatches
<1>3. FindMatchingFactor(e, F) = e[Min(found)].coef
  BY <1>2 DEF FindMatchingFactor
<1> HIDE DEF found
<1>4. Min(found) \in found
  BY <1>2, LeastIndexIs
<1> QED BY <1>1, <1>2, <1>3, <1>4

LEMMA SolvesDirectly ==
  ASSUME Unfolding, NEW e \in Exps, CanonicalList(e), NEW F \in Factors, F.args = <<>>,
         NEW i \in 1 .. Len(e), e[i].fac = F, IsDivisible(e, e[i].coef),
         ~ DependsOn(RemoveAt(e, i), F)
  PROVE  LET s == SolveForFactor(e, F)
         IN  s.ret = "exp" /\ ~ DependsOn(s.exp, F)
<1> DEFINE Fs == FactorsFree(F)
           c == FindMatchingFactor(e, F)
           r == RemoveAt(e, i)
<1>1. e \in Lists /\ e \in Seq(TermsOver(Factors)) /\ Len(e) \in Nat
  BY ExpIs, ListIs
<1>2. r \in Lists /\ Len(r) = Len(e) - 1 /\ Deleted(r, e, Len(e), i)
  BY <1>1, RemoveAtIs DEF Lists
<1>3. F \in Fs
  BY DEF FactorsFree
<1>4. ASSUME NEW j \in 1 .. Len(e)
      PROVE  e[j] \in TermsOver(Fs)
  <2>1. e[j] \in TermsOver(Factors)
    BY <1>1
  <2>2. CASE j = i
    BY <1>3, <2>1, <2>2 DEF TermsOver
  <2>3. CASE j # i
    <3>1. \E m \in 1 .. Len(r) : r[m] = e[j]
      <4>1. CASE j < i
        <5>1. j \in 1 .. Len(e) - 1
          BY <1>1, <4>1
        <5> QED BY <1>2, <4>1, <5>1 DEF Deleted
      <4>2. CASE j > i
        <5>1. j - 1 \in 1 .. Len(e) - 1 /\ ~ (j - 1 < i) /\ (j - 1) + 1 = j
          BY <1>1, <4>2
        <5> QED BY <1>2, <5>1 DEF Deleted
      <4> QED BY <1>1, <2>3, <4>1, <4>2
    <3>2. PICK m \in 1 .. Len(r) : r[m] = e[j]
      BY <3>1
    <3>3. r[m].fac \in Fs
      <4> HIDE DEF r, Fs
      <4> QED BY <1>2, FreeFactorIs DEF Fs, r
    <3> QED BY <2>1, <3>2, <3>3 DEF TermsOver
  <2> QED BY <2>2, <2>3
<1>5. e \in Seq(TermsOver(Fs))
  <2> HIDE DEF Fs
  <2> QED BY <1>1, <1>4
<1>6. Exact(Fs) /\ OrdersFactors(TermsOver(Fs))
  <2>1. Fs \subseteq Factors /\ TermsOver(Fs) \subseteq TermsOver(Factors)
    BY DEF FactorsFree, TermsOver
  <2> HIDE DEF Fs
  <2> QED BY <2>1, TermLessOrders DEF Exact, OrdersFactors
<1>7. c # 0
  BY FoundDirectly
<1>8. PICK x \in Seq(TermsOver(Fs)) :
        Isolate(e, F, e, c) = Solution(x) /\ \A j \in 1 .. Len(x) : ~ FactorMatches(x[j].fac, F)
  <2> HIDE DEF Fs
  <2> QED BY <1>3, <1>5, <1>6, <1>7, DirectSolveEliminates
<1>9. SolveForFactor(e, F) = Solution(x)
  BY <1>7, <1>8 DEF SolveForFactor
<1>10. ~ DependsOn(x, F)
  BY <1>8, FreeListIs
<1> QED BY <1>9, <1>10 DEF Solution

(* solveForFactor misses no solution: a variable outside every call, of a  *)
(* canonical list, whose coefficient divides the others, is solved for.    *)
THEOREM ExpSolveComplete ==
  ASSUME Unfolding
  PROVE  Spec => []SolveComplete
<1>1. ASSUME IsExp
      PROVE  SolveComplete
  <2> SUFFICES ASSUME NEW l \in 0 .. Arity - 1,
                      NEW at, at = {i \in DOMAIN exp : exp[i].fac = Tv(l)},
                      Canonical(exp), at # {}, IsDivisible(exp, exp[Min(at)].coef),
                      ~ DependsOn(RemoveAt(exp, Min(at)), Tv(l))
               PROVE  LET s == SolveForFactor(exp, Tv(l))
                      IN  s.ret = "exp" /\ ~ DependsOn(s.exp, Tv(l))
    BY DEF SolveComplete
  <2>1. exp \in Exps /\ CanonicalList(exp) /\ DOMAIN exp = 1 .. Len(exp)
    BY <1>1, CanonicalAtEveryDepth, ExpIs, ListIs DEF IsExp
  <2>2. Min(at) \in at
    BY <2>1, LeastIndexIs
  <2>3. Min(at) \in 1 .. Len(exp) /\ exp[Min(at)].fac = Tv(l)
    BY <2>1, <2>2
  <2>4. Tv(l) \in Factors /\ Tv(l).args = <<>>
    <3>1. Tv(l).args = <<>>
      BY DEF Tv, Factor
    <3> QED BY <2>1, <2>3, <3>1, ArgsAre
  <2> QED BY <2>1, <2>3, <2>4, SolvesDirectly
<1> QED BY <1>1, IsExpAlways, PTL
-----------------------------------------------------------------------------
(* The inverse takes a call's value back to each argument.                 *)
LeftInverses == LeftInverse(Int)

LEMMA InvertedFactor ==
  ASSUME LeftInverses, NEW G \in Factors, G.type = UFCall, G.id \notin Indexed,
         InverseOf[G.id] # NoName, NEW a \in 1 .. Len(G.args), NEW q \in Exps,
         NEW H, H = Factor(UFCall, InverseOf[G.id], IF Len(G.args) = 1 THEN -1 ELSE a - 1, <<q>>)
  PROVE  H \in Factors
<1>1. G.id \in DOMAIN NumArgs /\ Len(G.args) = NumArgs[G.id] /\ NumArgs[G.id] \in Nat \ {0}
  BY FactorIs, ClientAssumption DEF WellFormed
<1>2. /\ InverseOf[G.id] \in DOMAIN NumArgs /\ InverseOf[G.id] \in Int /\ NumArgs[InverseOf[G.id]] = 1
      /\ InverseOf[G.id] \in Indexed <=> NumArgs[G.id] # 1
  BY <1>1 DEF LeftInverses, LeftInverse
<1>3. /\ H.type = UFCall /\ H.id = InverseOf[G.id] /\ H.args = <<q>> /\ Len(H.args) = 1
      /\ H.idx = IF NumArgs[G.id] = 1 THEN -1 ELSE a - 1
  BY <1>1 DEF Factor
<1>4. a - 1 >= 0 /\ a - 1 \in Int
  BY <1>1
<1>5. WellFormed(H)
  <2>1. H.type = UFCall /\ H.id \in DOMAIN NumArgs /\ Len(H.args) = NumArgs[H.id] /\ UFCall # TupleVar
    <3>1. NumArgs[H.id] = 1 /\ H.id \in DOMAIN NumArgs /\ Len(H.args) = 1 /\ H.type = UFCall
      BY <1>2, <1>3, Zenon
    <3>2. UFCall # TupleVar
      BY DEF UFCall, TupleVar
    <3> QED BY <3>1, <3>2, Zenon
  <2>2. IF H.id \in Indexed THEN H.idx >= 0 ELSE H.idx = -1
    <3>1. CASE NumArgs[G.id] = 1
      BY <1>2, <1>3, <3>1
    <3>2. CASE NumArgs[G.id] # 1
      BY <1>2, <1>3, <1>4, <3>2
    <3> QED BY <3>1, <3>2
  <2> QED BY <2>1, <2>2 DEF WellFormed
<1>6. H \in [type : TupleVar .. ConstVal, id : Int, idx : Int, args : Seq(Exps)]
  BY <1>2, <1>4 DEF Factor, UFCall, TupleVar, ConstVal
<1> QED BY <1>5, <1>6 DEF Factors, FactorsOver

LEMMA InvertedComponent ==
  ASSUME Unfolding, Meanings, LeftInverses, NEW k \in Interps, NEW p \in Tuples,
         NEW G \in Factors, G.type = UFCall, G.id \notin Indexed, InverseOf[G.id] # NoName,
         NEW a \in 1 .. Len(G.args), NEW q \in Exps,
         Value(q, k, p) = ValuationAt(k, p)[G],
         NEW H, H = Factor(UFCall, InverseOf[G.id], IF Len(G.args) = 1 THEN -1 ELSE a - 1, <<q>>)
  PROVE  ValuationAt(k, p)[H] = Value(G.args[a], k, p)
<1> DEFINE g == G.id
           B == Factor(UFCall, InverseOf[g], IF NumArgs[g] = 1 THEN -1 ELSE a - 1, <<>>)
           v == [b \in 1 .. NumArgs[g] |-> Value(G.args[b], k, p)]
<1>1. /\ G \in [type : 0 .. 3, id : Int, idx : Int, args : Seq(Exps)]
      /\ g \in DOMAIN NumArgs /\ Len(G.args) = NumArgs[g] /\ G.idx = -1
      /\ NumArgs[g] \in Nat \ {0} /\ DOMAIN G.args = 1 .. NumArgs[g]
      /\ \A b \in 1 .. NumArgs[g] : G.args[b] \in Exps
  BY FactorIs, ClientAssumption DEF WellFormed
<1>2. v \in [1 .. NumArgs[g] -> Int]
  BY <1>1, ExpValueInt
<1>3. Meaning(k, B, <<Meaning(k, Uf(g, <<>>), v)>>) = v[a]
  <2> HIDE DEF v
  <2> QED BY <1>1, <1>2 DEF LeftInverses, LeftInverse
<1>4. Bare(G) = Uf(g, <<>>)
  BY <1>1 DEF Bare, Uf, Factor
<1>5. ValuationAt(k, p)[G] = Meaning(k, Uf(g, <<>>), v)
  <2>1. [b \in DOMAIN G.args |-> Value(G.args[b], k, p)] = v
    BY <1>1
  <2> HIDE DEF v
  <2> QED BY <1>4, <2>1 DEF ValuationAt, FactorValue, TupleVar, ConstVal, UFCall
<1>6. H.type = UFCall /\ H.args = <<q>> /\ DOMAIN H.args = {1} /\ Bare(H) = B
  BY <1>1 DEF Factor, Bare
<1>7. ValuationAt(k, p)[H] = Meaning(k, B, <<Value(q, k, p)>>)
  <2>1. [b \in DOMAIN H.args |-> Value(H.args[b], k, p)] = <<Value(q, k, p)>>
    BY <1>6
  <2>2. H \in Factors
    BY InvertedFactor
  <2> HIDE DEF B
  <2> QED BY <1>6, <2>1, <2>2 DEF ValuationAt, FactorValue, TupleVar, ConstVal, UFCall
<1>8. v[a] = Value(G.args[a], k, p)
  BY <1>1
<1> QED BY <1>3, <1>5, <1>7, <1>8

(* What is left when the call is taken out and divided by: an expression,  *)
(* equal to the call at the zeros of e.                                    *)
LEMMA DividedRest ==
  ASSUME Unfolding, Meanings, NEW e \in Exps, NEW i \in 1 .. Len(e),
         NEW rest, rest = AddTerm(e, [e[i] EXCEPT !.coef = -@]),
         IsDivisible(rest, e[i].coef)
  PROVE  /\ DivideBy(rest, -e[i].coef) \in Exps
         /\ \A k \in Interps, p \in Tuples :
              Value(e, k, p) = 0 =>
                Value(DivideBy(rest, -e[i].coef), k, p) = ValuationAt(k, p)[e[i].fac]
<1> DEFINE c == e[i].coef
           t == [e[i] EXCEPT !.coef = -@]
           q == DivideBy(rest, -c)
           cf == [j \in 1 .. Len(rest) |-> Quotient(rest[j].coef, -c)]
<1>1. e[i].fac \in Factors /\ c \in Int \ {0} /\ e[i] \in TermsOver(Factors) /\ e \in Lists
  BY ArgsAre, ExpIs
<1>2. t \in TermsOver(Factors) /\ t.coef = -c /\ t.fac = e[i].fac
  BY <1>1 DEF TermsOver
<1>3. rest \in Exps /\ rest \in Lists
  <2> HIDE DEF t
  <2>1. rest = AddTerm(e, t)
    BY DEF t
  <2>2. e \in Seq(NonZero(Factors))
    BY ExpsAre
  <2>3. rest \in Seq(NonZero(Factors))
    BY <1>2, <2>1, <2>2, AddTermNonZero
  <2> QED BY <2>3, ExpsAre, ExpIs
<1>4. -c \in Int \ {0} /\ Abs(-c) = Abs(c)
  BY <1>1, AbsIs
<1>5. IsDivisible(rest, -c)
  BY <1>4 DEF IsDivisible
<1> HIDE DEF c, t
<1>6. /\ q \in Seq(TermsOver(Factors)) /\ Recoefficients(q, rest, cf)
      /\ \A j \in 1 .. Len(rest) : (-c) * Quotient(rest[j].coef, -c) = rest[j].coef
  BY <1>3, <1>4, <1>5, DivideByIs DEF Lists
<1> HIDE DEF q
<1>7. q \in Exps
  <2>1. ASSUME NEW j \in 1 .. Len(q)
        PROVE  q[j].coef # 0
    <3>1. j \in 1 .. Len(rest) /\ q[j].coef = Quotient(rest[j].coef, -c)
      BY <1>6 DEF Recoefficients
    <3>2. (-c) * Quotient(rest[j].coef, -c) # 0
      BY <1>3, <1>6, <3>1, ExpIs
    <3>3. (-c) * 0 = 0
      BY <1>4
    <3> QED BY <3>1, <3>2, <3>3
  <2> QED BY <1>6, <2>1, NonZeroIsExp DEF Lists
<1>8. ASSUME NEW k \in Interps, NEW p \in Tuples, Value(e, k, p) = 0
      PROVE  Value(q, k, p) = ValuationAt(k, p)[e[i].fac]
  <2> DEFINE val == ValuationAt(k, p)
             x == val[e[i].fac]
             rf == [j \in 1 .. Len(q) |-> rest[j].coef]
  <2>1. Valuation(val, Factors)
    BY TupleValuation
  <2>2. x \in Int
    BY <1>1, <2>1 DEF Valuation
  <2>3. /\ Value(e, k, p) = ValueOf(e, val) /\ Value(rest, k, p) = ValueOf(rest, val)
        /\ Value(q, k, p) = ValueOf(q, val) /\ q \in Lists
    BY <1>1, <1>3, <1>7, ExpIs, ListValue
  <2>4. Value(q, k, p) \in Int
    BY <1>7, ExpValueInt
  <2> HIDE DEF val
  <2>5. ValueOf(rest, val) = ValueOf(e, val) + (-c) * x
    <3>1. rest = AddTerm(e, t)
      BY DEF t
    <3> QED BY <1>1, <1>2, <2>1, <3>1, AddTermAdds DEF Lists
  <2>6. ValueOf(rest, val) = (-c) * ValueOf(q, val)
    <3>1. Recoefficients(rest, q, rf) /\ \A j \in 1 .. Len(q) : rf[j] = (-c) * q[j].coef
      BY <1>6 DEF Recoefficients
    <3>2. q \in Seq(TermsOver(Factors)) /\ rest \in Seq(TermsOver(Factors))
      BY <1>3, <1>6 DEF Lists
    <3> HIDE DEF rf
    <3> QED BY <1>4, <2>1, <3>1, <3>2, ScaledValue
  <2>7. (-c) * x = (-c) * ValueOf(q, val)
    <3>1. 0 + (-c) * x = (-c) * x
      BY <1>4, <2>2
    <3> QED BY <1>8, <2>3, <2>5, <2>6, <3>1
  <2>8. \A u, w \in Int : (-c) * u = (-c) * w => u = w
    <3>1. \A d \in Int \ {0}, u, w \in Int : d * u = d * w => u = w
      OBVIOUS
    <3> QED BY <1>4, <3>1
  <2>9. x = ValueOf(q, val)
    BY <2>2, <2>3, <2>4, <2>7, <2>8
  <2> QED BY <2>3, <2>9 DEF val
<1> QED BY <1>7, <1>8 DEF c, q

(* The greatest of a nonempty set of indices is in it.                     *)
LEMMA GreatestIndexIs ==
  ASSUME NEW n \in Nat, NEW I, I \subseteq 1 .. n, I # {}
  PROVE  Max(I) \in I
<1> DEFINE J == {n - x : x \in I}
<1>1. J \subseteq Nat /\ J # {}
  <2>1. \A x \in I : n - x \in Nat
    OBVIOUS
  <2> QED BY <2>1
<1>2. PICK m \in J : \A y \in J : m <= y
  <2> HIDE DEF J
  <2> QED BY <1>1, LeastNatural
<1>3. PICK x \in I : m = n - x
  OBVIOUS
<1>4. \A y \in I : x >= y
  <2> TAKE y \in I
  <2>1. n - y \in J /\ x \in Int /\ y \in Int
    OBVIOUS
  <2>2. n - x <= n - y
    BY <1>2, <1>3, <2>1
  <2> QED BY <2>1, <2>2
<1> QED BY <1>4 DEF Max

(* A call that depends on a tuple variable has an argument that does.      *)
LEMMA RelevantArg ==
  ASSUME Unfolding, NEW t \in TermsOver(Factors), t.fac.type = UFCall,
         NEW F, F.type = TupleVar, DependsOn(<<t>>, F)
  PROVE  \E a \in 1 .. Len(t.fac.args) : DependsOn(t.fac.args[a], F)
<1> DEFINE e == <<t>>
<1>1. e \in Lists /\ Len(e) = 1 /\ e[1] = t /\ DOMAIN e = {1}
  <2>1. e \in Seq(TermsOver(Factors))
    OBVIOUS
  <2> QED BY <2>1 DEF Lists
<1> HIDE DEF e
<1>2. ArgsIn(e) = Range(t.fac.args)
  BY <1>1 DEF ArgsIn
<1>3. ~ FactorMatches(t.fac, F)
  BY DEF FactorMatches, UFCall, TupleVar
<1>4. \E x \in ArgsIn(e) : DependsOn(x, F)
  <2>1. DependsOn(e, F)
    BY DEF e
  <2>2. \A j \in 1 .. Len(e) : ~ FactorMatches(e[j].fac, F)
    BY <1>1, <1>3
  <2> QED BY <1>1, <2>1, <2>2, DependsOnIs
<1>5. DOMAIN t.fac.args = 1 .. Len(t.fac.args)
  BY FactorIs DEF TermsOver
<1> QED BY <1>2, <1>4, <1>5 DEF Range

(* The inverted expression, relevant_arg - inv(...), is zero where e is.   *)
LEMMA InvertedIsZero ==
  ASSUME Unfolding, Meanings, LeftInverses, NEW e \in Exps, NEW F, F.type = TupleVar,
         InvertsLast(e, F), NEW i, i = Max(CallsWith(e, F)),
         InvertFuncToExposeFactor(e, F).ret = "exp"
  PROVE  \E x \in Lists :
           /\ InvertFuncToExposeFactor(e, F) = Solution(x)
           /\ \A k \in Interps, p \in Tuples : Value(e, k, p) = 0 => Value(x, k, p) = 0
<1> DEFINE G == e[i].fac
           c == e[i].coef
           found == {j \in CallsWith(e, F) : InverseOf[e[j].fac.id] # NoName}
           rest == AddTerm(e, [e[i] EXCEPT !.coef = -@])
           name == InverseOf[G.id]
           nargs == Len(G.args)
           relevant == {a \in 1 .. nargs : DependsOn(G.args[a], F)}
           arg == Max(relevant)
           q == DivideBy(rest, -c)
           H == Factor(UFCall, name, IF nargs = 1 THEN -1 ELSE arg - 1, <<q>>)
           x == AddExp(<<Term(-1, H)>>, G.args[arg])
<1>0. /\ i \in CallsWith(e, F) /\ i \in 1 .. Len(e) /\ Len(e) \in Nat /\ DOMAIN e = 1 .. Len(e)
      /\ name # NoName /\ G.id \notin Indexed
  <2>1. Len(e) \in Nat /\ DOMAIN e = 1 .. Len(e)
    BY ExpIs, ListIs
  <2>2. CallsWith(e, F) # {} /\ CallsWith(e, F) \subseteq 1 .. Len(e)
    BY <2>1 DEF InvertsLast, CallsWith
  <2>3. i \in CallsWith(e, F)
    BY <2>1, <2>2, GreatestIndexIs
  <2> QED BY <2>1, <2>2, <2>3 DEF InvertsLast
<1>1. /\ G \in Factors /\ c \in Int \ {0} /\ e[i] \in TermsOver(Factors) /\ e \in Lists
      /\ G.type = UFCall /\ DependsOn(<<e[i]>>, F)
  BY <1>0, ArgsAre, ExpIs DEF CallsWith
<1>2. Min({i}) = i
  BY <1>0 DEF Min
<1>3. /\ InvertFuncToExposeFactor(e, F) = InvertCall(rest, e[i], F, name)
      /\ name # NoName
  <2>1. InvertFuncToExposeFactor(e, F) =
          CASE found = {} -> Null
            [] Cardinality(found) > 1 -> Throw
            [] OTHER -> InvertCall(AddTerm(e, [e[Min(found)] EXCEPT !.coef = -@]), e[Min(found)], F,
                                   InverseOf[e[Max(CallsWith(e, F))].fac.id])
    BY DEF InvertFuncToExposeFactor, CallsWith
  <2>2. Null.ret # "exp" /\ Throw.ret # "exp"
    BY DEF Null, Throw
  <2>3. i \in found /\ IsFiniteSet(found)
    <3>1. found \subseteq 1 .. Len(e)
      BY <1>0 DEF CallsWith
    <3>2. IsFiniteSet(1 .. Len(e))
      <4>1. \A n \in Nat : IsFiniteSet(1 .. n)
        BY FS_Interval
      <4> QED BY <1>0, <4>1
    <3> QED BY <1>0, <3>1, <3>2, FS_Subset
  <2>4. CASE Cardinality(found) > 1
    <3>1. found # {}
      BY <2>3
    <3> HIDE DEF found
    <3> QED BY <2>1, <2>2, <2>4, <3>1
  <2>5. CASE ~ (Cardinality(found) > 1)
    <3> HIDE DEF found
    <3>1. Cardinality(found) = 1
      BY <2>3, <2>5, FS_CardinalityType, FS_EmptySet
    <3>2. found = {i}
      BY <2>3, <3>1, FS_Singleton
    <3>3. found # {} /\ Min(found) = i
      BY <1>2, <3>2
    <3> QED BY <1>0, <2>1, <2>5, <3>3
  <2> QED BY <2>4, <2>5
<1>4. InvertCall(rest, e[i], F, name) = IF IsDivisible(rest, c) THEN Solution(x) ELSE Throw
  BY DEF InvertCall
<1>5. IsDivisible(rest, c) /\ InvertFuncToExposeFactor(e, F) = Solution(x)
  <2> HIDE DEF rest, x
  <2> QED BY <1>3, <1>4 DEF Throw
<1>6. /\ q \in Exps
      /\ \A k \in Interps, p \in Tuples :
           Value(e, k, p) = 0 => Value(q, k, p) = ValuationAt(k, p)[G]
  <2> HIDE DEF rest
  <2>1. rest = AddTerm(e, [e[i] EXCEPT !.coef = -@])
    BY DEF rest
  <2> QED BY <1>0, <1>5, <2>1, DividedRest
<1>7. arg \in 1 .. nargs /\ nargs \in Nat /\ G.args[arg] \in Exps
  <2>1. nargs \in Nat /\ \A a \in 1 .. nargs : G.args[a] \in Exps
    BY <1>1, FactorIs
  <2>2. relevant # {} /\ relevant \subseteq 1 .. nargs
    BY <1>1, RelevantArg
  <2> HIDE DEF relevant
  <2>3. arg \in relevant
    BY <2>1, <2>2, GreatestIndexIs
  <2> QED BY <2>1, <2>2, <2>3
<1> HIDE DEF rest, q, arg, x
<1>8. H \in Factors
  <2> HIDE DEF G, H, nargs, name
  <2>1. H = Factor(UFCall, InverseOf[G.id], IF Len(G.args) = 1 THEN -1 ELSE arg - 1, <<q>>)
    BY DEF H, nargs, name
  <2>2. G \in Factors /\ G.type = UFCall /\ G.id \notin Indexed /\ InverseOf[G.id] # NoName
    BY <1>0, <1>1 DEF G, name
  <2>3. arg \in 1 .. Len(G.args)
    BY <1>7 DEF nargs
  <2> QED BY <1>6, <2>1, <2>2, <2>3, InvertedFactor
<1>9. ASSUME NEW k \in Interps, NEW p \in Tuples, Value(e, k, p) = 0
      PROVE  ValuationAt(k, p)[H] = Value(G.args[arg], k, p)
  <2>1. Value(q, k, p) = ValuationAt(k, p)[G]
    BY <1>6, <1>9
  <2> HIDE DEF G, H, nargs, name
  <2>2. H = Factor(UFCall, InverseOf[G.id], IF Len(G.args) = 1 THEN -1 ELSE arg - 1, <<q>>)
    BY DEF H, nargs, name
  <2>3. G \in Factors /\ G.type = UFCall /\ G.id \notin Indexed /\ InverseOf[G.id] # NoName
    BY <1>0, <1>1 DEF G, name
  <2>4. arg \in 1 .. Len(G.args)
    BY <1>7 DEF nargs
  <2> QED BY <1>6, <2>1, <2>2, <2>3, <2>4, InvertedComponent
<1> HIDE DEF H
<1>10. /\ Term(-1, H) \in TermsOver(Factors) /\ <<Term(-1, H)>> \in Lists
       /\ Term(-1, H).coef = -1 /\ Term(-1, H).fac = H
  <2>1. Term(-1, H) \in TermsOver(Factors) /\ Term(-1, H).coef = -1 /\ Term(-1, H).fac = H
    BY <1>8 DEF Term, TermsOver
  <2> QED BY <2>1 DEF Lists
<1>11. G.args[arg] \in Lists
  BY <1>7, ExpIs
<1>12. x \in Lists
  BY <1>10, <1>11, AddExpAdds DEF x, Lists
<1>13. ASSUME NEW k \in Interps, NEW p \in Tuples, Value(e, k, p) = 0
       PROVE  Value(x, k, p) = 0
  <2> DEFINE val == ValuationAt(k, p)
             b == G.args[arg]
             v == Value(b, k, p)
  <2>1. Valuation(val, Factors)
    BY TupleValuation
  <2>2. Value(x, k, p) = ValueOf(x, val) /\ v = ValueOf(b, val) /\ v \in Int
    BY <1>7, <1>11, <1>12, ExpValueInt, ListValue
  <2>3. val[H] = v
    BY <1>9, <1>13
  <2> HIDE DEF val, b, v
  <2>4. ValueOf(x, val) = ValueOf(<<Term(-1, H)>>, val) + ValueOf(b, val)
    <3> DEFINE d == <<Term(-1, H)>>
    <3>1. d \in Seq(TermsOver(Factors)) /\ b \in Seq(TermsOver(Factors))
      BY <1>10, <1>11 DEF b, Lists
    <3>2. x = AddExp(d, b)
      BY DEF x, b
    <3> HIDE DEF x, d
    <3>3. ValueOf(AddExp(d, b), val) = ValueOf(d, val) + ValueOf(b, val)
      BY <2>1, <3>1, AddExpAdds
    <3> QED BY <3>2, <3>3 DEF d
  <2>5. ValueOf(<<Term(-1, H)>>, val) = (-1) * v
    BY <1>10, <2>1, <2>3, SingleValue
  <2>6. (-1) * v + v = 0
    BY <2>2
  <2> QED BY <2>2, <2>4, <2>5, <2>6
<1> QED BY <1>5, <1>12, <1>13

(* A solution of solveForFactor that was found, directly or after an       *)
(* inversion, and does not mention the variable: it is equal to that       *)
(* variable at every zero of the expression.  For tuples of any integers.  *)
LEMMA FoundIsSound ==
  ASSUME Unfolding, Meanings, LeftInverses, NEW e \in Exps,
         NEW F \in Factors, F.type = TupleVar,
         Found(e, F),
         SolveForFactor(e, F).ret = "exp", ~ DependsOn(SolveForFactor(e, F).exp, F),
         NEW k \in Interps, NEW p \in Tuples, Value(e, k, p) = 0
  PROVE  Value(SolveForFactor(e, F).exp, k, p) = ValuationAt(k, p)[F]
<1> DEFINE val == ValuationAt(k, p)
<1>1. e \in Lists /\ e \in Seq(TermsOver(Factors)) /\ DOMAIN e = 1 .. Len(e)
  BY ExpIs, ListIs
<1>2. Valuation(val, Factors)
  BY TupleValuation
<1>3. CASE FindMatchingFactor(e, F) # 0
  <2>1. PICK x \in Seq(TermsOver(Factors)) :
          /\ Isolate(e, F, e, FindMatchingFactor(e, F)) = Solution(x)
          /\ \A w : Valuation(w, Factors) => (ValueOf(e, w) = 0 <=> ValueOf(x, w) = w[F])
    BY <1>1, <1>3, DirectSolveExact
  <2>2. SolveForFactor(e, F).exp = x
    BY <1>3, <2>1 DEF SolveForFactor, Solution
  <2>3. x \in Lists
    BY DEF Lists
  <2>4. Value(e, k, p) = ValueOf(e, val) /\ Value(x, k, p) = ValueOf(x, val)
    BY <1>1, <2>3, ListValue
  <2> HIDE DEF val
  <2> QED BY <1>2, <2>1, <2>2, <2>4 DEF val
<1>4. CASE FindMatchingFactor(e, F) = 0
  <2> DEFINE y == InvertFuncToExposeFactor(e, F)
             c == FindMatchingFactor(y.exp, F)
  <2>1. SolveForFactor(e, F) = SolveExposed(e, F, y)
    BY <1>4 DEF SolveForFactor
  <2>2. y.ret = "exp" /\ SolveForFactor(e, F) = Isolate(e, F, y.exp, c)
    <3> HIDE DEF y
    <3> QED BY <2>1 DEF SolveExposed
  <2>3. InvertsLast(e, F) /\ c # 0
    BY <1>4 DEF Found
  <2>4. PICK x \in Lists :
          y = Solution(x) /\ \A j \in Interps, q \in Tuples : Value(e, j, q) = 0 => Value(x, j, q) = 0
    BY <2>2, <2>3, InvertedIsZero
  <2>5. y.exp = x /\ c = FindMatchingFactor(x, F) /\ c # 0
    BY <2>3, <2>4 DEF Solution
  <2> HIDE DEF y, c
  <2>6. x \in Seq(TermsOver(Factors)) /\ DOMAIN x = 1 .. Len(x)
    BY ListIs DEF Lists
  <2>7. PICK j \in 1 .. Len(x) : FactorMatches(x[j].fac, F) /\ IsDivisible(x, c)
    BY <2>5, <2>6, FindMatchingFactorIs
  <2>8. IsDivisible(e, c)
    <3> SUFFICES ASSUME ~ IsDivisible(e, c)
                 PROVE  FALSE
      OBVIOUS
    <3>1. SolveForFactor(e, F).exp = x
      BY <2>2, <2>5 DEF Isolate, Solution
    <3>2. DependsOn(x, F)
      BY <2>7, DependsOnIs
    <3> QED BY <3>1, <3>2
  <2>9. Isolate(e, F, x, c) = Isolate(x, F, x, c)
    BY <2>5, <2>7, <2>8 DEF Isolate
  <2>10. PICK s \in Seq(TermsOver(Factors)) :
          /\ Isolate(x, F, x, c) = Solution(s)
          /\ \A w : Valuation(w, Factors) => (ValueOf(x, w) = 0 <=> ValueOf(s, w) = w[F])
    BY <2>5, <2>6, DirectSolveExact
  <2>11. SolveForFactor(e, F).exp = s
    BY <2>2, <2>5, <2>9, <2>10 DEF Solution
  <2>12. s \in Lists
    BY DEF Lists
  <2>13. Value(x, k, p) = 0 /\ Value(x, k, p) = ValueOf(x, val) /\ Value(s, k, p) = ValueOf(s, val)
    BY <2>4, <2>12, ListValue
  <2> HIDE DEF val
  <2> QED BY <1>2, <2>10, <2>11, <2>13 DEF val
<1> QED BY <1>3, <1>4

(* SolveSound: a solution that findFunction uses, found directly or after  *)
(* an inversion, is right whatever is in the expression, in any order.     *)
THEOREM ExpSolveSound ==
  ASSUME Unfolding, Meanings, LeftInverses
  PROVE  Spec => []SolveSound
<1>1. ASSUME IsExp
      PROVE  SolveSound
  <2> SUFFICES ASSUME NEW l \in 0 .. Arity - 1, SolveForFactor(exp, Tv(l)).ret = "exp",
                      ~ DependsOn(SolveForFactor(exp, Tv(l)).exp, Tv(l)),
                      Found(exp, Tv(l)),
                      NEW k \in Interps, NEW p \in Points, Value(exp, k, p) = 0
               PROVE  Value(SolveForFactor(exp, Tv(l)).exp, k, p) = p[l + 1]
    BY DEF SolveSound
  <2>1. Tv(l) \in Factors /\ Tv(l).type = TupleVar /\ Tv(l).id = l
    <3>1. Tv(l) = [type |-> TupleVar, id |-> l, idx |-> -1, args |-> <<>>]
      BY DEF Tv, Factor
    <3>2. Arity \in Nat /\ l \in Int /\ <<>> \in Seq(Exps) /\ Len(<<>>) = 0
      BY ClientAssumption
    <3> HIDE DEF Tv
    <3>3. WellFormed(Tv(l))
      BY <3>1, <3>2 DEF WellFormed, TupleVar, UFCall
    <3>4. Tv(l) \in [type : TupleVar .. ConstVal, id : Int, idx : Int, args : Seq(Exps)]
      BY <3>1, <3>2 DEF TupleVar, ConstVal
    <3> QED BY <3>1, <3>3, <3>4 DEF Factors, FactorsOver
  <2>2. exp \in Exps /\ p \in Tuples
    BY <1>1, ClientAssumption DEF IsExp, Points, Tuples
  <2>3. ValuationAt(k, p)[Tv(l)] = p[l + 1]
    <3> DEFINE F == Tv(l)
    <3>1. F \in Factors /\ F.type = TupleVar /\ F.id = l
      BY <2>1
    <3> HIDE DEF F
    <3>2. ValuationAt(k, p)[F] = FactorValue(F, k, p)
      BY <3>1 DEF ValuationAt
    <3>3. FactorValue(F, k, p) = p[F.id + 1]
      BY <3>1 DEF FactorValue, TupleVar, ConstVal, UFCall
    <3> QED BY <3>1, <3>2, <3>3 DEF F
  <2> HIDE DEF Tv
  <2> QED BY <2>1, <2>2, <2>3, FoundIsSound
<1> QED BY <1>1, IsExpAlways, PTL
=============================================================================
