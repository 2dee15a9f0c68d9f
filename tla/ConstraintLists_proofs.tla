----------------------- MODULE ConstraintLists_proofs -----------------------
(***************************************************************************)
(* Proofs about the operations of ConstraintLists, for lists of any length *)
(* of any constraints: that inserting into them, dropping what equals      *)
(* something already there, means conjunction in a Conjunction and union   *)
(* in a Set or Relation.                                                   *)
(***************************************************************************)
EXTENDS ConstraintLists, Induction, SequenceTheorems, TLAPS

(* What a tuple, under an interpretation, is to the lists: the set Z of    *)
(* the expressions that are zero at it, the set P of those that are not    *)
(* negative, and the set D of the declarations it fits.                    *)
AllIn(list, Q) == \A i \in 1 .. Len(list) : list[i] \in Q
Fits(c, D, Z, P) == c.decl \in D /\ AllIn(c.eqs, Z) /\ AllIn(c.ineqs, P)
Has(cs, D, Z, P) == \E i \in 1 .. Len(cs) : Fits(cs[i], D, Z, P)

Conjs(Decls, Exps) == [decl : Decls, inArity : Nat, eqs : Seq(Exps), ineqs : Seq(Exps)]
-----------------------------------------------------------------------------
(* The least element of a nonempty set of indices.                         *)
LEMMA MinIs ==
  ASSUME NEW n \in Nat, NEW I, I \subseteq 1 .. n, I # {}
  PROVE  Min(I) \in I /\ \A j \in I : Min(I) <= j
<1>1. I \subseteq Nat
  OBVIOUS
<1>2. \E x \in I : \A y \in I : x <= y
  BY <1>1, LeastNatural
<1> QED BY <1>2 DEF Min

(* r has the elements of s and x.                                          *)
Adds(r, s, x) ==
  /\ \E k \in 1 .. Len(r) : r[k] = x
  /\ \A j \in 1 .. Len(s) : \E k \in 1 .. Len(r) : r[k] = s[j]
  /\ \A k \in 1 .. Len(r) : r[k] = x \/ \E j \in 1 .. Len(s) : r[k] = s[j]

LEMMA InsertAtAdds ==
  ASSUME NEW S, NEW s \in Seq(S), NEW i \in 1 .. Len(s), NEW x \in S
  PROVE  /\ InsertAt(s, i, x) \in Seq(S) /\ Len(InsertAt(s, i, x)) = Len(s) + 1
         /\ Adds(InsertAt(s, i, x), s, x)
<1> DEFINE r == InsertAt(s, i, x)
           n == Len(s)
<1>1. r \in Seq(S)
  BY DEF InsertAt
<1>2. Len(r) = n + 1
  BY DEF InsertAt
<1>3. ASSUME NEW k \in 1 .. n + 1
      PROVE  r[k] = IF k < i THEN s[k] ELSE IF k = i THEN x ELSE s[k - 1]
  BY DEF InsertAt
<1>4. n \in Nat
  OBVIOUS
<1> HIDE DEF r, n
<1>5. i \in 1 .. n /\ i \in 1 .. n + 1
  BY <1>4 DEF n
<1>6. r[i] = x
  BY <1>3, <1>5
<1>7. ASSUME NEW j \in 1 .. n
      PROVE  \E k \in 1 .. n + 1 : r[k] = s[j]
  <2>1. CASE j < i
    <3>1. j \in 1 .. n + 1
      BY <1>4
    <3> QED BY <1>3, <2>1, <3>1
  <2>2. CASE j >= i
    <3>1. j + 1 \in 1 .. n + 1 /\ ~ (j + 1 < i) /\ j + 1 # i /\ (j + 1) - 1 = j
      BY <1>4, <1>5, <2>2
    <3>2. r[j + 1] = s[(j + 1) - 1]
      BY <1>3, <3>1
    <3> QED BY <3>1, <3>2
  <2> QED BY <1>5, <2>1, <2>2
<1>8. ASSUME NEW k \in 1 .. n + 1
      PROVE  r[k] = x \/ \E j \in 1 .. n : r[k] = s[j]
  <2>1. CASE k < i
    <3>1. k \in 1 .. n
      BY <1>4, <1>5, <2>1
    <3> QED BY <1>3, <2>1, <3>1
  <2>2. CASE k > i
    <3>1. k - 1 \in 1 .. n /\ ~ (k < i) /\ k # i
      BY <1>4, <1>5, <2>2
    <3> QED BY <1>3, <3>1
  <2>3. CASE k = i
    BY <1>6, <2>3
  <2> QED BY <1>5, <2>1, <2>2, <2>3
<1>9. Adds(r, s, x)
  <2>1. Len(s) = n
    BY DEF n
  <2> QED BY <1>2, <1>5, <1>6, <1>7, <1>8, <2>1 DEF Adds
<1> QED BY <1>1, <1>2, <1>9 DEF r, n

LEMMA AppendAdds ==
  ASSUME NEW S, NEW s \in Seq(S), NEW x \in S
  PROVE  /\ Append(s, x) \in Seq(S) /\ Len(Append(s, x)) = Len(s) + 1
         /\ Adds(Append(s, x), s, x)
<1> DEFINE r == Append(s, x)
           n == Len(s)
<1>1. r \in Seq(S) /\ Len(r) = n + 1 /\ n \in Nat
  OBVIOUS
<1>2. r[n + 1] = x /\ \A j \in 1 .. n : r[j] = s[j]
  OBVIOUS
<1> HIDE DEF r, n
<1>3. n + 1 \in 1 .. n + 1 /\ \A j \in 1 .. n : j \in 1 .. n + 1
  BY <1>1
<1>4. \A k \in 1 .. n + 1 : k = n + 1 \/ k \in 1 .. n
  BY <1>1
<1>5. Adds(r, s, x)
  <2>1. Len(s) = n
    BY DEF n
  <2> QED BY <1>1, <1>2, <1>3, <1>4, <2>1 DEF Adds
<1> QED BY <1>1, <1>5 DEF r, n

(* Inserting a constraint asks for one more: zero and what equals a        *)
(* constraint already there can be dropped.                                *)
LEMMA InsertExpMeans ==
  ASSUME NEW Exps, NEW list \in Seq(Exps), NEW e \in Exps
  PROVE  /\ InsertExp(list, e) \in Seq(Exps)
         /\ \A Q : RespectsEqual(Q, Exps) =>
              (AllIn(InsertExp(list, e), Q) <=> AllIn(list, Q) /\ e \in Q)
<1> DEFINE stops == {i \in DOMAIN list : ExpEqual(e, list[i]) \/ ExpLess(e, list[i])}
           m == Min(stops)
           n == Len(list)
<1>1. n \in Nat /\ DOMAIN list = 1 .. n /\ \A i \in 1 .. n : list[i] \in Exps
  BY ElementOfSeq
<1>2. ASSUME NEW r, Adds(r, list, e), NEW Q
      PROVE  AllIn(r, Q) <=> AllIn(list, Q) /\ e \in Q
  BY <1>2 DEF Adds, AllIn
<1>3. CASE EqualsZero(e)
  <2>1. InsertExp(list, e) = list
    BY <1>3 DEF InsertExp
  <2> QED BY <1>3, <2>1 DEF RespectsEqual
<1>4. CASE ~ EqualsZero(e) /\ stops = {}
  <2>1. InsertExp(list, e) = Append(list, e)
    BY <1>4 DEF InsertExp
  <2>2. Append(list, e) \in Seq(Exps) /\ Adds(Append(list, e), list, e)
    BY AppendAdds
  <2> QED BY <1>2, <2>1, <2>2
<1>5. CASE ~ EqualsZero(e) /\ stops # {}
  <2>1. m \in stops /\ m \in 1 .. n
    <3>1. stops \subseteq 1 .. n
      BY <1>1
    <3> HIDE DEF stops
    <3>2. m \in stops
      BY <1>1, <1>5, <3>1, MinIs
    <3> QED BY <3>1, <3>2
  <2>2. InsertExp(list, e) = IF ExpEqual(e, list[m]) THEN list ELSE InsertAt(list, m, e)
    BY <1>5 DEF InsertExp
  <2> HIDE DEF m, stops
  <2>3. CASE ExpEqual(e, list[m])
    <3>1. InsertExp(list, e) = list
      BY <2>2, <2>3
    <3>2. ASSUME NEW Q, RespectsEqual(Q, Exps)
          PROVE  AllIn(list, Q) => e \in Q
      BY <1>1, <2>1, <2>3, <3>2 DEF RespectsEqual, AllIn
    <3> QED BY <3>1, <3>2
  <2>4. CASE ~ ExpEqual(e, list[m])
    <3>1. InsertExp(list, e) = InsertAt(list, m, e)
      BY <2>2, <2>4
    <3>2. InsertAt(list, m, e) \in Seq(Exps) /\ Adds(InsertAt(list, m, e), list, e)
      BY <2>1, InsertAtAdds
    <3> QED BY <1>2, <3>1, <3>2
  <2> QED BY <2>3, <2>4
<1> QED BY <1>3, <1>4, <1>5

(* The conjunctions that adding the equalities es one by one passes        *)
(* through.                                                                *)
EqualitiesUpTo(s, c, es) ==
  /\ s[0] = c /\ s[Len(es)] = AddEqualities(c, es)
  /\ \A i \in 1 .. Len(es) : s[i] = AddEquality(s[i - 1], es[i])

LEMMA AddEqualitiesSteps ==
  ASSUME NEW C, NEW c \in C, NEW es, Len(es) \in Nat,
         \A x \in C : \A i \in 1 .. Len(es) : AddEquality(x, es[i]) \in C
  PROVE  \E s \in [0 .. Len(es) -> C] : EqualitiesUpTo(s, c, es)
<1> DEFINE n == Len(es)
           h == [x \in (1 .. n) \X C |-> AddEquality(x[2], es[x[1]])]
           f == CHOOSE g : g = [i \in 0 .. n |-> IF i = 0 THEN c ELSE AddEquality(g[i - 1], es[i])]
<1>1. h \in [(1 .. n) \X C -> C] /\ n \in Nat
  OBVIOUS
<1>2. PICK g \in [0 .. n -> C] : IsRecursionTo(g, n, c, h)
  <2> HIDE DEF h, n
  <2> QED BY <1>1, BoundedRecursion
<1>3. g = [i \in 0 .. n |-> IF i = 0 THEN c ELSE AddEquality(g[i - 1], es[i])]
  <2>1. ASSUME NEW i \in 0 .. n, i # 0
        PROVE  h[<<i, g[i - 1]>>] = AddEquality(g[i - 1], es[i])
    <3>1. i \in 1 .. n /\ i - 1 \in 0 .. n
      BY <2>1
    <3>2. <<i, g[i - 1]>> \in (1 .. n) \X C
      BY <3>1
    <3> QED BY <3>2
  <2> HIDE DEF h
  <2> QED BY <1>2, <2>1 DEF IsRecursionTo
<1>4. f = [i \in 0 .. n |-> IF i = 0 THEN c ELSE AddEquality(f[i - 1], es[i])]
  BY <1>3
<1>5. AddEqualities(c, es) = f[n]
  BY DEF AddEqualities
<1> HIDE DEF f, h
<1>6. f[0] = c /\ \A i \in 1 .. n : f[i] = AddEquality(f[i - 1], es[i])
  <2>1. 0 \in 0 .. n /\ \A i \in 1 .. n : i \in 0 .. n /\ i # 0
    BY <1>1
  <2> HIDE DEF n
  <2> QED BY <1>4, <2>1
<1> DEFINE T == {i \in 0 .. n : f[i] \in C}
<1>7. 0 \in T
  BY <1>1, <1>6
<1>8. ASSUME NEW i \in 1 .. n, i - 1 \in T
      PROVE  i \in T
  BY <1>1, <1>6, <1>8
<1>9. f \in [0 .. n -> C]
  <2> HIDE DEF n
  <2>1. 0 .. n \subseteq T
    <3> HIDE DEF T
    <3> QED BY <1>1, <1>7, <1>8, BoundedInduction
  <2> QED BY <1>4, <2>1
<1> QED BY <1>5, <1>6, <1>9 DEF EqualitiesUpTo

(* The same of the inequalities.                                           *)
InequalitiesUpTo(s, c, es) ==
  /\ s[0] = c /\ s[Len(es)] = AddInequalities(c, es)
  /\ \A i \in 1 .. Len(es) : s[i] = AddInequality(s[i - 1], es[i])

LEMMA AddInequalitiesSteps ==
  ASSUME NEW C, NEW c \in C, NEW es, Len(es) \in Nat,
         \A x \in C : \A i \in 1 .. Len(es) : AddInequality(x, es[i]) \in C
  PROVE  \E s \in [0 .. Len(es) -> C] : InequalitiesUpTo(s, c, es)
<1> DEFINE n == Len(es)
           h == [x \in (1 .. n) \X C |-> AddInequality(x[2], es[x[1]])]
           f == CHOOSE g : g = [i \in 0 .. n |-> IF i = 0 THEN c ELSE AddInequality(g[i - 1], es[i])]
<1>1. h \in [(1 .. n) \X C -> C] /\ n \in Nat
  OBVIOUS
<1>2. PICK g \in [0 .. n -> C] : IsRecursionTo(g, n, c, h)
  <2> HIDE DEF h, n
  <2> QED BY <1>1, BoundedRecursion
<1>3. g = [i \in 0 .. n |-> IF i = 0 THEN c ELSE AddInequality(g[i - 1], es[i])]
  <2>1. ASSUME NEW i \in 0 .. n, i # 0
        PROVE  h[<<i, g[i - 1]>>] = AddInequality(g[i - 1], es[i])
    <3>1. i \in 1 .. n /\ i - 1 \in 0 .. n
      BY <2>1
    <3>2. <<i, g[i - 1]>> \in (1 .. n) \X C
      BY <3>1
    <3> QED BY <3>2
  <2> HIDE DEF h
  <2> QED BY <1>2, <2>1 DEF IsRecursionTo
<1>4. f = [i \in 0 .. n |-> IF i = 0 THEN c ELSE AddInequality(f[i - 1], es[i])]
  BY <1>3
<1>5. AddInequalities(c, es) = f[n]
  BY DEF AddInequalities
<1> HIDE DEF f, h
<1>6. f[0] = c /\ \A i \in 1 .. n : f[i] = AddInequality(f[i - 1], es[i])
  <2>1. 0 \in 0 .. n /\ \A i \in 1 .. n : i \in 0 .. n /\ i # 0
    BY <1>1
  <2> HIDE DEF n
  <2> QED BY <1>4, <2>1
<1> DEFINE T == {i \in 0 .. n : f[i] \in C}
<1>7. 0 \in T
  BY <1>1, <1>6
<1>8. ASSUME NEW i \in 1 .. n, i - 1 \in T
      PROVE  i \in T
  BY <1>1, <1>6, <1>8
<1>9. f \in [0 .. n -> C]
  <2> HIDE DEF n
  <2>1. 0 .. n \subseteq T
    <3> HIDE DEF T
    <3> QED BY <1>1, <1>7, <1>8, BoundedInduction
  <2> QED BY <1>4, <2>1
<1> QED BY <1>5, <1>6, <1>9 DEF InequalitiesUpTo

(* Adding equalities asks for all of them and changes nothing else.        *)
LEMMA AddEqualitiesMeans ==
  ASSUME NEW Decls, NEW Exps, \A e \in Exps : NormalizeForEquality(e) \in Exps,
         NEW c \in Conjs(Decls, Exps), NEW es \in Seq(Exps)
  PROVE  /\ AddEqualities(c, es) \in Conjs(Decls, Exps)
         /\ AddEqualities(c, es).decl = c.decl /\ AddEqualities(c, es).ineqs = c.ineqs
         /\ \A Z : RespectsEqual(Z, Exps) /\ RespectsNormal(Z, Exps) =>
              (AllIn(AddEqualities(c, es).eqs, Z) <=> AllIn(c.eqs, Z) /\ AllIn(es, Z))
<1> DEFINE n == Len(es)
           C == {x \in Conjs(Decls, Exps) : x.decl = c.decl /\ x.ineqs = c.ineqs}
<1>1. n \in Nat /\ n \in 0 .. n /\ \A i \in 1 .. n : es[i] \in Exps
  <2>1. n \in Nat /\ \A i \in 1 .. n : es[i] \in Exps
    BY ElementOfSeq
  <2> QED BY <2>1
<1>2. ASSUME NEW x \in C, NEW e \in Exps
      PROVE  /\ AddEquality(x, e) \in C
             /\ AddEquality(x, e).eqs = InsertExp(x.eqs, NormalizeForEquality(e))
             /\ \A Z : RespectsEqual(Z, Exps) /\ RespectsNormal(Z, Exps) =>
                  (AllIn(AddEquality(x, e).eqs, Z) <=> AllIn(x.eqs, Z) /\ e \in Z)
  <2> DEFINE q == NormalizeForEquality(e)
             r == InsertExp(x.eqs, q)
  <2>1. x.eqs \in Seq(Exps) /\ q \in Exps
    BY DEF Conjs
  <2> HIDE DEF q
  <2>2. r \in Seq(Exps) /\ \A Z : RespectsEqual(Z, Exps) => (AllIn(r, Z) <=> AllIn(x.eqs, Z) /\ q \in Z)
    BY <2>1, InsertExpMeans
  <2>3. AddEquality(x, e) = [x EXCEPT !.eqs = r]
    BY DEF AddEquality, q
  <2> HIDE DEF r
  <2>4. AddEquality(x, e) \in C /\ AddEquality(x, e).eqs = r
    BY <2>2, <2>3 DEF Conjs
  <2>5. \A Z : RespectsNormal(Z, Exps) => (q \in Z <=> e \in Z)
    BY DEF RespectsNormal, q
  <2> QED BY <2>2, <2>4, <2>5 DEF r, q
<1>3. PICK s \in [0 .. n -> C] : EqualitiesUpTo(s, c, es)
  <2>1. c \in C
    OBVIOUS
  <2>2. \A x \in C : \A i \in 1 .. n : AddEquality(x, es[i]) \in C
    BY <1>1, <1>2
  <2> HIDE DEF C
  <2> QED BY <1>1, <2>1, <2>2, AddEqualitiesSteps
<1>4. /\ s[0] = c /\ s[n] = AddEqualities(c, es)
      /\ \A i \in 1 .. n : s[i] = AddEquality(s[i - 1], es[i]) /\ s[i - 1] \in C
  BY <1>1, <1>3 DEF EqualitiesUpTo
<1>5. AddEqualities(c, es) \in C
  BY <1>1, <1>4
<1>6. ASSUME NEW Z, RespectsEqual(Z, Exps), RespectsNormal(Z, Exps)
      PROVE  AllIn(AddEqualities(c, es).eqs, Z) <=> AllIn(c.eqs, Z) /\ AllIn(es, Z)
  <2> DEFINE T == {i \in 0 .. n : AllIn(s[i].eqs, Z) <=> AllIn(c.eqs, Z) /\ \A j \in 1 .. i : es[j] \in Z}
  <2>1. 0 \in T
    BY <1>1, <1>4
  <2>2. ASSUME NEW i \in 1 .. n, i - 1 \in T
        PROVE  i \in T
    <3>1. AllIn(s[i - 1].eqs, Z) <=> AllIn(c.eqs, Z) /\ \A j \in 1 .. i - 1 : es[j] \in Z
      BY <2>2
    <3>2. AllIn(s[i].eqs, Z) <=> AllIn(s[i - 1].eqs, Z) /\ es[i] \in Z
      <4>1. s[i - 1] \in C /\ es[i] \in Exps /\ s[i] = AddEquality(s[i - 1], es[i])
        BY <1>1, <1>4
      <4> HIDE DEF C
      <4>2. AllIn(AddEquality(s[i - 1], es[i]).eqs, Z) <=> AllIn(s[i - 1].eqs, Z) /\ es[i] \in Z
        BY <1>2, <1>6, <4>1
      <4> QED BY <4>1, <4>2
    <3>3. (\A j \in 1 .. i : es[j] \in Z) <=> (\A j \in 1 .. i - 1 : es[j] \in Z) /\ es[i] \in Z
      <4>1. i \in 1 .. i /\ \A j \in 1 .. i : j = i \/ j \in 1 .. i - 1
        BY <1>1
      <4>2. \A j \in 1 .. i - 1 : j \in 1 .. i
        BY <1>1
      <4> QED BY <4>1, <4>2
    <3> QED BY <1>1, <3>1, <3>2, <3>3
  <2>3. 0 .. n \subseteq T
    <3> HIDE DEF T, n
    <3> QED BY <1>1, <2>1, <2>2, BoundedInduction
  <2>4. AllIn(s[n].eqs, Z) <=> AllIn(c.eqs, Z) /\ \A j \in 1 .. n : es[j] \in Z
    BY <1>1, <2>3
  <2> QED BY <1>4, <2>4 DEF AllIn
<1> QED BY <1>5, <1>6

(* Adding inequalities, likewise.                                          *)
LEMMA AddInequalitiesMeans ==
  ASSUME NEW Decls, NEW Exps, NEW c \in Conjs(Decls, Exps), NEW es \in Seq(Exps)
  PROVE  /\ AddInequalities(c, es) \in Conjs(Decls, Exps)
         /\ AddInequalities(c, es).decl = c.decl /\ AddInequalities(c, es).eqs = c.eqs
         /\ \A P : RespectsEqual(P, Exps) =>
              (AllIn(AddInequalities(c, es).ineqs, P) <=> AllIn(c.ineqs, P) /\ AllIn(es, P))
<1> DEFINE n == Len(es)
           C == {x \in Conjs(Decls, Exps) : x.decl = c.decl /\ x.eqs = c.eqs}
<1>1. n \in Nat /\ n \in 0 .. n /\ \A i \in 1 .. n : es[i] \in Exps
  <2>1. n \in Nat /\ \A i \in 1 .. n : es[i] \in Exps
    BY ElementOfSeq
  <2> QED BY <2>1
<1>2. ASSUME NEW x \in C, NEW e \in Exps
      PROVE  /\ AddInequality(x, e) \in C
             /\ \A P : RespectsEqual(P, Exps) =>
                  (AllIn(AddInequality(x, e).ineqs, P) <=> AllIn(x.ineqs, P) /\ e \in P)
  <2> DEFINE r == InsertExp(x.ineqs, e)
  <2>1. x.ineqs \in Seq(Exps)
    BY DEF Conjs
  <2>2. r \in Seq(Exps) /\ \A P : RespectsEqual(P, Exps) => (AllIn(r, P) <=> AllIn(x.ineqs, P) /\ e \in P)
    BY <2>1, InsertExpMeans
  <2>3. AddInequality(x, e) = [x EXCEPT !.ineqs = r]
    BY DEF AddInequality
  <2> HIDE DEF r
  <2>4. AddInequality(x, e) \in C /\ AddInequality(x, e).ineqs = r
    BY <2>2, <2>3 DEF Conjs
  <2> QED BY <2>2, <2>4
<1>3. PICK s \in [0 .. n -> C] : InequalitiesUpTo(s, c, es)
  <2>1. c \in C
    OBVIOUS
  <2>2. \A x \in C : \A i \in 1 .. n : AddInequality(x, es[i]) \in C
    BY <1>1, <1>2
  <2> HIDE DEF C
  <2> QED BY <1>1, <2>1, <2>2, AddInequalitiesSteps
<1>4. /\ s[0] = c /\ s[n] = AddInequalities(c, es)
      /\ \A i \in 1 .. n : s[i] = AddInequality(s[i - 1], es[i]) /\ s[i - 1] \in C
  BY <1>1, <1>3 DEF InequalitiesUpTo
<1>5. AddInequalities(c, es) \in C
  BY <1>1, <1>4
<1>6. ASSUME NEW P, RespectsEqual(P, Exps)
      PROVE  AllIn(AddInequalities(c, es).ineqs, P) <=> AllIn(c.ineqs, P) /\ AllIn(es, P)
  <2> DEFINE T == {i \in 0 .. n : AllIn(s[i].ineqs, P) <=> AllIn(c.ineqs, P) /\ \A j \in 1 .. i : es[j] \in P}
  <2>1. 0 \in T
    BY <1>1, <1>4
  <2>2. ASSUME NEW i \in 1 .. n, i - 1 \in T
        PROVE  i \in T
    <3>1. AllIn(s[i - 1].ineqs, P) <=> AllIn(c.ineqs, P) /\ \A j \in 1 .. i - 1 : es[j] \in P
      BY <2>2
    <3>2. AllIn(s[i].ineqs, P) <=> AllIn(s[i - 1].ineqs, P) /\ es[i] \in P
      <4>1. s[i - 1] \in C /\ es[i] \in Exps /\ s[i] = AddInequality(s[i - 1], es[i])
        BY <1>1, <1>4
      <4> HIDE DEF C
      <4>2. AllIn(AddInequality(s[i - 1], es[i]).ineqs, P) <=> AllIn(s[i - 1].ineqs, P) /\ es[i] \in P
        BY <1>2, <1>6, <4>1
      <4> QED BY <4>1, <4>2
    <3>3. (\A j \in 1 .. i : es[j] \in P) <=> (\A j \in 1 .. i - 1 : es[j] \in P) /\ es[i] \in P
      <4>1. i \in 1 .. i /\ \A j \in 1 .. i : j = i \/ j \in 1 .. i - 1
        BY <1>1
      <4>2. \A j \in 1 .. i - 1 : j \in 1 .. i
        BY <1>1
      <4> QED BY <4>1, <4>2
    <3> QED BY <1>1, <3>1, <3>2, <3>3
  <2>3. 0 .. n \subseteq T
    <3> HIDE DEF T, n
    <3> QED BY <1>1, <2>1, <2>2, BoundedInduction
  <2>4. AllIn(s[n].ineqs, P) <=> AllIn(c.ineqs, P) /\ \A j \in 1 .. n : es[j] \in P
    BY <1>1, <2>3
  <2> QED BY <1>4, <2>4 DEF AllIn
<1> QED BY <1>5, <1>6

(* Conjunction::Intersect and Restrict mean conjunction, except that the   *)
(* right operand's tuple declaration is not looked at: no constraint of    *)
(* either operand is lost, although zero and duplicates are dropped and    *)
(* the equalities are normalized.                                          *)
THEOREM IntersectConjMeans ==
  ASSUME NEW Decls, NEW Exps, \A e \in Exps : NormalizeForEquality(e) \in Exps,
         NEW c \in Conjs(Decls, Exps), NEW d \in Conjs(Decls, Exps)
  PROVE  /\ IntersectConj(c, d) \in Conjs(Decls, Exps) /\ IntersectConj(c, d).decl = c.decl
         /\ \A D, Z, P : TupleSees(Z, P, Exps) =>
              (Fits(IntersectConj(c, d), D, Z, P)
                 <=> Fits(c, D, Z, P) /\ AllIn(d.eqs, Z) /\ AllIn(d.ineqs, P))
<1> DEFINE b == AddEqualities(c, d.eqs)
           a == AddInequalities(b, d.ineqs)
<1>1. d.eqs \in Seq(Exps) /\ d.ineqs \in Seq(Exps)
  BY DEF Conjs
<1>2. /\ b \in Conjs(Decls, Exps) /\ b.decl = c.decl /\ b.ineqs = c.ineqs
      /\ \A Z : RespectsEqual(Z, Exps) /\ RespectsNormal(Z, Exps) =>
           (AllIn(b.eqs, Z) <=> AllIn(c.eqs, Z) /\ AllIn(d.eqs, Z))
  BY <1>1, AddEqualitiesMeans
<1> HIDE DEF b
<1>3. /\ a \in Conjs(Decls, Exps) /\ a.decl = b.decl /\ a.eqs = b.eqs
      /\ \A P : RespectsEqual(P, Exps) =>
           (AllIn(a.ineqs, P) <=> AllIn(b.ineqs, P) /\ AllIn(d.ineqs, P))
  BY <1>1, <1>2, AddInequalitiesMeans
<1>4. IntersectConj(c, d) = a
  BY DEF IntersectConj, b
<1> HIDE DEF a
<1> QED BY <1>2, <1>3, <1>4 DEF Fits, TupleSees
-----------------------------------------------------------------------------
Elems == {Var} \cup {Const(v) : v \in Int}

(* Two different lists of one length have a first difference.              *)
LEMMA FirstDifference ==
  ASSUME NEW S, NEW s \in Seq(S), NEW t \in Seq(S), Len(s) = Len(t), s # t
  PROVE  \E i \in 1 .. Len(s) : s[i] # t[i] /\ \A j \in 1 .. i - 1 : s[j] = t[j]
<1> DEFINE n == Len(s)
           T == {i \in 1 .. n : s[i] # t[i]}
<1>1. T \subseteq Nat /\ n \in Nat
  OBVIOUS
<1>2. T # {}
  OBVIOUS
<1>3. PICK i \in T : \A j \in T : i <= j
  <2> HIDE DEF T
  <2> QED BY <1>1, <1>2, LeastNatural
<1>4. ASSUME NEW j \in 1 .. i - 1
      PROVE  s[j] = t[j]
  <2>1. j \in 1 .. n /\ ~ (i <= j)
    BY <1>1, <1>3
  <2> QED BY <1>3, <2>1
<1> QED BY <1>3, <1>4

LEMMA ElemLessTotal ==
  ASSUME NEW a \in Elems, NEW b \in Elems, a # b
  PROVE  ElemLess(a, b) \/ ElemLess(b, a)
<1>1. Var.isConst = FALSE /\ \A v \in Int : Const(v).isConst = TRUE /\ Const(v).val = v
  BY DEF Var, Const
<1>2. (a = Var \/ \E v \in Int : a = Const(v)) /\ (b = Var \/ \E v \in Int : b = Const(v))
  BY DEF Elems
<1>3. CASE a = Var
  <2>1. PICK v \in Int : b = Const(v)
    BY <1>2, <1>3
  <2> QED BY <1>1, <1>3, <2>1 DEF ElemLess
<1>4. CASE b = Var
  <2>1. PICK v \in Int : a = Const(v)
    BY <1>2, <1>4
  <2> QED BY <1>1, <1>4, <2>1 DEF ElemLess
<1>5. CASE a # Var /\ b # Var
  <2>1. PICK v \in Int, w \in Int : a = Const(v) /\ b = Const(w)
    BY <1>2, <1>5
  <2>2. v < w \/ w < v
    <3>1. v # w
      BY <2>1
    <3> QED BY <3>1
  <2> QED BY <1>1, <2>1, <2>2 DEF ElemLess
<1> QED BY <1>3, <1>4, <1>5

LEMMA DeclLessTotal ==
  ASSUME NEW d \in Seq(Elems), NEW e \in Seq(Elems), ~ DeclLess(d, e), ~ DeclLess(e, d)
  PROVE  d = e
<1> SUFFICES ASSUME d # e
             PROVE  FALSE
  OBVIOUS
<1>1. Len(d) = Len(e) /\ Len(d) \in Nat /\ DOMAIN d = 1 .. Len(d) /\ DOMAIN e = 1 .. Len(d)
  <2>1. Len(d) \in Nat /\ Len(e) \in Nat /\ ~ (Len(d) < Len(e)) /\ ~ (Len(e) < Len(d))
    BY DEF DeclLess
  <2> QED BY <2>1
<1>2. PICK i \in 1 .. Len(d) : d[i] # e[i] /\ \A j \in 1 .. i - 1 : d[j] = e[j]
  BY <1>1, FirstDifference
<1>3. d[i] \in Elems /\ e[i] \in Elems
  BY <1>1, <1>2, ElementOfSeq
<1>4. ElemLess(d[i], e[i]) \/ ElemLess(e[i], d[i])
  BY <1>2, <1>3, ElemLessTotal
<1> QED BY <1>1, <1>2, <1>4 DEF DeclLess

LEMMA ExpsLessTotal ==
  ASSUME NEW Exps, OrdersExps(Exps), NEW s \in Seq(Exps), NEW t \in Seq(Exps),
         Len(s) = Len(t), ~ ExpsLess(s, t), ~ ExpsLess(t, s)
  PROVE  s = t
<1> SUFFICES ASSUME s # t
             PROVE  FALSE
  OBVIOUS
<1>1. Len(s) \in Nat /\ DOMAIN s = 1 .. Len(s) /\ DOMAIN t = 1 .. Len(s)
  OBVIOUS
<1>2. PICK i \in 1 .. Len(s) : s[i] # t[i] /\ \A j \in 1 .. i - 1 : s[j] = t[j]
  BY FirstDifference
<1>3. \A j \in 1 .. Len(s) : s[j] \in Exps /\ t[j] \in Exps
  BY ElementOfSeq
<1>4. ExpLess(s[i], t[i]) \/ ExpLess(t[i], s[i])
  BY <1>2, <1>3 DEF OrdersExps
<1>5. \A j \in 1 .. i - 1 : ExpEqual(s[j], t[j]) /\ ExpEqual(t[j], s[j])
  <2>1. \A j \in 1 .. i - 1 : j \in 1 .. Len(s)
    BY <1>1, <1>2
  <2> QED BY <1>2, <1>3, <2>1 DEF OrdersExps
<1> QED BY <1>1, <1>2, <1>4, <1>5 DEF ExpsLess

(* addConjunction calls two conjunctions duplicates when neither is less:  *)
(* then they are the same declaration and the same constraints.            *)
THEOREM DuplicatesAreEqual ==
  ASSUME NEW Exps, OrdersExps(Exps), NEW c \in Conjs(Seq(Elems), Exps),
         NEW d \in Conjs(Seq(Elems), Exps), ~ ConjLess(c, d), ~ ConjLess(d, c)
  PROVE  c.decl = d.decl /\ c.eqs = d.eqs /\ c.ineqs = d.ineqs
<1>1. /\ c.decl \in Seq(Elems) /\ c.eqs \in Seq(Exps) /\ c.ineqs \in Seq(Exps)
      /\ d.decl \in Seq(Elems) /\ d.eqs \in Seq(Exps) /\ d.ineqs \in Seq(Exps)
  BY DEF Conjs
<1>2. c.decl = d.decl
  <2>1. ~ DeclLess(c.decl, d.decl) /\ ~ DeclLess(d.decl, c.decl)
    BY DEF ConjLess
  <2> QED BY <1>1, <2>1, DeclLessTotal
<1>3. /\ ~ (Len(c.eqs) < Len(d.eqs)) /\ ~ (Len(d.eqs) < Len(c.eqs))
      /\ Len(c.eqs) \in Nat /\ Len(d.eqs) \in Nat
  BY <1>1, <1>2 DEF ConjLess
<1>4. Len(c.eqs) = Len(d.eqs)
  BY <1>3
<1>5. /\ ~ (Len(c.ineqs) < Len(d.ineqs)) /\ ~ (Len(d.ineqs) < Len(c.ineqs))
      /\ Len(c.ineqs) \in Nat /\ Len(d.ineqs) \in Nat
  BY <1>1, <1>2, <1>4 DEF ConjLess
<1>6. Len(c.ineqs) = Len(d.ineqs)
  BY <1>5
<1>7. ~ ExpsLess(c.eqs, d.eqs) /\ ~ ExpsLess(d.eqs, c.eqs)
  BY <1>2, <1>4, <1>6 DEF ConjLess
<1>8. c.eqs = d.eqs
  BY <1>1, <1>4, <1>7, ExpsLessTotal
<1>9. ~ ExpsLess(c.ineqs, d.ineqs) /\ ~ ExpsLess(d.ineqs, c.ineqs)
  BY <1>2, <1>4, <1>6, <1>8 DEF ConjLess
<1> QED BY <1>1, <1>2, <1>6, <1>8, <1>9, ExpsLessTotal
-----------------------------------------------------------------------------
(* What addConjunction takes for a new object's list: empty, or a lone     *)
(* conjunction without constraints.                                        *)
Blank(cs) == cs = <<>> \/ (Len(cs) = 1 /\ ~ HasConstraints(cs[1]))

LEMMA AddToBlank ==
  ASSUME NEW cs, NEW c, Blank(cs)
  PROVE  AddConjunction(cs, c) = <<c>>
<1> DEFINE kept == IF Len(cs) = 1 /\ ~ HasConstraints(cs[1]) THEN <<>> ELSE cs
<1>1. kept = <<>>
  BY DEF Blank
<1>2. {i \in DOMAIN kept : ~ ConjLess(kept[i], c)} = {}
  BY <1>1
<1>3. AddConjunction(cs, c) = Append(kept, c)
  BY <1>2 DEF AddConjunction
<1> HIDE DEF kept
<1> QED BY <1>1, <1>3

(* Adding a conjunction to the list of a Set or Relation, not blank, means *)
(* union: a duplicate can be dropped.                                      *)
LEMMA AddConjunctionMeans ==
  ASSUME NEW Exps, OrdersExps(Exps), NEW S, S \subseteq Conjs(Seq(Elems), Exps),
         NEW cs \in Seq(S), NEW c \in S, ~ Blank(cs)
  PROVE  /\ AddConjunction(cs, c) \in Seq(S) /\ AddConjunction(cs, c) # <<>>
         /\ \A D, Z, P : Has(AddConjunction(cs, c), D, Z, P)
                           <=> Has(cs, D, Z, P) \/ Fits(c, D, Z, P)
<1> DEFINE stops == {i \in DOMAIN cs : ~ ConjLess(cs[i], c)}
           m == Min(stops)
           n == Len(cs)
<1>1. n \in Nat /\ DOMAIN cs = 1 .. n /\ \A i \in 1 .. n : cs[i] \in S
  BY ElementOfSeq
<1>2. (IF Len(cs) = 1 /\ ~ HasConstraints(cs[1]) THEN <<>> ELSE cs) = cs
  BY DEF Blank
<1>3. ASSUME NEW r, Adds(r, cs, c), NEW D, NEW Z, NEW P
      PROVE  Has(r, D, Z, P) <=> Has(cs, D, Z, P) \/ Fits(c, D, Z, P)
  BY <1>3 DEF Adds, Has
<1>4. CASE stops = {}
  <2>1. AddConjunction(cs, c) = Append(cs, c)
    BY <1>2, <1>4 DEF AddConjunction
  <2>2. Append(cs, c) \in Seq(S) /\ Adds(Append(cs, c), cs, c) /\ Append(cs, c) # <<>>
    BY AppendAdds
  <2> QED BY <1>3, <2>1, <2>2
<1>5. CASE stops # {}
  <2>1. m \in stops /\ m \in 1 .. n
    <3>1. stops \subseteq 1 .. n
      BY <1>1
    <3> HIDE DEF stops
    <3>2. m \in stops
      BY <1>1, <1>5, <3>1, MinIs
    <3> QED BY <3>1, <3>2
  <2>2. AddConjunction(cs, c) = IF ConjLess(c, cs[m]) THEN InsertAt(cs, m, c) ELSE cs
    BY <1>2, <1>5 DEF AddConjunction
  <2>3. ~ ConjLess(cs[m], c)
    BY <2>1
  <2> HIDE DEF m, stops
  <2>4. CASE ConjLess(c, cs[m])
    <3>1. AddConjunction(cs, c) = InsertAt(cs, m, c)
      BY <2>2, <2>4
    <3>2. /\ InsertAt(cs, m, c) \in Seq(S) /\ Adds(InsertAt(cs, m, c), cs, c)
          /\ Len(InsertAt(cs, m, c)) = n + 1
      BY <2>1, InsertAtAdds
    <3>3. InsertAt(cs, m, c) # <<>>
      BY <1>1, <3>2
    <3> QED BY <1>3, <3>1, <3>2, <3>3
  <2>5. CASE ~ ConjLess(c, cs[m])
    <3>1. AddConjunction(cs, c) = cs /\ cs # <<>>
      BY <2>2, <2>5 DEF Blank
    <3>2. cs[m].decl = c.decl /\ cs[m].eqs = c.eqs /\ cs[m].ineqs = c.ineqs
      <4>1. cs[m] \in Conjs(Seq(Elems), Exps) /\ c \in Conjs(Seq(Elems), Exps)
        BY <1>1, <2>1
      <4> QED BY <2>3, <2>5, <4>1, DuplicatesAreEqual
    <3>3. \A D, Z, P : Fits(c, D, Z, P) => Has(cs, D, Z, P)
      BY <2>1, <3>2 DEF Fits, Has
    <3> QED BY <3>1, <3>3
  <2> QED BY <2>4, <2>5
<1> QED BY <1>4, <1>5

(* The lists that adding the conjunctions cs one by one passes through.    *)
ConjunctionsUpTo(s, list, cs) ==
  /\ s[0] = list /\ s[Len(cs)] = AddAll(list, cs)
  /\ \A i \in 1 .. Len(cs) : s[i] = AddConjunction(s[i - 1], cs[i])

LEMMA AddAllSteps ==
  ASSUME NEW C, NEW list \in C, NEW cs, Len(cs) \in Nat,
         \A x \in C : \A i \in 1 .. Len(cs) : AddConjunction(x, cs[i]) \in C
  PROVE  \E s \in [0 .. Len(cs) -> C] : ConjunctionsUpTo(s, list, cs)
<1> DEFINE n == Len(cs)
           h == [x \in (1 .. n) \X C |-> AddConjunction(x[2], cs[x[1]])]
           f == CHOOSE g : g = [i \in 0 .. n |-> IF i = 0 THEN list ELSE AddConjunction(g[i - 1], cs[i])]
<1>1. h \in [(1 .. n) \X C -> C] /\ n \in Nat
  OBVIOUS
<1>2. PICK g \in [0 .. n -> C] : IsRecursionTo(g, n, list, h)
  <2> HIDE DEF h, n
  <2> QED BY <1>1, BoundedRecursion
<1>3. g = [i \in 0 .. n |-> IF i = 0 THEN list ELSE AddConjunction(g[i - 1], cs[i])]
  <2>1. ASSUME NEW i \in 0 .. n, i # 0
        PROVE  h[<<i, g[i - 1]>>] = AddConjunction(g[i - 1], cs[i])
    <3>1. i \in 1 .. n /\ i - 1 \in 0 .. n
      BY <2>1
    <3>2. <<i, g[i - 1]>> \in (1 .. n) \X C
      BY <3>1
    <3> QED BY <3>2
  <2> HIDE DEF h
  <2> QED BY <1>2, <2>1 DEF IsRecursionTo
<1>4. f = [i \in 0 .. n |-> IF i = 0 THEN list ELSE AddConjunction(f[i - 1], cs[i])]
  BY <1>3
<1>5. AddAll(list, cs) = f[n]
  BY DEF AddAll
<1> HIDE DEF f, h
<1>6. f[0] = list /\ \A i \in 1 .. n : f[i] = AddConjunction(f[i - 1], cs[i])
  <2>1. 0 \in 0 .. n /\ \A i \in 1 .. n : i \in 0 .. n /\ i # 0
    BY <1>1
  <2> HIDE DEF n
  <2> QED BY <1>4, <2>1
<1> DEFINE T == {i \in 0 .. n : f[i] \in C}
<1>7. 0 \in T
  BY <1>1, <1>6
<1>8. ASSUME NEW i \in 1 .. n, i - 1 \in T
      PROVE  i \in T
  BY <1>1, <1>6, <1>8
<1>9. f \in [0 .. n -> C]
  <2> HIDE DEF n
  <2>1. 0 .. n \subseteq T
    <3> HIDE DEF T
    <3> QED BY <1>1, <1>7, <1>8, BoundedInduction
  <2> QED BY <1>4, <2>1
<1> QED BY <1>5, <1>6, <1>9 DEF ConjunctionsUpTo

(* None of the conjunctions handed to addConjunction can be taken for the  *)
(* placeholder while another one follows it.                               *)
Unmistakable(cs) == Len(cs) > 1 => \A i \in 1 .. Len(cs) : HasConstraints(cs[i])

(* Adding conjunctions to a blank list means their union.                  *)
LEMMA AddAllMeans ==
  ASSUME NEW Exps, OrdersExps(Exps), NEW cs \in Seq(Conjs(Seq(Elems), Exps)), Unmistakable(cs),
         NEW list \in Seq(Conjs(Seq(Elems), Exps)), Blank(list), cs = <<>> => list = <<>>
  PROVE  /\ AddAll(list, cs) \in Seq(Conjs(Seq(Elems), Exps))
         /\ \A D, Z, P : Has(AddAll(list, cs), D, Z, P) <=> Has(cs, D, Z, P)
<1> DEFINE n == Len(cs)
           C == Conjs(Seq(Elems), Exps)
           S == {x \in C : n > 1 => HasConstraints(x)}
<1>1. n \in Nat /\ n \in 0 .. n /\ \A i \in 1 .. n : cs[i] \in C
  <2>1. n \in Nat /\ \A i \in 1 .. n : cs[i] \in C
    BY ElementOfSeq
  <2> QED BY <2>1
<1>2. \A i \in 1 .. n : cs[i] \in S
  BY <1>1 DEF Unmistakable
<1>3. ASSUME NEW x \in Seq(C), NEW c \in C
      PROVE  AddConjunction(x, c) \in Seq(C)
  <2> HIDE DEF C
  <2>1. CASE Blank(x)
    <3>1. AddConjunction(x, c) = <<c>>
      BY <2>1, AddToBlank
    <3> QED BY <3>1
  <2>2. CASE ~ Blank(x)
    BY <2>2, AddConjunctionMeans DEF C
  <2> QED BY <2>1, <2>2
<1>4. PICK s \in [0 .. n -> Seq(C)] : ConjunctionsUpTo(s, list, cs)
  <2>1. \A x \in Seq(C) : \A i \in 1 .. n : AddConjunction(x, cs[i]) \in Seq(C)
    BY <1>1, <1>3
  <2>2. list \in Seq(C)
    OBVIOUS
  <2> HIDE DEF C
  <2> QED BY <1>1, <2>1, <2>2, AddAllSteps
<1>5. /\ s[0] = list /\ s[n] = AddAll(list, cs)
      /\ \A i \in 1 .. n : s[i] = AddConjunction(s[i - 1], cs[i])
  BY <1>4 DEF ConjunctionsUpTo
<1> DEFINE Means(i) == \A D, Z, P : Has(s[i], D, Z, P) <=> \E j \in 1 .. i : Fits(cs[j], D, Z, P)
           T == {i \in 0 .. n : i = 0 \/ (s[i] \in Seq(S) /\ s[i] # <<>> /\ Means(i))}
<1>6. ASSUME NEW i \in 1 .. n, i - 1 \in T
      PROVE  s[i] \in Seq(S) /\ s[i] # <<>> /\ Means(i)
  <2>1. CASE i = 1
    <3>1. i - 1 = 0 /\ s[i] = AddConjunction(s[0], cs[1])
      BY <1>5, <2>1
    <3>2. s[i] = <<cs[1]>>
      BY <1>5, <3>1, AddToBlank
    <3>3. Len(s[i]) = 1 /\ s[i][1] = cs[1] /\ cs[1] \in S /\ 1 \in 1 .. 1 /\ \A j \in 1 .. 1 : j = 1
      BY <1>2, <2>1, <3>2
    <3>4. s[i] \in Seq(S) /\ s[i] # <<>>
      <4> HIDE DEF S
      <4> QED BY <3>2, <3>3
    <3>5. Means(i)
      BY <2>1, <3>3 DEF Has
    <3> QED BY <3>4, <3>5
  <2>2. CASE i # 1
    <3>1. n > 1 /\ i - 1 # 0
      BY <1>1, <2>2
    <3>2. s[i - 1] \in Seq(S) /\ s[i - 1] # <<>> /\ Means(i - 1)
      BY <1>6, <3>1
    <3>3. ~ Blank(s[i - 1])
      <4>1. ASSUME Len(s[i - 1]) = 1
            PROVE  HasConstraints(s[i - 1][1])
        <5>1. s[i - 1][1] \in S
          BY <3>2, <4>1, ElementOfSeq
        <5> QED BY <3>1, <5>1
      <4> QED BY <3>2, <4>1 DEF Blank
    <3>4. S \subseteq C /\ cs[i] \in S
      BY <1>2
    <3>5. s[i] = AddConjunction(s[i - 1], cs[i])
      BY <1>5
    <3> HIDE DEF S, Means
    <3>6. /\ s[i] \in Seq(S) /\ s[i] # <<>>
          /\ \A D, Z, P : Has(s[i], D, Z, P) <=> Has(s[i - 1], D, Z, P) \/ Fits(cs[i], D, Z, P)
      <4> DEFINE p == s[i - 1]
                 r == AddConjunction(p, cs[i])
      <4>1. p \in Seq(S) /\ ~ Blank(p) /\ S \subseteq Conjs(Seq(Elems), Exps) /\ cs[i] \in S
        BY <3>2, <3>3, <3>4
      <4> HIDE DEF p
      <4>2. /\ r \in Seq(S) /\ r # <<>>
            /\ \A D, Z, P : Has(r, D, Z, P) <=> Has(p, D, Z, P) \/ Fits(cs[i], D, Z, P)
        BY <4>1, AddConjunctionMeans
      <4> QED BY <3>5, <4>2 DEF p
    <3>7. i \in 1 .. i /\ (\A j \in 1 .. i : j = i \/ j \in 1 .. i - 1) /\ \A j \in 1 .. i - 1 : j \in 1 .. i
      BY <1>1
    <3>8. Means(i)
      <4>1. ASSUME NEW D, NEW Z, NEW P
            PROVE  (\E j \in 1 .. i : Fits(cs[j], D, Z, P))
                     <=> (\E j \in 1 .. i - 1 : Fits(cs[j], D, Z, P)) \/ Fits(cs[i], D, Z, P)
        BY <3>7
      <4> QED BY <3>2, <3>6, <4>1 DEF Means
    <3> QED BY <3>6, <3>8
  <2> QED BY <2>1, <2>2
<1>7. 0 .. n \subseteq T
  <2>1. 0 \in T
    BY <1>1
  <2>2. \A i \in 1 .. n : i - 1 \in T => i \in T
    <3>1. \A i \in 1 .. n : i \in 0 .. n
      BY <1>1
    <3> HIDE DEF Means, S, n
    <3> QED BY <1>6, <3>1
  <2> HIDE DEF T, n
  <2> QED BY <1>1, <2>1, <2>2, BoundedInduction
<1>8. AddAll(list, cs) \in Seq(C)
  BY <1>1, <1>4, <1>5
<1>9. CASE n = 0
  <2>1. cs = <<>> /\ list = <<>>
    BY <1>9
  <2>2. AddAll(list, cs) = cs
    BY <1>5, <1>9, <2>1
  <2> QED BY <1>8, <2>2
<1>10. CASE n # 0
  <2>1. Means(n)
    BY <1>1, <1>7, <1>10
  <2> QED BY <1>5, <1>8, <2>1 DEF Has
<1> QED BY <1>9, <1>10
-----------------------------------------------------------------------------
(* The two loops over the conjunctions of two objects: pair n of a * b is  *)
(* element (n - 1) \div b + 1 of the one and (n - 1) % b + 1 of the other. *)
IsPair(n, b, i, j) == ((n - 1) \div b) + 1 = i /\ ((n - 1) % b) + 1 = j

LEMMA PairAt ==
  ASSUME NEW a \in Nat, NEW b \in Nat, NEW i \in 1 .. a, NEW j \in 1 .. b
  PROVE  \E n \in 1 .. a * b : IsPair(n, b, i, j)
<1> DEFINE n == b * (i - 1) + j
           x == n - 1
           q == x \div b
           m == x % b
<1>1. b * (i - 1) \in Nat /\ b * (i - 1) <= b * (a - 1) /\ b * (a - 1) = a * b - b /\ a * b \in Nat
  <2>1. i - 1 \in Nat /\ a - 1 \in Nat /\ i - 1 <= a - 1
    OBVIOUS
  <2>2. \A u, v \in Nat : u <= v => b * u <= b * v /\ b * u \in Nat
    OBVIOUS
  <2> QED BY <2>1, <2>2
<1>2. n \in 1 .. a * b
  BY <1>1
<1>3. x \in Nat /\ x = b * (i - 1) + (j - 1) /\ b # 0
  BY <1>1
<1> HIDE DEF x, n
<1>4. q \in Int /\ m \in Int /\ 0 <= m /\ m < b /\ x = b * q + m
  BY <1>3
<1> HIDE DEF q, m
<1>5. b * (q - (i - 1)) = b * q - b * (i - 1) /\ q - (i - 1) \in Int
  BY <1>4
<1>6. b * (q - (i - 1)) = (j - 1) - m
  BY <1>1, <1>3, <1>4, <1>5
<1>7. \A k \in Int : (k >= 1 => b * k >= b) /\ (k <= -1 => b * k <= -b)
  BY <1>3
<1>8. ~ (q - (i - 1) >= 1) /\ ~ (q - (i - 1) <= -1)
  BY <1>4, <1>5, <1>6, <1>7
<1>9. q = i - 1
  BY <1>4, <1>5, <1>8
<1>10. m = j - 1
  BY <1>3, <1>4, <1>9
<1>11. q + 1 = i /\ m + 1 = j
  BY <1>9, <1>10
<1> QED BY <1>2, <1>11 DEF q, m, x, IsPair

LEMMA PairOf ==
  ASSUME NEW a \in Nat, NEW b \in Nat, NEW n \in 1 .. a * b
  PROVE  ((n - 1) \div b) + 1 \in 1 .. a /\ ((n - 1) % b) + 1 \in 1 .. b
<1> DEFINE x == n - 1
           q == x \div b
           m == x % b
<1>1. a * b \in Nat /\ (b = 0 => a * b = 0)
  OBVIOUS
<1>2. b # 0 /\ x \in Nat /\ x < a * b
  BY <1>1
<1> HIDE DEF x
<1>3. q \in Int /\ m \in Int /\ 0 <= m /\ m < b /\ x = b * q + m
  BY <1>2
<1> HIDE DEF q, m
<1>4. \A k \in Int : k <= -1 => b * k <= -b
  BY <1>2
<1>5. \A k \in Int : k >= a => b * k >= a * b
  <2>1. ASSUME NEW k \in Int, k >= a
        PROVE  b * k >= a * b
    <3>1. b * (k - a) = b * k - a * b /\ k - a \in Nat
      BY <2>1
    <3>2. b * (k - a) >= 0
      BY <3>1
    <3>3. b * k \in Int
      OBVIOUS
    <3> QED BY <1>1, <3>1, <3>2, <3>3
  <2> QED BY <2>1
<1>6. b * q \in Int
  BY <1>3
<1>7. ~ (q <= -1) /\ ~ (q >= a)
  BY <1>1, <1>2, <1>3, <1>4, <1>5, <1>6
<1>8. q + 1 \in 1 .. a /\ m + 1 \in 1 .. b
  BY <1>3, <1>7
<1> QED BY <1>8 DEF q, m, x

(* Sets and Relations: no two of their parts need agree for what follows.  *)
Objects(Exps) == [kind : {"set", "rel"}, in : Nat, out : Nat, conjs : Seq(Conjs(Seq(Elems), Exps))]

(* What both loops hand to addConjunction: the conjunctions that a tuple   *)
(* fits are those of a pair of which it fits both, provided it fits the    *)
(* right operand's declarations.                                           *)
LEMMA IntersectPairsMean ==
  ASSUME NEW Exps, \A e \in Exps : NormalizeForEquality(e) \in Exps,
         NEW o \in Objects(Exps), NEW r \in Objects(Exps)
  PROVE  /\ IntersectPairs(Pairs(o, r)) \in Seq(Conjs(Seq(Elems), Exps))
         /\ IntersectPairs(Pairs(o, r)) = <<>> <=> o.conjs = <<>> \/ r.conjs = <<>>
         /\ \A D, E, Z, P :
              /\ TupleSees(Z, P, Exps)
              /\ \A j \in 1 .. Len(r.conjs) : r.conjs[j].decl \in E
              => (Has(IntersectPairs(Pairs(o, r)), D, Z, P)
                    <=> Has(o.conjs, D, Z, P) /\ Has(r.conjs, E, Z, P))
<1> DEFINE C == Conjs(Seq(Elems), Exps)
           a == Len(o.conjs)
           b == Len(r.conjs)
           ps == Pairs(o, r)
           ms == IntersectPairs(ps)
<1>1. o.conjs \in Seq(C) /\ r.conjs \in Seq(C)
  BY DEF Objects
<1>2. /\ a \in Nat /\ b \in Nat /\ a * b \in Nat
      /\ \A i \in 1 .. a : o.conjs[i] \in C
      /\ \A j \in 1 .. b : r.conjs[j] \in C
  <2>1. a \in Nat /\ b \in Nat
    BY <1>1
  <2>2. (\A i \in 1 .. a : o.conjs[i] \in C) /\ (\A j \in 1 .. b : r.conjs[j] \in C)
    <3> HIDE DEF C
    <3> QED BY <1>1, ElementOfSeq
  <2> HIDE DEF a, b, C
  <2>3. a * b \in Nat
    BY <2>1
  <2> QED BY <2>1, <2>2, <2>3
<1> DEFINE left(n) == ((n - 1) \div b) + 1
           right(n) == ((n - 1) % b) + 1
<1>3. ASSUME NEW n \in 1 .. a * b
      PROVE  /\ left(n) \in 1 .. a /\ right(n) \in 1 .. b
             /\ ms[n] = IntersectConj(o.conjs[left(n)], r.conjs[right(n)])
  <2>1. left(n) \in 1 .. a /\ right(n) \in 1 .. b
    <3> HIDE DEF a, b
    <3> QED BY <1>2, PairOf
  <2>2. ps[n] = <<o.conjs[left(n)], r.conjs[right(n)]>> /\ DOMAIN ps = 1 .. a * b
    BY DEF Pairs
  <2> HIDE DEF ps, left, right
  <2>3. ms[n] = IntersectConj(ps[n][1], ps[n][2])
    BY <2>2 DEF IntersectPairs
  <2> QED BY <2>1, <2>2, <2>3
<1>4. DOMAIN ms = 1 .. a * b
  BY DEF IntersectPairs, Pairs
<1>5. ASSUME NEW c \in C, NEW d \in C
      PROVE  /\ IntersectConj(c, d) \in C
             /\ \A D, Z, P : TupleSees(Z, P, Exps) =>
                  (Fits(IntersectConj(c, d), D, Z, P)
                     <=> Fits(c, D, Z, P) /\ AllIn(d.eqs, Z) /\ AllIn(d.ineqs, P))
  BY IntersectConjMeans
<1>6. ms = [n \in 1 .. a * b |-> ms[n]]
  BY <1>4 DEF IntersectPairs
<1> HIDE DEF C, a, b, ps, ms, left, right
<1>7. \A n \in 1 .. a * b : ms[n] \in C
  <2>1. ASSUME NEW n \in 1 .. a * b
        PROVE  ms[n] \in C
    <3>1. o.conjs[left(n)] \in C /\ r.conjs[right(n)] \in C
      BY <1>2, <1>3
    <3> QED BY <1>3, <1>5, <3>1
  <2> QED BY <2>1
<1>8. ms \in Seq(C) /\ Len(ms) = a * b
  BY <1>2, <1>6, <1>7
<1>9. ms = <<>> <=> a * b = 0
  BY <1>2, <1>8
<1>10. (o.conjs = <<>> <=> a = 0) /\ (r.conjs = <<>> <=> b = 0)
  BY <1>1 DEF a, b
<1>11. a * b = 0 <=> a = 0 \/ b = 0
  BY <1>2
<1>12. ASSUME NEW D, NEW E, NEW Z, NEW P, TupleSees(Z, P, Exps),
              \A j \in 1 .. b : r.conjs[j].decl \in E
       PROVE  Has(ms, D, Z, P) <=> Has(o.conjs, D, Z, P) /\ Has(r.conjs, E, Z, P)
  <2>1. ASSUME NEW i \in 1 .. a, NEW j \in 1 .. b
        PROVE  Fits(IntersectConj(o.conjs[i], r.conjs[j]), D, Z, P)
                 <=> Fits(o.conjs[i], D, Z, P) /\ Fits(r.conjs[j], E, Z, P)
    <3>1. o.conjs[i] \in C /\ r.conjs[j] \in C /\ r.conjs[j].decl \in E
      BY <1>2, <1>12
    <3>2. Fits(r.conjs[j], E, Z, P) <=> AllIn(r.conjs[j].eqs, Z) /\ AllIn(r.conjs[j].ineqs, P)
      BY <3>1 DEF Fits
    <3> QED BY <1>5, <1>12, <3>1, <3>2
  <2>2. ASSUME Has(ms, D, Z, P)
        PROVE  Has(o.conjs, D, Z, P) /\ Has(r.conjs, E, Z, P)
    <3>1. PICK n \in 1 .. a * b : Fits(ms[n], D, Z, P)
      BY <1>8, <2>2 DEF Has
    <3>2. Fits(o.conjs[left(n)], D, Z, P) /\ Fits(r.conjs[right(n)], E, Z, P)
      BY <1>3, <2>1, <3>1
    <3> QED BY <1>3, <3>2 DEF Has, a, b
  <2>3. ASSUME Has(o.conjs, D, Z, P), Has(r.conjs, E, Z, P)
        PROVE  Has(ms, D, Z, P)
    <3>1. PICK i \in 1 .. a : Fits(o.conjs[i], D, Z, P)
      BY <2>3 DEF Has, a
    <3>2. PICK j \in 1 .. b : Fits(r.conjs[j], E, Z, P)
      BY <2>3 DEF Has, b
    <3>3. PICK n \in 1 .. a * b : left(n) = i /\ right(n) = j
      <4>1. a \in Nat /\ b \in Nat
        BY <1>2
      <4>2. \E n \in 1 .. a * b : IsPair(n, b, i, j)
        BY <4>1, PairAt
      <4> QED BY <4>2 DEF left, right, IsPair
    <3>4. Fits(ms[n], D, Z, P)
      BY <1>3, <2>1, <3>1, <3>2, <3>3
    <3> QED BY <1>8, <3>4 DEF Has
  <2> QED BY <2>2, <2>3
<1> QED BY <1>8, <1>9, <1>10, <1>11, <1>12 DEF C, a, b, ms, ps

LEMMA ConcatIs ==
  ASSUME NEW S, NEW s \in Seq(S), NEW t \in Seq(S)
  PROVE  /\ \A i \in 1 .. Len(s) : (s \o t)[i] = s[i]
         /\ \A j \in 1 .. Len(t) : (s \o t)[Len(s) + j] = t[j]
<1>1. \A i \in 1 .. Len(s) : (s \o t)[i] = s[i]
  OBVIOUS
<1>2. \A j \in 1 .. Len(t) : (s \o t)[Len(s) + j] = t[j]
  OBVIOUS
<1> QED BY <1>1, <1>2

(* Set::Union and Relation::Union: the result has exactly the tuples of    *)
(* the two operands, although duplicates are dropped by comparing lists,   *)
(* unless a conjunction without constraints is taken for a placeholder.    *)
THEOREM UnionMeans ==
  ASSUME NEW Exps, OrdersExps(Exps), NEW o \in Objects(Exps), NEW r \in Objects(Exps),
         SameArity(o, r), Unmistakable(o.conjs \o r.conjs)
  PROVE  /\ UnionOf(o, r).ret = "obj" /\ UnionOf(o, r).val \in Objects(Exps)
         /\ SameArity(UnionOf(o, r).val, o) /\ UnionOf(o, r).val.kind = o.kind
         /\ \A D, Z, P : Has(UnionOf(o, r).val.conjs, D, Z, P)
                           <=> Has(o.conjs, D, Z, P) \/ Has(r.conjs, D, Z, P)
<1> DEFINE C == Conjs(Seq(Elems), Exps)
           cs == o.conjs \o r.conjs
           all == AddAll(<<>>, cs)
           a == Len(o.conjs)
           b == Len(r.conjs)
<1>1. o.conjs \in Seq(C) /\ r.conjs \in Seq(C)
  BY DEF Objects
<1>2. cs \in Seq(C) /\ a \in Nat /\ b \in Nat /\ Len(cs) = a + b
  <2> HIDE DEF C
  <2> QED BY <1>1
<1>3. (\A i \in 1 .. a : cs[i] = o.conjs[i]) /\ (\A j \in 1 .. b : cs[a + j] = r.conjs[j])
  <2> DEFINE u == o.conjs
             v == r.conjs
  <2>1. u \in Seq(C) /\ v \in Seq(C)
    BY <1>1
  <2> HIDE DEF C, u, v
  <2>2. (\A i \in 1 .. Len(u) : (u \o v)[i] = u[i]) /\ (\A j \in 1 .. Len(v) : (u \o v)[Len(u) + j] = v[j])
    BY <2>1, ConcatIs
  <2> QED BY <2>2 DEF u, v
<1> HIDE DEF cs, a, b
<1>4. all \in Seq(C) /\ \A D, Z, P : Has(all, D, Z, P) <=> Has(cs, D, Z, P)
  <2>1. <<>> \in Seq(C) /\ Blank(<<>>) /\ Unmistakable(cs)
    BY DEF Blank, cs
  <2> QED BY <1>2, <2>1, AddAllMeans
<1> HIDE DEF all
<1>5. ASSUME NEW D, NEW Z, NEW P
      PROVE  Has(cs, D, Z, P) <=> Has(o.conjs, D, Z, P) \/ Has(r.conjs, D, Z, P)
  <2>1. ASSUME Has(cs, D, Z, P)
        PROVE  Has(o.conjs, D, Z, P) \/ Has(r.conjs, D, Z, P)
    <3>1. PICK i \in 1 .. a + b : Fits(cs[i], D, Z, P)
      BY <1>2, <2>1 DEF Has
    <3>2. CASE i <= a
      <4>1. i \in 1 .. a
        BY <1>2, <3>2
      <4> QED BY <1>3, <3>1, <4>1 DEF Has, a
    <3>3. CASE i > a
      <4>1. i - a \in 1 .. b /\ a + (i - a) = i
        BY <1>2, <3>3
      <4>2. cs[i] = r.conjs[i - a]
        BY <1>3, <4>1
      <4> QED BY <3>1, <4>1, <4>2 DEF Has, b
    <3> QED BY <1>2, <3>2, <3>3
  <2>2. ASSUME Has(o.conjs, D, Z, P)
        PROVE  Has(cs, D, Z, P)
    <3>1. PICK i \in 1 .. a : Fits(o.conjs[i], D, Z, P)
      BY <2>2 DEF Has, a
    <3>2. i \in 1 .. a + b
      BY <1>2
    <3> QED BY <1>2, <1>3, <3>1, <3>2 DEF Has
  <2>3. ASSUME Has(r.conjs, D, Z, P)
        PROVE  Has(cs, D, Z, P)
    <3>1. PICK j \in 1 .. b : Fits(r.conjs[j], D, Z, P)
      BY <2>3 DEF Has, b
    <3>2. a + j \in 1 .. a + b
      BY <1>2
    <3> QED BY <1>2, <1>3, <3>1, <3>2 DEF Has
  <2> QED BY <2>1, <2>2, <2>3
<1>6. UnionOf(o, r).ret = "obj" /\ UnionOf(o, r).val = [o EXCEPT !.conjs = all]
  <2>1. [[o EXCEPT !.conjs = <<>>] EXCEPT !.conjs = AddAll(@, cs)] = [o EXCEPT !.conjs = all]
    BY DEF Objects, all
  <2> QED BY <2>1 DEF UnionOf, Returned, AddConjunctions, cs
<1>7. UnionOf(o, r).val \in Objects(Exps) /\ UnionOf(o, r).val.conjs = all
  BY <1>4, <1>6 DEF Objects
<1>8. SameArity(UnionOf(o, r).val, o) /\ UnionOf(o, r).val.kind = o.kind
  BY <1>6 DEF Objects, SameArity
<1> QED BY <1>4, <1>5, <1>6, <1>7, <1>8

(* Set::Intersect and Relation::Intersect: the result has exactly the      *)
(* tuples of both operands, when they fit the right operand's declarations *)
(* (which are not looked at), unless a conjunction without constraints is  *)
(* taken for a placeholder; a Set must also get some conjunction, for its  *)
(* result starts as the universe.                                          *)
THEOREM IntersectMeans ==
  ASSUME NEW Exps, OrdersExps(Exps), \A e \in Exps : NormalizeForEquality(e) \in Exps,
         NEW o \in Objects(Exps), NEW r \in Objects(Exps), SameArity(o, r),
         o.kind = "set" => o.in = 0 /\ o.conjs # <<>> /\ r.conjs # <<>>,
         Unmistakable(IntersectPairs(Pairs(o, r)))
  PROVE  /\ IntersectOf(o, r).ret = "obj" /\ IntersectOf(o, r).val \in Objects(Exps)
         /\ SameArity(IntersectOf(o, r).val, o) /\ IntersectOf(o, r).val.kind = o.kind
         /\ \A D, Z, P :
              /\ TupleSees(Z, P, Exps)
              /\ \A j \in 1 .. Len(r.conjs) : r.conjs[j].decl \in D
              => (Has(IntersectOf(o, r).val.conjs, D, Z, P)
                    <=> Has(o.conjs, D, Z, P) /\ Has(r.conjs, D, Z, P))
<1> DEFINE C == Conjs(Seq(Elems), Exps)
           ms == IntersectPairs(Pairs(o, r))
           new == IF o.kind = "set" THEN NewSet(o.out) ELSE NewRelation(o.in, o.out)
           all == AddAll(new.conjs, ms)
<1>1. /\ ms \in Seq(C)
      /\ ms = <<>> <=> o.conjs = <<>> \/ r.conjs = <<>>
  BY IntersectPairsMean
<1>2. ASSUME NEW D, NEW Z, NEW P, TupleSees(Z, P, Exps),
             \A j \in 1 .. Len(r.conjs) : r.conjs[j].decl \in D
      PROVE  Has(ms, D, Z, P) <=> Has(o.conjs, D, Z, P) /\ Has(r.conjs, D, Z, P)
  BY <1>2, IntersectPairsMean
<1> HIDE DEF ms
<1>3. o.in \in Nat /\ o.out \in Nat /\ o.kind \in {"set", "rel"}
  BY DEF Objects
<1>4. /\ new.in = o.in /\ new.out = o.out /\ new.kind = o.kind
      /\ new = [kind |-> o.kind, in |-> o.in, out |-> o.out, conjs |-> new.conjs]
  BY <1>3 DEF NewSet, NewRelation, Object
<1>5. new.conjs \in Seq(C) /\ Blank(new.conjs) /\ (ms = <<>> => new.conjs = <<>>)
  <2>1. CASE o.kind = "set"
    <3>1. new.conjs = <<TRUEConj(o.out, 0)>> /\ ms # <<>>
      BY <1>1, <2>1 DEF NewSet, Object
    <3>2. TRUEConj(o.out, 0) \in C /\ ~ HasConstraints(TRUEConj(o.out, 0))
      <4>1. VarDecl(o.out) \in Seq(Elems)
        BY <1>3 DEF VarDecl, Elems
      <4> QED BY <4>1 DEF TRUEConj, Conj, Conjs, HasConstraints
    <3> HIDE DEF new, C
    <3>3. new.conjs \in Seq(C) /\ Len(new.conjs) = 1 /\ new.conjs[1] = TRUEConj(o.out, 0)
      BY <3>1, <3>2
    <3> QED BY <3>1, <3>2, <3>3 DEF Blank
  <2>2. CASE o.kind # "set"
    <3>1. new.conjs = <<>>
      BY <2>2 DEF NewRelation, Object
    <3> HIDE DEF new, C
    <3> QED BY <3>1 DEF Blank
  <2> QED BY <2>1, <2>2
<1>6. IntersectOf(o, r) = Returned(new, ms)
  BY DEF IntersectOf, ms
<1> HIDE DEF new
<1>7. all \in Seq(C) /\ \A D, Z, P : Has(all, D, Z, P) <=> Has(ms, D, Z, P)
  <2>1. Unmistakable(ms)
    BY DEF ms
  <2> QED BY <1>1, <1>5, <2>1, AddAllMeans
<1>8. IntersectOf(o, r).ret = "obj" /\ IntersectOf(o, r).val = [new EXCEPT !.conjs = all]
  BY <1>6 DEF Returned, AddConjunctions
<1> HIDE DEF all
<1>9. IntersectOf(o, r).val = [kind |-> o.kind, in |-> o.in, out |-> o.out, conjs |-> all]
  BY <1>4, <1>8
<1>10. /\ IntersectOf(o, r).val \in Objects(Exps) /\ IntersectOf(o, r).val.conjs = all
       /\ IntersectOf(o, r).val.kind = o.kind
  BY <1>3, <1>7, <1>9 DEF Objects
<1>11. SameArity(IntersectOf(o, r).val, o)
  BY <1>9 DEF SameArity
<1> QED BY <1>2, <1>7, <1>8, <1>10, <1>11

(* Relation::Restrict: the result has exactly the tuples of the relation   *)
(* whose input the set has (its constraints are about the first locations, *)
(* so the same expressions are zero), on the same conditions.              *)
THEOREM RestrictMeans ==
  ASSUME NEW Exps, OrdersExps(Exps), \A e \in Exps : NormalizeForEquality(e) \in Exps,
         NEW o \in Objects(Exps), NEW s \in Objects(Exps), o.in = s.out,
         Unmistakable(IntersectPairs(Pairs(o, s)))
  PROVE  /\ RestrictTo(o, s).ret = "obj" /\ RestrictTo(o, s).val \in Objects(Exps)
         /\ SameArity(RestrictTo(o, s).val, o)
         /\ \A D, E, Z, P :
              /\ TupleSees(Z, P, Exps)
              /\ \A j \in 1 .. Len(s.conjs) : s.conjs[j].decl \in E
              => (Has(RestrictTo(o, s).val.conjs, D, Z, P)
                    <=> Has(o.conjs, D, Z, P) /\ Has(s.conjs, E, Z, P))
<1> DEFINE C == Conjs(Seq(Elems), Exps)
           ms == IntersectPairs(Pairs(o, s))
           all == AddAll(<<>>, ms)
<1>1. ms \in Seq(C)
  BY IntersectPairsMean
<1>2. ASSUME NEW D, NEW E, NEW Z, NEW P, TupleSees(Z, P, Exps),
             \A j \in 1 .. Len(s.conjs) : s.conjs[j].decl \in E
      PROVE  Has(ms, D, Z, P) <=> Has(o.conjs, D, Z, P) /\ Has(s.conjs, E, Z, P)
  BY <1>2, IntersectPairsMean
<1>3. o.in \in Nat /\ o.out \in Nat
  BY DEF Objects
<1>4. RestrictTo(o, s).ret = "obj" /\ RestrictTo(o, s).val = [NewRelation(o.in, o.out) EXCEPT !.conjs = AddAll(@, ms)]
  BY DEF RestrictTo, Returned, AddConjunctions
<1> HIDE DEF ms
<1>5. all \in Seq(C) /\ \A D, Z, P : Has(all, D, Z, P) <=> Has(ms, D, Z, P)
  <2>1. <<>> \in Seq(C) /\ Blank(<<>>) /\ Unmistakable(ms)
    BY DEF Blank, ms
  <2> QED BY <1>1, <2>1, AddAllMeans
<1>6. RestrictTo(o, s).val = [kind |-> "rel", in |-> o.in, out |-> o.out, conjs |-> all]
  BY <1>4 DEF NewRelation, Object
<1> HIDE DEF all
<1>7. RestrictTo(o, s).val \in Objects(Exps) /\ RestrictTo(o, s).val.conjs = all
  BY <1>3, <1>5, <1>6 DEF Objects
<1>8. SameArity(RestrictTo(o, s).val, o)
  BY <1>6 DEF SameArity
<1> QED BY <1>2, <1>4, <1>5, <1>7, <1>8
-----------------------------------------------------------------------------
(* Lists in strict order, of a relation R: no two elements are equal.      *)
Transitive(R, S) == \A x, y, z \in S : <<x, y>> \in R /\ <<y, z>> \in R => <<x, z>> \in R
InOrder(s, R) == \A i, j \in 1 .. Len(s) : i < j => <<s[i], s[j]>> \in R

LEMMA AppendInOrder ==
  ASSUME NEW S, NEW R, NEW s \in Seq(S), NEW x \in S, InOrder(s, R),
         \A i \in 1 .. Len(s) : <<s[i], x>> \in R
  PROVE  InOrder(Append(s, x), R)
<1> DEFINE r == Append(s, x)
           n == Len(s)
<1>1. Len(r) = n + 1 /\ n \in Nat
  OBVIOUS
<1>2. r[n + 1] = x /\ \A j \in 1 .. n : r[j] = s[j]
  OBVIOUS
<1> SUFFICES ASSUME NEW i \in 1 .. n + 1, NEW j \in 1 .. n + 1, i < j
             PROVE  <<r[i], r[j]>> \in R
  BY <1>1 DEF InOrder
<1> HIDE DEF r
<1>3. i \in 1 .. n /\ (j = n + 1 \/ j \in 1 .. n)
  BY <1>1
<1> QED BY <1>2, <1>3 DEF InOrder

LEMMA InsertInOrder ==
  ASSUME NEW S, NEW R, Transitive(R, S), NEW s \in Seq(S), NEW x \in S, InOrder(s, R),
         NEW m \in 1 .. Len(s), <<x, s[m]>> \in R,
         \A i \in 1 .. Len(s) : i < m => <<s[i], x>> \in R
  PROVE  InOrder(InsertAt(s, m, x), R)
<1> DEFINE r == InsertAt(s, m, x)
           n == Len(s)
<1>1. Len(r) = n + 1 /\ n \in Nat /\ m \in 1 .. n
  BY DEF InsertAt
<1>2. ASSUME NEW k \in 1 .. n + 1
      PROVE  r[k] = IF k < m THEN s[k] ELSE IF k = m THEN x ELSE s[k - 1]
  BY DEF InsertAt
<1>3. ASSUME NEW k \in 1 .. n, m <= k
      PROVE  <<x, s[k]>> \in R
  <2>1. CASE k = m
    BY <2>1
  <2>2. CASE m < k
    <3>1. <<s[m], s[k]>> \in R
      BY <1>1, <2>2 DEF InOrder
    <3>2. s[m] \in S /\ s[k] \in S
      BY <1>1, ElementOfSeq
    <3> QED BY <3>1, <3>2 DEF Transitive
  <2> QED BY <1>1, <1>3, <2>1, <2>2
<1> SUFFICES ASSUME NEW i \in 1 .. n + 1, NEW j \in 1 .. n + 1, i < j
             PROVE  <<r[i], r[j]>> \in R
  BY <1>1 DEF InOrder
<1> HIDE DEF r
<1>4. CASE i < m
  <2>1. i \in 1 .. n /\ r[i] = s[i]
    BY <1>1, <1>2, <1>4
  <2>2. CASE j < m
    <3>1. j \in 1 .. n /\ r[j] = s[j]
      BY <1>1, <1>2, <2>2
    <3> QED BY <2>1, <3>1 DEF InOrder
  <2>3. CASE j = m
    <3>1. r[j] = x
      BY <1>1, <1>2, <2>3
    <3> QED BY <1>4, <2>1, <3>1
  <2>4. CASE j > m
    <3>1. j - 1 \in 1 .. n /\ i < j - 1 /\ ~ (j < m) /\ j # m
      BY <1>1, <1>4, <2>4
    <3>2. r[j] = s[j - 1]
      BY <1>2, <3>1
    <3> QED BY <2>1, <3>1, <3>2 DEF InOrder
  <2> QED BY <1>1, <2>2, <2>3, <2>4
<1>5. CASE i >= m
  <2>1. j - 1 \in 1 .. n /\ m <= j - 1 /\ i <= j - 1 /\ ~ (j < m) /\ j # m
    BY <1>1, <1>5
  <2>2. r[j] = s[j - 1]
    BY <1>2, <2>1
  <2>3. CASE i = m
    <3>1. r[i] = x
      BY <1>2, <2>3
    <3> QED BY <1>3, <2>1, <2>2, <3>1
  <2>4. CASE i > m
    <3>1. i - 1 \in 1 .. n /\ i - 1 < j - 1 /\ ~ (i < m) /\ i # m
      BY <1>1, <2>4
    <3>2. r[i] = s[i - 1]
      BY <1>2, <3>1
    <3> QED BY <2>1, <2>2, <3>1, <3>2 DEF InOrder
  <2> QED BY <1>1, <1>5, <2>3, <2>4
<1> QED BY <1>1, <1>4, <1>5

ExpOrder(Exps) == {p \in Exps \X Exps : ExpLess(p[1], p[2])}

(* addEquality and addInequality keep a constraint list in strict order:   *)
(* it never holds an expression twice.                                     *)
THEOREM InsertExpKeepsOrder ==
  ASSUME NEW Exps, OrdersExps(Exps), NEW list \in Seq(Exps), NEW e \in Exps,
         InOrder(list, ExpOrder(Exps))
  PROVE  InOrder(InsertExp(list, e), ExpOrder(Exps))
<1> DEFINE R == ExpOrder(Exps)
           stops == {i \in DOMAIN list : ExpEqual(e, list[i]) \/ ExpLess(e, list[i])}
           m == Min(stops)
           n == Len(list)
<1>1. n \in Nat /\ DOMAIN list = 1 .. n /\ \A i \in 1 .. n : list[i] \in Exps
  BY ElementOfSeq
<1>2. \A d, f \in Exps : <<d, f>> \in R <=> ExpLess(d, f)
  BY DEF ExpOrder
<1>3. ASSUME NEW i \in 1 .. n, i \notin stops
      PROVE  <<list[i], e>> \in R
  <2>1. list[i] \in Exps /\ ~ ExpEqual(e, list[i]) /\ ~ ExpLess(e, list[i])
    BY <1>1, <1>3
  <2>2. ExpLess(list[i], e)
    BY <2>1 DEF OrdersExps
  <2> QED BY <1>2, <2>1, <2>2
<1>4. CASE EqualsZero(e)
  BY <1>4 DEF InsertExp
<1>5. CASE ~ EqualsZero(e) /\ stops = {}
  <2>1. InsertExp(list, e) = Append(list, e)
    BY <1>5 DEF InsertExp
  <2>2. \A i \in 1 .. n : <<list[i], e>> \in R
    BY <1>3, <1>5
  <2> QED BY <2>1, <2>2, AppendInOrder
<1>6. CASE ~ EqualsZero(e) /\ stops # {}
  <2>1. m \in stops /\ m \in 1 .. n /\ \A j \in stops : m <= j
    <3>1. stops \subseteq 1 .. n
      BY <1>1
    <3> HIDE DEF stops
    <3>2. m \in stops /\ \A j \in stops : m <= j
      BY <1>1, <1>6, <3>1, MinIs
    <3> QED BY <3>1, <3>2
  <2>2. InsertExp(list, e) = IF ExpEqual(e, list[m]) THEN list ELSE InsertAt(list, m, e)
    BY <1>6 DEF InsertExp
  <2>3. ExpEqual(e, list[m]) \/ ExpLess(e, list[m])
    BY <2>1
  <2> HIDE DEF stops, m
  <2>4. CASE ExpEqual(e, list[m])
    BY <2>2, <2>4
  <2>5. CASE ~ ExpEqual(e, list[m])
    <3>1. <<e, list[m]>> \in R
      BY <1>1, <1>2, <2>1, <2>3, <2>5
    <3>2. \A i \in 1 .. n : i < m => <<list[i], e>> \in R
      <4>1. ASSUME NEW i \in 1 .. n, i < m
            PROVE  i \notin stops
        <5>1. ~ (m <= i)
          BY <1>1, <2>1, <4>1
        <5> QED BY <2>1, <5>1
      <4> QED BY <1>3, <4>1
    <3>3. Transitive(R, Exps)
      BY <1>2 DEF Transitive, OrdersExps
    <3>4. InsertExp(list, e) = InsertAt(list, m, e)
      BY <2>2, <2>5
    <3> HIDE DEF R
    <3>5. InOrder(InsertAt(list, m, e), R)
      <4>1. InOrder(list, R)
        BY DEF R
      <4> QED BY <2>1, <3>1, <3>2, <3>3, <4>1, InsertInOrder
    <3> QED BY <3>4, <3>5 DEF R
  <2> QED BY <2>4, <2>5
<1> QED BY <1>4, <1>5, <1>6
-----------------------------------------------------------------------------
(* The lexicographic order of lists, of which DeclLess and ExpsLess are    *)
(* instances, is transitive when the order of the elements is.             *)
LexLt(s, t, R) ==
  \E i \in 1 .. Len(s) : <<s[i], t[i]>> \in R /\ \A j \in 1 .. i - 1 : s[j] = t[j]

LEMMA LexTransitive ==
  ASSUME NEW S, NEW R, Transitive(R, S), NEW s \in Seq(S), NEW t \in Seq(S), NEW u \in Seq(S),
         Len(s) = Len(t), Len(t) = Len(u), LexLt(s, t, R), LexLt(t, u, R)
  PROVE  LexLt(s, u, R)
<1> DEFINE n == Len(s)
<1>1. n \in Nat /\ \A i \in 1 .. n : s[i] \in S /\ t[i] \in S /\ u[i] \in S
  BY ElementOfSeq
<1>2. PICK i \in 1 .. n : <<s[i], t[i]>> \in R /\ \A j \in 1 .. i - 1 : s[j] = t[j]
  BY DEF LexLt
<1>3. PICK k \in 1 .. n : <<t[k], u[k]>> \in R /\ \A j \in 1 .. k - 1 : t[j] = u[j]
  BY DEF LexLt
<1> HIDE DEF n
<1>4. CASE i < k
  <2>1. i \in 1 .. k - 1 /\ \A j \in 1 .. i - 1 : j \in 1 .. k - 1
    BY <1>1, <1>4
  <2>2. <<s[i], u[i]>> \in R /\ \A j \in 1 .. i - 1 : s[j] = u[j]
    BY <1>2, <1>3, <2>1
  <2> QED BY <2>2 DEF LexLt, n
<1>5. CASE k < i
  <2>1. k \in 1 .. i - 1 /\ \A j \in 1 .. k - 1 : j \in 1 .. i - 1
    BY <1>1, <1>5
  <2>2. <<s[k], u[k]>> \in R /\ \A j \in 1 .. k - 1 : s[j] = u[j]
    BY <1>2, <1>3, <2>1
  <2> QED BY <2>2 DEF LexLt, n
<1>6. CASE i = k
  <2>1. <<s[i], u[i]>> \in R
    BY <1>1, <1>2, <1>3, <1>6 DEF Transitive
  <2>2. \A j \in 1 .. i - 1 : s[j] = u[j]
    BY <1>2, <1>3, <1>6
  <2> QED BY <2>1, <2>2 DEF LexLt, n
<1> QED BY <1>1, <1>4, <1>5, <1>6

ElemOrder == {p \in Elems \X Elems : ElemLess(p[1], p[2])}

LEMMA ElemLessVar ==
  ASSUME NEW a
  PROVE  ~ ElemLess(a, Var)
BY DEF ElemLess, Var

LEMMA ElemLessTransitive == Transitive(ElemOrder, Elems)
<1> SUFFICES ASSUME NEW x \in Elems, NEW y \in Elems, NEW z \in Elems,
                    ElemLess(x, y), ElemLess(y, z)
             PROVE  ElemLess(x, z)
  BY DEF Transitive, ElemOrder
<1>1. Var.isConst = FALSE /\ \A v \in Int : Const(v).isConst = TRUE /\ Const(v).val = v
  BY DEF Var, Const
<1>2. PICK w \in Int : y = Const(w)
  <2>1. y # Var /\ z # Var
    BY <1>1, ElemLessVar
  <2> QED BY <2>1 DEF Elems
<1>3. PICK v \in Int : z = Const(v)
  <2>1. z # Var
    BY ElemLessVar
  <2> QED BY <2>1 DEF Elems
<1>4. CASE x = Var
  BY <1>1, <1>3, <1>4 DEF ElemLess
<1>5. CASE x # Var
  <2>1. PICK q \in Int : x = Const(q)
    BY <1>5 DEF Elems
  <2>2. q < w /\ w < v
    BY <1>1, <1>2, <1>3, <2>1 DEF ElemLess
  <2>3. q < v
    BY <2>2
  <2> QED BY <1>1, <1>3, <2>1, <2>3 DEF ElemLess
<1> QED BY <1>4, <1>5

LEMMA DeclLessTransitive ==
  ASSUME NEW d \in Seq(Elems), NEW e \in Seq(Elems), NEW f \in Seq(Elems),
         DeclLess(d, e), DeclLess(e, f)
  PROVE  DeclLess(d, f)
<1>1. Len(d) \in Nat /\ Len(e) \in Nat /\ Len(f) \in Nat
  OBVIOUS
<1>2. ASSUME NEW a \in Seq(Elems), NEW b \in Seq(Elems)
      PROVE  DeclLess(a, b) <=> Len(a) < Len(b) \/ (Len(a) = Len(b) /\ LexLt(a, b, ElemOrder))
  <2>1. DOMAIN a = 1 .. Len(a)
    OBVIOUS
  <2>2. ASSUME Len(a) = Len(b), NEW i \in 1 .. Len(a)
        PROVE  <<a[i], b[i]>> \in ElemOrder <=> ElemLess(a[i], b[i])
    <3>1. a[i] \in Elems /\ b[i] \in Elems
      BY <2>2, ElementOfSeq
    <3> QED BY <3>1 DEF ElemOrder
  <2> QED BY <2>1, <2>2 DEF DeclLess, LexLt
<1>3. (Len(d) < Len(e) \/ Len(d) = Len(e)) /\ (Len(e) < Len(f) \/ Len(e) = Len(f))
  BY <1>2
<1>4. CASE Len(d) < Len(e) \/ Len(e) < Len(f)
  <2>1. Len(d) < Len(f)
    BY <1>1, <1>3, <1>4
  <2> QED BY <1>2, <2>1
<1>5. CASE Len(d) = Len(e) /\ Len(e) = Len(f)
  <2>1. LexLt(d, e, ElemOrder) /\ LexLt(e, f, ElemOrder)
    BY <1>1, <1>2, <1>5
  <2>2. LexLt(d, f, ElemOrder)
    BY <1>5, <2>1, ElemLessTransitive, LexTransitive
  <2> QED BY <1>2, <1>5, <2>2
<1> QED BY <1>3, <1>4, <1>5

LEMMA ExpsLessTransitive ==
  ASSUME NEW Exps, OrdersExps(Exps), NEW s \in Seq(Exps), NEW t \in Seq(Exps), NEW u \in Seq(Exps),
         Len(s) = Len(t), Len(t) = Len(u), ExpsLess(s, t), ExpsLess(t, u)
  PROVE  ExpsLess(s, u)
<1> DEFINE R == ExpOrder(Exps)
<1>1. \A d, f \in Exps : <<d, f>> \in R <=> ExpLess(d, f)
  BY DEF ExpOrder
<1>2. ASSUME NEW a \in Seq(Exps), NEW b \in Seq(Exps), Len(a) = Len(b)
      PROVE  ExpsLess(a, b) <=> LexLt(a, b, R)
  <2>1. DOMAIN a = 1 .. Len(a) /\ Len(a) \in Nat
    OBVIOUS
  <2>2. \A i \in 1 .. Len(a) : a[i] \in Exps /\ b[i] \in Exps
    BY <1>2, ElementOfSeq
  <2>3. \A i \in 1 .. Len(a) : <<a[i], b[i]>> \in R <=> ExpLess(a[i], b[i])
    BY <1>1, <2>2
  <2>4. \A i \in 1 .. Len(a) : ExpEqual(a[i], b[i]) <=> a[i] = b[i]
    BY <2>2 DEF OrdersExps
  <2>5. \A i \in 1 .. Len(a) : \A j \in 1 .. i - 1 : j \in 1 .. Len(a)
    BY <2>1
  <2> HIDE DEF R
  <2> QED BY <2>1, <2>3, <2>4, <2>5 DEF ExpsLess, LexLt
<1>3. Transitive(R, Exps)
  BY <1>1 DEF Transitive, OrdersExps
<1> HIDE DEF R
<1>4. LexLt(s, u, R)
  BY <1>2, <1>3, LexTransitive
<1> QED BY <1>2, <1>4

(* Conjunction::operator<, in the parts a comparison decides it by.        *)
LEMMA ConjLessIs ==
  ASSUME NEW c, NEW d
  PROVE  ConjLess(c, d) <=>
           \/ DeclLess(c.decl, d.decl)
           \/ c.decl = d.decl /\ Len(c.eqs) < Len(d.eqs)
           \/ c.decl = d.decl /\ Len(c.eqs) = Len(d.eqs) /\ Len(c.ineqs) < Len(d.ineqs)
           \/ /\ c.decl = d.decl /\ Len(c.eqs) = Len(d.eqs) /\ Len(c.ineqs) = Len(d.ineqs)
              /\ ExpsLess(c.eqs, d.eqs)
           \/ /\ c.decl = d.decl /\ c.eqs = d.eqs /\ Len(c.ineqs) = Len(d.ineqs)
              /\ ExpsLess(c.ineqs, d.ineqs)
BY DEF ConjLess

LEMMA ConjLessTransitive ==
  ASSUME NEW Exps, OrdersExps(Exps), NEW c \in Conjs(Seq(Elems), Exps),
         NEW d \in Conjs(Seq(Elems), Exps), NEW e \in Conjs(Seq(Elems), Exps),
         ConjLess(c, d), ConjLess(d, e)
  PROVE  ConjLess(c, e)
<1>1. /\ c.decl \in Seq(Elems) /\ c.eqs \in Seq(Exps) /\ c.ineqs \in Seq(Exps)
      /\ d.decl \in Seq(Elems) /\ d.eqs \in Seq(Exps) /\ d.ineqs \in Seq(Exps)
      /\ e.decl \in Seq(Elems) /\ e.eqs \in Seq(Exps) /\ e.ineqs \in Seq(Exps)
  BY DEF Conjs
<1>2. /\ Len(c.eqs) \in Nat /\ Len(d.eqs) \in Nat /\ Len(e.eqs) \in Nat
      /\ Len(c.ineqs) \in Nat /\ Len(d.ineqs) \in Nat /\ Len(e.ineqs) \in Nat
  BY <1>1
<1>3. CASE DeclLess(c.decl, d.decl) \/ DeclLess(d.decl, e.decl)
  <2>1. DeclLess(c.decl, e.decl)
    <3>1. DeclLess(c.decl, d.decl) \/ c.decl = d.decl
      BY ConjLessIs
    <3>2. DeclLess(d.decl, e.decl) \/ d.decl = e.decl
      BY ConjLessIs
    <3>3. CASE DeclLess(c.decl, d.decl) /\ DeclLess(d.decl, e.decl)
      BY <1>1, <3>3, DeclLessTransitive
    <3>4. CASE c.decl = d.decl \/ d.decl = e.decl
      BY <1>3, <3>1, <3>2, <3>4
    <3> QED BY <3>1, <3>2, <3>3, <3>4
  <2> QED BY <2>1, ConjLessIs
<1>4. CASE ~ DeclLess(c.decl, d.decl) /\ ~ DeclLess(d.decl, e.decl)
  <2>1. c.decl = d.decl /\ d.decl = e.decl
    BY <1>4, ConjLessIs
  <2>2. /\ Len(c.eqs) < Len(d.eqs) \/ Len(c.eqs) = Len(d.eqs)
        /\ Len(d.eqs) < Len(e.eqs) \/ Len(d.eqs) = Len(e.eqs)
    <3>1. Len(c.eqs) < Len(d.eqs) \/ Len(c.eqs) = Len(d.eqs)
      BY <1>4, ConjLessIs
    <3>2. Len(d.eqs) < Len(e.eqs) \/ Len(d.eqs) = Len(e.eqs)
      BY <1>4, ConjLessIs
    <3> QED BY <3>1, <3>2
  <2>3. CASE Len(c.eqs) < Len(d.eqs) \/ Len(d.eqs) < Len(e.eqs)
    <3>1. Len(c.eqs) < Len(e.eqs)
      BY <1>2, <2>2, <2>3
    <3> QED BY <2>1, <3>1, ConjLessIs
  <2>4. CASE Len(c.eqs) = Len(d.eqs) /\ Len(d.eqs) = Len(e.eqs)
    <3> DEFINE Rest(x, y) == \/ Len(x.ineqs) < Len(y.ineqs)
                             \/ Len(x.ineqs) = Len(y.ineqs) /\ ExpsLess(x.eqs, y.eqs)
                             \/ /\ x.eqs = y.eqs /\ Len(x.ineqs) = Len(y.ineqs)
                                /\ ExpsLess(x.ineqs, y.ineqs)
    <3>1. Rest(c, d)
      <4>1. ~ (Len(c.eqs) < Len(d.eqs))
        BY <1>2, <2>4
      <4> QED BY <1>4, <4>1, ConjLessIs
    <3>2. Rest(d, e)
      <4>1. ~ (Len(d.eqs) < Len(e.eqs))
        BY <1>2, <2>4
      <4> QED BY <1>4, <4>1, ConjLessIs
    <3>3. CASE Len(c.ineqs) < Len(d.ineqs) \/ Len(d.ineqs) < Len(e.ineqs)
      <4>1. Len(c.ineqs) < Len(e.ineqs)
        BY <1>2, <3>1, <3>2, <3>3
      <4> QED BY <2>1, <2>4, <4>1, ConjLessIs
    <3>4. CASE Len(c.ineqs) = Len(d.ineqs) /\ Len(d.ineqs) = Len(e.ineqs)
      <4>1. /\ ExpsLess(c.eqs, d.eqs) \/ (c.eqs = d.eqs /\ ExpsLess(c.ineqs, d.ineqs))
            /\ ExpsLess(d.eqs, e.eqs) \/ (d.eqs = e.eqs /\ ExpsLess(d.ineqs, e.ineqs))
        <5>1. ~ (Len(c.ineqs) < Len(d.ineqs)) /\ ~ (Len(d.ineqs) < Len(e.ineqs))
          BY <1>2, <3>4
        <5> QED BY <3>1, <3>2, <5>1
      <4>2. CASE ExpsLess(c.eqs, d.eqs) /\ ExpsLess(d.eqs, e.eqs)
        <5>1. ExpsLess(c.eqs, e.eqs)
          BY <1>1, <2>4, <4>2, ExpsLessTransitive
        <5> QED BY <2>1, <2>4, <3>4, <5>1, ConjLessIs
      <4>3. CASE c.eqs = d.eqs /\ d.eqs = e.eqs /\ ExpsLess(c.ineqs, d.ineqs) /\ ExpsLess(d.ineqs, e.ineqs)
        <5>1. ExpsLess(c.ineqs, e.ineqs)
          BY <1>1, <3>4, <4>3, ExpsLessTransitive
        <5> QED BY <2>1, <3>4, <4>3, <5>1, ConjLessIs
      <4>4. CASE ExpsLess(c.eqs, e.eqs)
        BY <2>1, <2>4, <3>4, <4>4, ConjLessIs
      <4> QED BY <4>1, <4>2, <4>3, <4>4
    <3> QED
      <4>1. Len(c.ineqs) < Len(d.ineqs) \/ Len(c.ineqs) = Len(d.ineqs)
        BY <3>1
      <4>2. Len(d.ineqs) < Len(e.ineqs) \/ Len(d.ineqs) = Len(e.ineqs)
        BY <3>2
      <4> QED BY <3>3, <3>4, <4>1, <4>2
  <2> QED BY <2>2, <2>3, <2>4
<1> QED BY <1>3, <1>4

ConjOrder(Exps) ==
  {p \in Conjs(Seq(Elems), Exps) \X Conjs(Seq(Elems), Exps) : ConjLess(p[1], p[2])}

(* addConjunction keeps the list in strict order: it never holds two       *)
(* conjunctions with the same declaration and constraints.                 *)
LEMMA AddConjunctionKeepsOrder ==
  ASSUME NEW Exps, OrdersExps(Exps), NEW cs \in Seq(Conjs(Seq(Elems), Exps)),
         NEW c \in Conjs(Seq(Elems), Exps), InOrder(cs, ConjOrder(Exps))
  PROVE  /\ AddConjunction(cs, c) \in Seq(Conjs(Seq(Elems), Exps))
         /\ InOrder(AddConjunction(cs, c), ConjOrder(Exps))
<1> DEFINE C == Conjs(Seq(Elems), Exps)
           R == ConjOrder(Exps)
           stops == {i \in DOMAIN cs : ~ ConjLess(cs[i], c)}
           m == Min(stops)
           n == Len(cs)
<1>1. n \in Nat /\ DOMAIN cs = 1 .. n /\ \A i \in 1 .. n : cs[i] \in C
  <2> HIDE DEF C
  <2>1. cs \in Seq(C)
    BY DEF C
  <2> QED BY <2>1, ElementOfSeq
<1>2. \A x, y \in C : <<x, y>> \in R <=> ConjLess(x, y)
  BY DEF ConjOrder
<1>3. CASE Blank(cs)
  <2>1. AddConjunction(cs, c) = <<c>>
    BY <1>3, AddToBlank
  <2> HIDE DEF C, R
  <2>2. AddConjunction(cs, c) \in Seq(C) /\ Len(AddConjunction(cs, c)) = 1
    BY <2>1 DEF C
  <2>3. InOrder(AddConjunction(cs, c), R)
    <3>1. \A i, j \in 1 .. 1 : ~ (i < j)
      OBVIOUS
    <3> QED BY <2>2, <3>1 DEF InOrder
  <2> QED BY <2>2, <2>3 DEF C, R
<1>4. CASE ~ Blank(cs)
  <2>1. AddConjunction(cs, c) \in Seq(C)
    BY <1>4, AddConjunctionMeans
  <2>2. (IF Len(cs) = 1 /\ ~ HasConstraints(cs[1]) THEN <<>> ELSE cs) = cs
    BY <1>4 DEF Blank
  <2>3. CASE stops = {}
    <3>1. AddConjunction(cs, c) = Append(cs, c)
      BY <2>2, <2>3 DEF AddConjunction
    <3>2. \A i \in 1 .. n : <<cs[i], c>> \in R
      <4>1. \A i \in 1 .. n : ConjLess(cs[i], c)
        BY <1>1, <2>3
      <4> HIDE DEF C, R
      <4>2. c \in C
        BY DEF C
      <4> QED BY <1>1, <1>2, <4>1, <4>2
    <3> QED BY <2>1, <3>1, <3>2, AppendInOrder
  <2>4. CASE stops # {}
    <3>1. m \in stops /\ m \in 1 .. n /\ \A j \in stops : m <= j
      <4>1. stops \subseteq 1 .. n
        BY <1>1
      <4> HIDE DEF stops
      <4>2. m \in stops /\ \A j \in stops : m <= j
        BY <1>1, <2>4, <4>1, MinIs
      <4> QED BY <4>1, <4>2
    <3>2. AddConjunction(cs, c) = IF ConjLess(c, cs[m]) THEN InsertAt(cs, m, c) ELSE cs
      BY <2>2, <2>4 DEF AddConjunction
    <3>3. \A i \in 1 .. n : i \notin stops => ConjLess(cs[i], c)
      BY <1>1
    <3>4. c \in C /\ cs \in Seq(C) /\ InOrder(cs, R)
      OBVIOUS
    <3>5. Transitive(R, C)
      <4>1. \A x, y, z \in C : ConjLess(x, y) /\ ConjLess(y, z) => ConjLess(x, z)
        BY ConjLessTransitive
      <4> HIDE DEF C, R
      <4> QED BY <1>2, <4>1 DEF Transitive
    <3> HIDE DEF stops, m, C, R
    <3>6. CASE ~ ConjLess(c, cs[m])
      BY <2>1, <3>2, <3>4, <3>6 DEF R, C
    <3>7. CASE ConjLess(c, cs[m])
      <4>1. <<c, cs[m]>> \in R
        BY <1>1, <1>2, <3>1, <3>4, <3>7
      <4>2. \A i \in 1 .. n : i < m => <<cs[i], c>> \in R
        <5>1. ASSUME NEW i \in 1 .. n, i < m
              PROVE  <<cs[i], c>> \in R
          <6>1. ~ (m <= i)
            BY <1>1, <3>1, <5>1
          <6>2. ConjLess(cs[i], c)
            BY <3>1, <3>3, <6>1
          <6> QED BY <1>1, <1>2, <3>4, <6>2
        <5> QED BY <5>1
      <4>3. InOrder(InsertAt(cs, m, c), R)
        BY <3>1, <3>4, <3>5, <4>1, <4>2, InsertInOrder
      <4>4. AddConjunction(cs, c) = InsertAt(cs, m, c)
        BY <3>2, <3>7
      <4> QED BY <2>1, <4>3, <4>4 DEF R, C
    <3> QED BY <3>6, <3>7
  <2> QED BY <2>3, <2>4
<1> QED BY <1>3, <1>4

(* Whatever conjunctions a call adds, in whatever order, to a new object,  *)
(* the list of its result is in strict order, without duplicates.          *)
THEOREM AddAllKeepsOrder ==
  ASSUME NEW Exps, OrdersExps(Exps), NEW cs \in Seq(Conjs(Seq(Elems), Exps)),
         NEW list \in Seq(Conjs(Seq(Elems), Exps)), Blank(list)
  PROVE  /\ AddAll(list, cs) \in Seq(Conjs(Seq(Elems), Exps))
         /\ InOrder(AddAll(list, cs), ConjOrder(Exps))
<1> DEFINE C == Conjs(Seq(Elems), Exps)
           R == ConjOrder(Exps)
           L == {x \in Seq(C) : InOrder(x, R)}
           n == Len(cs)
<1>1. n \in Nat /\ n \in 0 .. n /\ \A i \in 1 .. n : cs[i] \in C
  <2>1. n \in Nat /\ \A i \in 1 .. n : cs[i] \in C
    BY ElementOfSeq
  <2> QED BY <2>1
<1>2. list \in L
  <2>1. Len(list) \in Nat /\ Len(list) <= 1
    <3>1. CASE list = <<>>
      BY <3>1
    <3>2. CASE Len(list) = 1
      BY <3>2
    <3> QED BY <3>1, <3>2 DEF Blank
  <2>2. \A i, j \in 1 .. Len(list) : ~ (i < j)
    BY <2>1
  <2> QED BY <2>2 DEF InOrder
<1>3. \A x \in L : \A i \in 1 .. n : AddConjunction(x, cs[i]) \in L
  <2>1. \A x \in L : \A c \in C : AddConjunction(x, c) \in L
    BY AddConjunctionKeepsOrder
  <2> HIDE DEF L, C
  <2> QED BY <1>1, <2>1
<1>4. PICK s \in [0 .. n -> L] : ConjunctionsUpTo(s, list, cs)
  <2> HIDE DEF L
  <2> QED BY <1>1, <1>2, <1>3, AddAllSteps
<1>5. AddAll(list, cs) \in L
  BY <1>1, <1>4 DEF ConjunctionsUpTo
<1> QED BY <1>5
=============================================================================
