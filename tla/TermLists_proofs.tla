-------------------------- MODULE TermLists_proofs --------------------------
(***************************************************************************)
(* Proofs about the operations of TermLists, for lists of terms of any     *)
(* length over any set of factors: what AddTerm and the operations built   *)
(* from it do to the value of an expression and to its canonical form.     *)
(***************************************************************************)
EXTENDS TermLists, Induction, SequenceTheorems, TLAPS

(* The terms over a set of factors, and the value of a list of them, val   *)
(* giving the factors' values.                                             *)
TermsOver(Factors) == [coef : Int, fac : Factors]
Weights(e, val) == [i \in DOMAIN e |-> e[i].coef * val[e[i].fac]]
ValueOf(e, val) == Total(Weights(e, val), Len(e))

(* s are the partial sums of the first n of w.                             *)
PartialSums(s, w, n) ==
  /\ s \in [0 .. n -> Int] /\ s[0] = 0
  /\ \A i \in 1 .. n : s[i] = s[i - 1] + w[i]
-----------------------------------------------------------------------------
(* A Total is the last of its partial sums, which exist.                   *)
LEMMA TotalSums ==
  ASSUME NEW n \in Nat, NEW w, \A i \in 1 .. n : w[i] \in Int
  PROVE  \E s : PartialSums(s, w, n) /\ Total(w, n) = s[n]
<1> DEFINE h == [x \in (1 .. n) \X Int |-> x[2] + w[x[1]]]
           f == CHOOSE g : g = [i \in 0 .. n |-> IF i = 0 THEN 0 ELSE g[i - 1] + w[i]]
<1>1. h \in [(1 .. n) \X Int -> Int] /\ 0 \in Int
  OBVIOUS
<1>2. PICK g \in [0 .. n -> Int] : IsRecursionTo(g, n, 0, h)
  <2> HIDE DEF h
  <2> QED BY <1>1, BoundedRecursion
<1>3. g = [i \in 0 .. n |-> IF i = 0 THEN 0 ELSE g[i - 1] + w[i]]
  <2>1. ASSUME NEW i \in 0 .. n, i # 0
        PROVE  h[<<i, g[i - 1]>>] = g[i - 1] + w[i]
    <3>1. i \in 1 .. n /\ i - 1 \in 0 .. n
      BY <2>1
    <3>2. <<i, g[i - 1]>> \in (1 .. n) \X Int
      BY <3>1
    <3> QED BY <3>2
  <2> HIDE DEF h
  <2> QED BY <1>2, <2>1 DEF IsRecursionTo
<1>4. f = [i \in 0 .. n |-> IF i = 0 THEN 0 ELSE f[i - 1] + w[i]]
  BY <1>3
<1>5. Total(w, n) = f[n]
  BY DEF Total
<1> HIDE DEF f
<1>6. f[0] = 0 /\ \A i \in 1 .. n : f[i] = f[i - 1] + w[i]
  <2>1. 0 \in 0 .. n /\ \A i \in 1 .. n : i \in 0 .. n /\ i # 0
    OBVIOUS
  <2> QED BY <1>4, <2>1
<1> DEFINE T == {i \in Nat : i <= n => f[i] \in Int}
<1>7. Nat \subseteq T
  <2>1. 0 \in T
    BY <1>6
  <2>2. ASSUME NEW i \in Nat, i \in T
        PROVE  i + 1 \in T
    <3> SUFFICES ASSUME i + 1 <= n
                 PROVE  f[i + 1] \in Int
      OBVIOUS
    <3>1. i + 1 \in 1 .. n /\ (i + 1) - 1 = i /\ f[i] \in Int
      BY <2>2
    <3>2. f[i + 1] = f[(i + 1) - 1] + w[i + 1] /\ w[i + 1] \in Int
      BY <1>6, <3>1
    <3> QED BY <3>1, <3>2
  <2> HIDE DEF T
  <2> QED BY <2>1, <2>2, SetInduction
<1>8. f \in [0 .. n -> Int]
  <2>1. \A i \in 0 .. n : f[i] \in Int
    BY <1>7
  <2> QED BY <1>4, <2>1
<1> QED BY <1>5, <1>6, <1>8 DEF PartialSums

(* Partial sums are determined by what is summed, so a Total can be        *)
(* computed by exhibiting them.                                            *)
LEMMA TotalIs ==
  ASSUME NEW n \in Nat, NEW w, \A i \in 1 .. n : w[i] \in Int,
         NEW s, PartialSums(s, w, n)
  PROVE  Total(w, n) = s[n] /\ Total(w, n) \in Int
<1>1. PICK f : PartialSums(f, w, n) /\ Total(w, n) = f[n]
  BY TotalSums
<1> DEFINE T == {i \in Nat : i <= n => f[i] = s[i]}
<1>2. 0 \in T
  BY <1>1 DEF PartialSums
<1>3. ASSUME NEW i \in Nat, i \in T
      PROVE  i + 1 \in T
  <2> SUFFICES ASSUME i + 1 <= n
               PROVE  f[i + 1] = s[i + 1]
    OBVIOUS
  <2>1. i + 1 \in 1 .. n /\ (i + 1) - 1 = i /\ f[i] = s[i]
    BY <1>3
  <2>2. /\ f[i + 1] = f[(i + 1) - 1] + w[i + 1]
        /\ s[i + 1] = s[(i + 1) - 1] + w[i + 1]
    BY <1>1, <2>1 DEF PartialSums
  <2> QED BY <2>1, <2>2
<1>4. Nat \subseteq T
  <2> HIDE DEF T
  <2> QED BY <1>2, <1>3, SetInduction
<1>5. n \in 0 .. n /\ s[n] \in Int
  BY DEF PartialSums
<1> QED BY <1>1, <1>4, <1>5

(* One more summand, anywhere: u has x at i, and w's first n around it.    *)
Inserted(u, w, n, i, x) ==
  \A j \in 1 .. n + 1 : u[j] = IF j < i THEN w[j] ELSE IF j = i THEN x ELSE w[j - 1]
LEMMA TotalInsert ==
  ASSUME NEW n \in Nat, NEW w, \A j \in 1 .. n : w[j] \in Int,
         NEW i \in 1 .. n + 1, NEW x \in Int, NEW u, Inserted(u, w, n, i, x)
  PROVE  Total(u, n + 1) = Total(w, n) + x
<1>1. PICK s : PartialSums(s, w, n) /\ Total(w, n) = s[n]
  BY TotalSums
<1>2. /\ s[0] = 0 /\ \A j \in 0 .. n : s[j] \in Int
      /\ \A j \in 1 .. n : s[j] = s[j - 1] + w[j]
  BY <1>1 DEF PartialSums
<1> DEFINE r == [j \in 0 .. n + 1 |-> IF j < i THEN s[j] ELSE s[j - 1] + x]
<1> USE DEF Inserted
<1>3. \A j \in 1 .. n + 1 : u[j] \in Int
  OBVIOUS
<1>4. r \in [0 .. n + 1 -> Int] /\ r[0] = 0 /\ r[n + 1] = s[n] + x
  BY <1>2
<1>5. ASSUME NEW j \in 1 .. n + 1
      PROVE  r[j] = r[j - 1] + u[j]
  <2>1. j \in 0 .. n + 1 /\ j - 1 \in 0 .. n + 1
    OBVIOUS
  <2>2. CASE j < i
    <3>1. j \in 1 .. n /\ j - 1 < i /\ r[j] = s[j] /\ r[j - 1] = s[j - 1] /\ u[j] = w[j]
      BY <2>1, <2>2
    <3> QED BY <1>2, <3>1
  <2>3. CASE j = i
    <3>1. r[j] = s[j - 1] + x /\ r[j - 1] = s[j - 1] /\ u[j] = x
      BY <2>1, <2>3
    <3> QED BY <3>1
  <2>4. CASE j > i
    <3>1. /\ j - 1 \in 1 .. n /\ ~ (j - 1 < i) /\ ~ (j < i)
          /\ r[j] = s[j - 1] + x /\ r[j - 1] = s[(j - 1) - 1] + x /\ u[j] = w[j - 1]
      BY <2>1, <2>4
    <3>2. s[j - 1] = s[(j - 1) - 1] + w[j - 1] /\ s[(j - 1) - 1] \in Int
      BY <1>2, <3>1
    <3> QED BY <3>1, <3>2
  <2> QED BY <2>2, <2>3, <2>4
<1>6. PartialSums(r, u, n + 1)
  <2> HIDE DEF r
  <2> QED BY <1>4, <1>5 DEF PartialSums
<1>7. Total(u, n + 1) = r[n + 1]
  <2> HIDE DEF r
  <2> QED BY <1>3, <1>6, TotalIs
<1> QED BY <1>1, <1>4, <1>7

(* One summand less.                                                       *)
LEMMA TotalRemove ==
  ASSUME NEW n \in Nat \ {0}, NEW w, \A j \in 1 .. n : w[j] \in Int,
         NEW i \in 1 .. n, NEW u,
         \A j \in 1 .. n - 1 : u[j] = IF j < i THEN w[j] ELSE w[j + 1]
  PROVE  Total(u, n - 1) = Total(w, n) - w[i]
<1>1. PICK m \in Nat : m + 1 = n
  <2>1. n - 1 \in Nat /\ (n - 1) + 1 = n
    OBVIOUS
  <2> QED BY <2>1
<1>2. /\ n - 1 = m /\ w[i] \in Int /\ i \in 1 .. m + 1 /\ 1 .. m = 1 .. n - 1
      /\ \A j \in 1 .. m : u[j] \in Int
  BY <1>1
<1>3. ASSUME NEW j \in 1 .. m + 1
      PROVE  w[j] = IF j < i THEN u[j] ELSE IF j = i THEN w[i] ELSE u[j - 1]
  <2>1. CASE j < i
    <3>1. j \in 1 .. n - 1
      BY <1>1, <2>1
    <3> QED BY <2>1, <3>1
  <2>2. CASE j > i
    <3>1. j - 1 \in 1 .. n - 1 /\ ~ (j - 1 < i) /\ (j - 1) + 1 = j /\ j # i /\ ~ (j < i)
      BY <1>1, <2>2
    <3> QED BY <2>2, <3>1
  <2>3. CASE j = i
    BY <2>3
  <2> QED BY <1>1, <2>1, <2>2, <2>3
<1>4. Total(w, m + 1) = Total(u, m) + w[i]
  <2>1. Inserted(w, u, m, i, w[i])
    BY <1>3 DEF Inserted
  <2> QED BY <1>2, <2>1, TotalInsert
<1>5. Total(u, m) \in Int
  BY <1>2, TotalSums, TotalIs
<1> QED BY <1>1, <1>2, <1>4, <1>5

(* One summand changed by x.                                               *)
Changed(u, w, n, i, x) == \A j \in 1 .. n : u[j] = IF j = i THEN w[j] + x ELSE w[j]
LEMMA TotalChange ==
  ASSUME NEW n \in Nat, NEW w, \A j \in 1 .. n : w[j] \in Int,
         NEW i \in 1 .. n, NEW x \in Int, NEW u, Changed(u, w, n, i, x)
  PROVE  Total(u, n) = Total(w, n) + x
<1> USE DEF Changed
<1>1. PICK s : PartialSums(s, w, n) /\ Total(w, n) = s[n]
  BY TotalSums
<1>2. /\ s[0] = 0 /\ \A j \in 0 .. n : s[j] \in Int
      /\ \A j \in 1 .. n : s[j] = s[j - 1] + w[j]
  BY <1>1 DEF PartialSums
<1> DEFINE r == [j \in 0 .. n |-> IF j < i THEN s[j] ELSE s[j] + x]
<1>3. \A j \in 1 .. n : u[j] \in Int
  OBVIOUS
<1>4. r \in [0 .. n -> Int] /\ r[0] = 0 /\ r[n] = s[n] + x
  BY <1>2
<1>5. ASSUME NEW j \in 1 .. n
      PROVE  r[j] = r[j - 1] + u[j]
  <2>1. j \in 0 .. n /\ j - 1 \in 0 .. n /\ s[j] = s[j - 1] + w[j] /\ s[j - 1] \in Int
    BY <1>2
  <2>2. CASE j < i
    BY <2>1, <2>2
  <2>3. CASE j = i
    BY <2>1, <2>3
  <2>4. CASE j > i
    BY <2>1, <2>4
  <2> QED BY <2>2, <2>3, <2>4
<1>6. PartialSums(r, u, n)
  <2> HIDE DEF r
  <2> QED BY <1>4, <1>5 DEF PartialSums
<1>7. Total(u, n) = r[n]
  <2> HIDE DEF r
  <2> QED BY <1>3, <1>6, TotalIs
<1> QED BY <1>1, <1>4, <1>7

(* Every summand multiplied by c.                                          *)
LEMMA TotalScale ==
  ASSUME NEW n \in Nat, NEW w, \A j \in 1 .. n : w[j] \in Int,
         NEW c \in Int, NEW u, \A j \in 1 .. n : u[j] = c * w[j]
  PROVE  Total(u, n) = c * Total(w, n)
<1>1. PICK s : PartialSums(s, w, n) /\ Total(w, n) = s[n]
  BY TotalSums
<1>2. /\ s[0] = 0 /\ \A j \in 0 .. n : s[j] \in Int
      /\ \A j \in 1 .. n : s[j] = s[j - 1] + w[j]
  BY <1>1 DEF PartialSums
<1> DEFINE r == [j \in 0 .. n |-> c * s[j]]
<1>3. \A j \in 1 .. n : u[j] \in Int
  OBVIOUS
<1>4. r \in [0 .. n -> Int] /\ r[0] = 0 /\ r[n] = c * s[n]
  BY <1>2
<1>5. ASSUME NEW j \in 1 .. n
      PROVE  r[j] = r[j - 1] + u[j]
  <2>1. j \in 0 .. n /\ j - 1 \in 0 .. n /\ s[j] = s[j - 1] + w[j] /\ s[j - 1] \in Int
    BY <1>2
  <2>2. r[j] = c * s[j] /\ r[j - 1] = c * s[j - 1] /\ u[j] = c * w[j]
    BY <2>1
  <2>3. \A a, b \in Int : c * (a + b) = c * a + c * b
    OBVIOUS
  <2> QED BY <2>1, <2>2, <2>3
<1>6. PartialSums(r, u, n)
  <2> HIDE DEF r
  <2> QED BY <1>4, <1>5 DEF PartialSums
<1>7. Total(u, n) = r[n]
  <2> HIDE DEF r
  <2> QED BY <1>3, <1>6, TotalIs
<1> QED BY <1>1, <1>4, <1>7
-----------------------------------------------------------------------------
(* What InsertAt, Append and RemoveAt return.                              *)
LEMMA InsertAtIs ==
  ASSUME NEW S, NEW s \in Seq(S), NEW i \in 1 .. Len(s), NEW x \in S
  PROVE  /\ InsertAt(s, i, x) \in Seq(S) /\ Len(InsertAt(s, i, x)) = Len(s) + 1
         /\ Inserted(InsertAt(s, i, x), s, Len(s), i, x)
<1>1. InsertAt(s, i, x) \in Seq(S)
  BY DEF InsertAt
<1>2. Len(InsertAt(s, i, x)) = Len(s) + 1
  BY DEF InsertAt
<1>3. ASSUME NEW j \in 1 .. Len(s) + 1
      PROVE  InsertAt(s, i, x)[j] = IF j < i THEN s[j] ELSE IF j = i THEN x ELSE s[j - 1]
  BY DEF InsertAt
<1> QED BY <1>1, <1>2, <1>3 DEF Inserted

LEMMA AppendIs ==
  ASSUME NEW S, NEW s \in Seq(S), NEW x \in S
  PROVE  /\ Append(s, x) \in Seq(S) /\ Len(Append(s, x)) = Len(s) + 1
         /\ Inserted(Append(s, x), s, Len(s), Len(s) + 1, x)
BY DEF Inserted

(* One element less: r has all of s's first n but the i-th.                *)
Deleted(r, s, n, i) == \A j \in 1 .. n - 1 : r[j] = IF j < i THEN s[j] ELSE s[j + 1]
LEMMA RemoveAtIs ==
  ASSUME NEW S, NEW s \in Seq(S), NEW i \in 1 .. Len(s)
  PROVE  /\ RemoveAt(s, i) \in Seq(S) /\ Len(RemoveAt(s, i)) = Len(s) - 1
         /\ Deleted(RemoveAt(s, i), s, Len(s), i)
<1>1. CASE i < Len(s)
  <2>1. PICK k \in 1 .. Len(s) : k = i + 1
    BY <1>1
  <2> DEFINE b == SubSeq(s, k, Len(s))
             a == SubSeq(s, 1, i - 1)
  <2>2. b \in Seq(S) /\ Len(b) = Len(s) - i /\ \A j \in 1 .. Len(s) - i : b[j] = s[j + i]
    BY <2>1
  <2>3. a \in Seq(S) /\ Len(a) = i - 1 /\ \A j \in 1 .. i - 1 : a[j] = s[j]
    OBVIOUS
  <2>4. RemoveAt(s, i) = a \o b
    BY <2>1 DEF RemoveAt
  <2> HIDE DEF a, b
  <2>5. RemoveAt(s, i) \in Seq(S) /\ Len(RemoveAt(s, i)) = Len(s) - 1
    BY <2>2, <2>3, <2>4
  <2>6. ASSUME NEW j \in 1 .. Len(s) - 1
        PROVE  RemoveAt(s, i)[j] = IF j < i THEN s[j] ELSE s[j + 1]
    <3>1. (a \o b)[j] = IF j <= i - 1 THEN a[j] ELSE b[j - (i - 1)]
      BY <2>2, <2>3
    <3>2. j >= i => j - (i - 1) \in 1 .. Len(s) - i /\ (j - (i - 1)) + i = j + 1
      OBVIOUS
    <3> QED BY <2>2, <2>3, <2>4, <3>1, <3>2
  <2> QED BY <2>5, <2>6 DEF Deleted
<1>2. CASE i = Len(s)
  <2>1. SubSeq(s, i + 1, Len(s)) = <<>>
    <3>1. i + 1 \in Int /\ Len(s) \in Int /\ Len(s) < i + 1
      BY <1>2
    <3> QED BY <3>1, SubSeqEmpty
  <2>2. SubSeq(s, 1, i - 1) \in Seq(S)
    OBVIOUS
  <2>3. RemoveAt(s, i) = SubSeq(s, 1, i - 1)
    BY <2>1, <2>2, ConcatEmptySeq DEF RemoveAt
  <2>4. Len(RemoveAt(s, i)) = Len(s) - 1
    BY <1>2, <2>3
  <2>5. ASSUME NEW j \in 1 .. Len(s) - 1
        PROVE  RemoveAt(s, i)[j] = IF j < i THEN s[j] ELSE s[j + 1]
    BY <1>2, <2>3
  <2> QED BY <2>2, <2>3, <2>4, <2>5 DEF Deleted
<1> QED BY <1>1, <1>2
-----------------------------------------------------------------------------
(* The three things addTerm does at the place i where its scan stops.      *)
NoStop(e, t, i) == \A j \in 1 .. i - 1 : ~ FactorMatches(e[j].fac, t.fac) /\ ~ TermLess(t, e[j])
GoesIn(r, e, t, i) ==
  /\ i \in 1 .. Len(e) + 1 /\ NoStop(e, t, i)
  /\ i <= Len(e) => TermLess(t, e[i]) /\ ~ FactorMatches(e[i].fac, t.fac)
  /\ Len(r) = Len(e) + 1 /\ Inserted(r, e, Len(e), i, t)
Cancels(r, e, t, i) ==
  /\ i \in 1 .. Len(e) /\ NoStop(e, t, i)
  /\ FactorMatches(e[i].fac, t.fac) /\ e[i].coef + t.coef = 0
  /\ Len(r) = Len(e) - 1 /\ Deleted(r, e, Len(e), i)
Combines(r, e, t, i) ==
  /\ i \in 1 .. Len(e) /\ NoStop(e, t, i)
  /\ FactorMatches(e[i].fac, t.fac) /\ e[i].coef + t.coef # 0
  /\ r = [e EXCEPT ![i].coef = e[i].coef + t.coef]

(* addTerm does one of them, or nothing for a zero term, whether the list  *)
(* is sorted or not.                                                       *)
LEMMA AddTermCases ==
  ASSUME NEW Factors, NEW e \in Seq(TermsOver(Factors)), NEW t \in TermsOver(Factors)
  PROVE  /\ AddTerm(e, t) \in Seq(TermsOver(Factors))
         /\ \/ t.coef = 0 /\ AddTerm(e, t) = e
            \/ t.coef # 0 /\ \E i : \/ GoesIn(AddTerm(e, t), e, t, i)
                                    \/ Cancels(AddTerm(e, t), e, t, i)
                                    \/ Combines(AddTerm(e, t), e, t, i)
<1> DEFINE S == TermsOver(Factors)
           stops == {i \in DOMAIN e : FactorMatches(e[i].fac, t.fac) \/ TermLess(t, e[i])}
           m == Min(stops)
<1>1. e \in Seq(S) /\ t \in S /\ DOMAIN e = 1 .. Len(e) /\ Len(e) \in Nat
  OBVIOUS
<1>2. CASE t.coef = 0
  <2>1. AddTerm(e, t) = e
    BY <1>2 DEF AddTerm
  <2> QED BY <1>2, <2>1
<1>3. CASE t.coef # 0 /\ stops = {}
  <2>1. AddTerm(e, t) = Append(e, t)
    BY <1>3 DEF AddTerm
  <2>2. NoStop(e, t, Len(e) + 1)
    <3>1. \A j \in 1 .. (Len(e) + 1) - 1 : j \in DOMAIN e
      BY <1>1
    <3> QED BY <1>3, <3>1 DEF NoStop
  <2> HIDE DEF S
  <2>3. AddTerm(e, t) \in Seq(S) /\ GoesIn(AddTerm(e, t), e, t, Len(e) + 1)
    <3>1. Len(e) + 1 \in 1 .. Len(e) + 1 /\ ~ (Len(e) + 1 <= Len(e))
      BY <1>1
    <3> QED BY <1>1, <2>1, <2>2, <3>1, AppendIs DEF GoesIn
  <2> QED BY <1>3, <2>3 DEF S
<1>4. CASE t.coef # 0 /\ stops # {}
  <2>1. m \in 1 .. Len(e) /\ m \in stops /\ \A j \in stops : m <= j
    <3>1. stops \subseteq Nat
      BY <1>1
    <3> HIDE DEF stops
    <3>2. \E x \in stops : \A y \in stops : x <= y
      BY <1>4, <3>1, LeastNatural
    <3>3. m \in stops /\ \A j \in stops : m <= j
      BY <3>2 DEF Min
    <3> QED BY <1>1, <3>3 DEF stops
  <2>2. NoStop(e, t, m)
    <3>1. ASSUME NEW j \in 1 .. m - 1
          PROVE  j \in DOMAIN e /\ ~ (m <= j)
      BY <1>1, <2>1
    <3>2. \A j \in 1 .. m - 1 : ~ (j \in stops)
      <4> HIDE DEF stops, m
      <4> QED BY <2>1, <3>1
    <3> QED BY <3>1, <3>2 DEF NoStop
  <2>3. FactorMatches(e[m].fac, t.fac) \/ TermLess(t, e[m])
    BY <2>1
  <2>4. e[m] \in S /\ e[m].coef + t.coef \in Int
    <3> HIDE DEF m, S, stops
    <3>1. e[m] \in S /\ t \in S
      BY <1>1, <2>1, ElementOfSeq
    <3> QED BY <3>1 DEF S, TermsOver
  <2>5. AddTerm(e, t) =
          CASE ~ FactorMatches(e[m].fac, t.fac) -> InsertAt(e, m, t)
            [] FactorMatches(e[m].fac, t.fac) /\ e[m].coef + t.coef = 0 -> RemoveAt(e, m)
            [] OTHER -> [e EXCEPT ![m].coef = e[m].coef + t.coef]
    BY <1>4 DEF AddTerm
  <2> HIDE DEF m, S
  <2>6. CASE ~ FactorMatches(e[m].fac, t.fac)
    <3>1. AddTerm(e, t) = InsertAt(e, m, t)
      BY <2>5, <2>6
    <3>2. AddTerm(e, t) \in Seq(S) /\ GoesIn(AddTerm(e, t), e, t, m)
      <4>1. m \in 1 .. Len(e) + 1
        BY <2>1
      <4> QED BY <1>1, <2>1, <2>2, <2>3, <2>6, <3>1, <4>1, InsertAtIs DEF GoesIn
    <3> QED BY <1>4, <3>2 DEF S
  <2>7. CASE FactorMatches(e[m].fac, t.fac) /\ e[m].coef + t.coef = 0
    <3>1. AddTerm(e, t) = RemoveAt(e, m)
      BY <2>5, <2>7
    <3>2. AddTerm(e, t) \in Seq(S) /\ Cancels(AddTerm(e, t), e, t, m)
      BY <1>1, <2>1, <2>2, <2>7, <3>1, RemoveAtIs DEF Cancels
    <3> QED BY <1>4, <3>2 DEF S
  <2>8. CASE FactorMatches(e[m].fac, t.fac) /\ e[m].coef + t.coef # 0
    <3>1. AddTerm(e, t) = [e EXCEPT ![m].coef = e[m].coef + t.coef]
      BY <2>5, <2>8
    <3>2. [e[m] EXCEPT !.coef = e[m].coef + t.coef] \in S
      BY <2>4 DEF S, TermsOver
    <3>3. [e EXCEPT ![m].coef = e[m].coef + t.coef]
            = [e EXCEPT ![m] = [e[m] EXCEPT !.coef = e[m].coef + t.coef]]
      OBVIOUS
    <3>4. AddTerm(e, t) \in Seq(S)
      BY <1>1, <2>1, <3>1, <3>2, <3>3, ExceptSeq
    <3>5. Combines(AddTerm(e, t), e, t, m)
      BY <2>1, <2>2, <2>8, <3>1 DEF Combines
    <3> QED BY <1>4, <3>4, <3>5 DEF S
  <2> QED BY <2>6, <2>7, <2>8
<1> QED BY <1>2, <1>3, <1>4
-----------------------------------------------------------------------------
(* val gives every factor an integer, factors that match the same one.     *)
Valuation(val, Factors) ==
  /\ val \in [Factors -> Int]
  /\ \A F, G \in Factors : FactorMatches(F, G) => val[F] = val[G]

(* The weights of a list are integers, at the places of its terms.         *)
LEMMA WeightsAre ==
  ASSUME NEW Factors, NEW val, Valuation(val, Factors), NEW e \in Seq(TermsOver(Factors))
  PROVE  /\ Len(e) \in Nat /\ DOMAIN Weights(e, val) = 1 .. Len(e)
         /\ \A j \in 1 .. Len(e) : /\ e[j] \in TermsOver(Factors)
                                   /\ e[j].coef \in Int /\ val[e[j].fac] \in Int
                                   /\ Weights(e, val)[j] = e[j].coef * val[e[j].fac]
                                   /\ Weights(e, val)[j] \in Int
         /\ ValueOf(e, val) \in Int
<1>1. DOMAIN e = 1 .. Len(e) /\ Len(e) \in Nat /\ \A j \in 1 .. Len(e) : e[j] \in TermsOver(Factors)
  BY ElementOfSeq
<1>2. ASSUME NEW j \in 1 .. Len(e)
      PROVE  /\ e[j].coef \in Int /\ val[e[j].fac] \in Int
             /\ Weights(e, val)[j] = e[j].coef * val[e[j].fac]
             /\ Weights(e, val)[j] \in Int
  <2>1. e[j].coef \in Int /\ e[j].fac \in Factors
    BY <1>1 DEF TermsOver
  <2>2. val[e[j].fac] \in Int
    BY <2>1 DEF Valuation
  <2>3. Weights(e, val)[j] = e[j].coef * val[e[j].fac]
    BY <1>1 DEF Weights
  <2> QED BY <2>1, <2>2, <2>3
<1>3. \A j \in 1 .. Len(e) : Weights(e, val)[j] \in Int
  BY <1>2
<1>4. ValueOf(e, val) \in Int
  BY <1>1, <1>3, TotalSums, TotalIs DEF ValueOf
<1>5. DOMAIN Weights(e, val) = 1 .. Len(e)
  BY <1>1 DEF Weights
<1> QED BY <1>1, <1>2, <1>4, <1>5

(* addTerm adds the value of the term, to a list in any order and with any *)
(* factors more than once: sorting is not what its arithmetic rests on.    *)
THEOREM AddTermAdds ==
  ASSUME NEW Factors, NEW val, Valuation(val, Factors),
         NEW e \in Seq(TermsOver(Factors)), NEW t \in TermsOver(Factors)
  PROVE  ValueOf(AddTerm(e, t), val) = ValueOf(e, val) + t.coef * val[t.fac]
<1> DEFINE r == AddTerm(e, t)
           w == Weights(e, val)
           u == Weights(r, val)
           x == t.coef * val[t.fac]
           n == Len(e)
<1>1. r \in Seq(TermsOver(Factors))
  BY AddTermCases
<1>2. /\ n \in Nat /\ ValueOf(e, val) \in Int
      /\ \A j \in 1 .. n : /\ w[j] = e[j].coef * val[e[j].fac] /\ w[j] \in Int
                           /\ e[j].coef \in Int /\ val[e[j].fac] \in Int /\ e[j] \in TermsOver(Factors)
  BY WeightsAre
<1>3. \A j \in 1 .. Len(r) : u[j] = r[j].coef * val[r[j].fac]
  BY <1>1, WeightsAre
<1>4. t.coef \in Int /\ t.fac \in Factors /\ val[t.fac] \in Int /\ x \in Int
  <2>1. t.coef \in Int /\ t.fac \in Factors
    BY DEF TermsOver
  <2>2. val[t.fac] \in Int
    BY <2>1 DEF Valuation
  <2> QED BY <2>1, <2>2
<1>5. ValueOf(e, val) = Total(w, n) /\ ValueOf(r, val) = Total(u, Len(r))
  BY DEF ValueOf
<1>6. CASE t.coef = 0 /\ r = e
  <2>1. x = 0
    BY <1>4, <1>6
  <2> HIDE DEF x, r
  <2> QED BY <1>2, <1>6, <2>1 DEF r, x
<1>7. ASSUME NEW i, GoesIn(r, e, t, i)
      PROVE  ValueOf(r, val) = ValueOf(e, val) + x
  <2> HIDE DEF r, w, u, x, n
  <2>1. i \in 1 .. n + 1 /\ Len(r) = n + 1 /\ Inserted(r, e, n, i, t)
    BY <1>7 DEF GoesIn, n
  <2>2. ASSUME NEW j \in 1 .. n + 1
        PROVE  u[j] = IF j < i THEN w[j] ELSE IF j = i THEN x ELSE w[j - 1]
    <3>1. u[j] = r[j].coef * val[r[j].fac]
      BY <1>3, <2>1
    <3>2. r[j] = IF j < i THEN e[j] ELSE IF j = i THEN t ELSE e[j - 1]
      BY <2>1 DEF Inserted
    <3>3. CASE j < i
      <4>1. j \in 1 .. n
        BY <1>2, <2>1, <3>3
      <4> QED BY <1>2, <3>1, <3>2, <3>3, <4>1
    <3>4. CASE j = i
      <4>1. ~ (j < i)
        BY <2>1, <3>4
      <4> QED BY <3>1, <3>2, <3>4, <4>1 DEF x
    <3>5. CASE j > i
      <4>1. j - 1 \in 1 .. n /\ ~ (j < i) /\ j # i
        BY <1>2, <2>1, <3>5
      <4> QED BY <1>2, <3>1, <3>2, <4>1
    <3> QED BY <1>2, <2>1, <3>3, <3>4, <3>5
  <2>3. Inserted(u, w, n, i, x)
    BY <2>2 DEF Inserted
  <2>4. Total(u, n + 1) = Total(w, n) + x
    BY <1>2, <1>4, <2>1, <2>3, TotalInsert
  <2> QED BY <1>5, <2>1, <2>4
<1>8. ASSUME NEW i \in 1 .. n, FactorMatches(e[i].fac, t.fac)
      PROVE  val[e[i].fac] = val[t.fac]
  <2>1. e[i].fac \in Factors
    BY <1>2 DEF TermsOver
  <2> QED BY <1>4, <1>8, <2>1 DEF Valuation
<1>9. ASSUME NEW i, Cancels(r, e, t, i)
      PROVE  ValueOf(r, val) = ValueOf(e, val) + x
  <2>1. /\ i \in 1 .. n /\ Len(r) = n - 1 /\ Deleted(r, e, n, i)
        /\ FactorMatches(e[i].fac, t.fac) /\ e[i].coef + t.coef = 0
    <3> HIDE DEF r
    <3> QED BY <1>9 DEF Cancels
  <2> HIDE DEF r, w, u, n
  <2>2. w[i] = - x
    <3>1. val[e[i].fac] = val[t.fac] /\ w[i] = e[i].coef * val[e[i].fac] /\ e[i].coef = - t.coef
      <4>1. w[i] = e[i].coef * val[e[i].fac] /\ e[i].coef \in Int
        BY <1>2, <2>1
      <4>2. e[i].coef = - t.coef
        BY <1>4, <2>1, <4>1
      <4>3. val[e[i].fac] = val[t.fac]
        BY <1>8, <2>1
      <4> QED BY <4>1, <4>2, <4>3
    <3>2. \A a, b \in Int : (-a) * b = -(a * b)
      OBVIOUS
    <3> QED BY <1>4, <3>1, <3>2
  <2> HIDE DEF x
  <2>3. ASSUME NEW j \in 1 .. n - 1
        PROVE  u[j] = IF j < i THEN w[j] ELSE w[j + 1]
    <3>1. u[j] = r[j].coef * val[r[j].fac] /\ r[j] = IF j < i THEN e[j] ELSE e[j + 1]
      BY <1>3, <2>1 DEF Deleted
    <3>2. j \in 1 .. n /\ j + 1 \in 1 .. n
      BY <1>2
    <3> QED BY <1>2, <3>1, <3>2
  <2>4. n \in Nat \ {0}
    BY <1>2, <2>1
  <2>5. Total(u, n - 1) = Total(w, n) - w[i]
    BY <1>2, <2>1, <2>3, <2>4, TotalRemove
  <2> QED BY <1>2, <1>4, <1>5, <2>1, <2>2, <2>5
<1>10. ASSUME NEW i, Combines(r, e, t, i)
       PROVE  ValueOf(r, val) = ValueOf(e, val) + x
  <2>1. /\ i \in 1 .. n /\ r = [e EXCEPT ![i].coef = e[i].coef + t.coef]
        /\ FactorMatches(e[i].fac, t.fac)
    <3> HIDE DEF r
    <3> QED BY <1>10 DEF Combines
  <2>2. /\ Len(r) = n
        /\ \A j \in 1 .. n : j # i => r[j] = e[j]
        /\ r[i].coef = e[i].coef + t.coef /\ r[i].fac = e[i].fac
    <3> HIDE DEF r
    <3> QED BY <1>2, <2>1 DEF TermsOver
  <2> HIDE DEF r, w, u, n
  <2>3. u[i] = w[i] + x
    <3>1. val[e[i].fac] = val[t.fac] /\ w[i] = e[i].coef * val[e[i].fac]
      BY <1>2, <1>8, <2>1
    <3>2. u[i] = (e[i].coef + t.coef) * val[t.fac]
      BY <1>3, <2>1, <2>2, <3>1
    <3>3. \A a, b, c \in Int : (a + b) * c = a * c + b * c
      OBVIOUS
    <3>4. e[i].coef \in Int
      BY <1>2, <2>1
    <3>5. (e[i].coef + t.coef) * val[t.fac] = e[i].coef * val[t.fac] + t.coef * val[t.fac]
      BY <1>4, <3>3, <3>4
    <3> QED BY <3>1, <3>2, <3>5
  <2> HIDE DEF x
  <2>4. ASSUME NEW j \in 1 .. n
        PROVE  u[j] = IF j = i THEN w[j] + x ELSE w[j]
    BY <1>2, <1>3, <2>2, <2>3
  <2>5. Total(u, n) = Total(w, n) + x
    <3>1. Changed(u, w, n, i, x)
      BY <2>4 DEF Changed
    <3> QED BY <1>2, <1>4, <2>1, <3>1, TotalChange
  <2> QED BY <1>5, <2>2, <2>5
<1> HIDE DEF r, x
<1> QED BY <1>6, <1>7, <1>9, <1>10, AddTermCases DEF r, x
-----------------------------------------------------------------------------
(* s are the lists addExp goes through, adding the terms of e one by one.  *)
AddedUpTo(s, d, e) ==
  /\ s[0] = d /\ \A i \in 1 .. Len(e) : s[i] = AddTerm(s[i - 1], e[i])
  /\ AddExp(d, e) = s[Len(e)]

(* Adding terms one by one stays in any set of lists that addTerm does not *)
(* leave.                                                                  *)
LEMMA AddExpSteps ==
  ASSUME NEW C, NEW d \in C, NEW e, Len(e) \in Nat,
         \A x \in C : \A i \in 1 .. Len(e) : AddTerm(x, e[i]) \in C
  PROVE  \E s \in [0 .. Len(e) -> C] : AddedUpTo(s, d, e)
<1> DEFINE n == Len(e)
           h == [x \in (1 .. n) \X C |-> AddTerm(x[2], e[x[1]])]
           f == CHOOSE g : g = [i \in 0 .. n |-> IF i = 0 THEN d ELSE AddTerm(g[i - 1], e[i])]
<1>1. h \in [(1 .. n) \X C -> C] /\ n \in Nat
  OBVIOUS
<1>2. PICK g \in [0 .. n -> C] : IsRecursionTo(g, n, d, h)
  <2> HIDE DEF h, n
  <2> QED BY <1>1, BoundedRecursion
<1>3. g = [i \in 0 .. n |-> IF i = 0 THEN d ELSE AddTerm(g[i - 1], e[i])]
  <2>1. ASSUME NEW i \in 0 .. n, i # 0
        PROVE  h[<<i, g[i - 1]>>] = AddTerm(g[i - 1], e[i])
    <3>1. i \in 1 .. n /\ i - 1 \in 0 .. n
      BY <2>1
    <3>2. <<i, g[i - 1]>> \in (1 .. n) \X C
      BY <3>1
    <3> QED BY <3>2
  <2> HIDE DEF h
  <2> QED BY <1>2, <2>1 DEF IsRecursionTo
<1>4. f = [i \in 0 .. n |-> IF i = 0 THEN d ELSE AddTerm(f[i - 1], e[i])]
  BY <1>3
<1>5. AddExp(d, e) = f[n]
  BY DEF AddExp
<1> HIDE DEF f, n
<1>6. f[0] = d /\ \A i \in 1 .. n : f[i] = AddTerm(f[i - 1], e[i])
  <2>1. 0 \in 0 .. n /\ \A i \in 1 .. n : i \in 0 .. n /\ i # 0
    BY <1>1
  <2> QED BY <1>4, <2>1
<1> DEFINE T == {i \in Nat : i <= n => f[i] \in C}
<1>7. Nat \subseteq T
  <2>1. 0 \in T
    BY <1>6
  <2>2. ASSUME NEW i \in Nat, i \in T
        PROVE  i + 1 \in T
    <3> SUFFICES ASSUME i + 1 <= n
                 PROVE  f[i + 1] \in C
      OBVIOUS
    <3>1. i + 1 \in 1 .. n /\ (i + 1) - 1 = i /\ f[i] \in C
      BY <1>1, <2>2
    <3>2. f[i + 1] = AddTerm(f[i], e[i + 1])
      BY <1>6, <3>1
    <3> QED BY <3>1, <3>2 DEF n
  <2> HIDE DEF T
  <2> QED BY <2>1, <2>2, SetInduction
<1>8. f \in [0 .. n -> C]
  <2>1. \A i \in 0 .. n : f[i] \in C
    BY <1>1, <1>7
  <2> QED BY <1>4, <2>1
<1> QED BY <1>5, <1>6, <1>8 DEF AddedUpTo, n

(* addExp returns a list of terms whose value is the sum of the values.    *)
THEOREM AddExpAdds ==
  ASSUME NEW Factors, NEW d \in Seq(TermsOver(Factors)), NEW e \in Seq(TermsOver(Factors))
  PROVE  /\ AddExp(d, e) \in Seq(TermsOver(Factors))
         /\ \A val : Valuation(val, Factors) =>
              ValueOf(AddExp(d, e), val) = ValueOf(d, val) + ValueOf(e, val)
<1> DEFINE S == TermsOver(Factors)
           n == Len(e)
<1>1. n \in Nat /\ \A i \in 1 .. n : e[i] \in S
  BY ElementOfSeq
<1>2. PICK s \in [0 .. n -> Seq(S)] : AddedUpTo(s, d, e)
  <2>1. \A x \in Seq(S) : \A i \in 1 .. n : AddTerm(x, e[i]) \in Seq(S)
    BY <1>1, AddTermCases
  <2> HIDE DEF S
  <2>2. d \in Seq(S)
    BY DEF S
  <2> QED BY <1>1, <2>1, <2>2, AddExpSteps
<1>3. AddExp(d, e) = s[n] /\ n \in 0 .. n
  BY <1>1, <1>2 DEF AddedUpTo
<1>4. ASSUME NEW val, Valuation(val, Factors)
      PROVE  ValueOf(AddExp(d, e), val) = ValueOf(d, val) + ValueOf(e, val)
  <2> DEFINE w == Weights(e, val)
  <2>1. ValueOf(d, val) \in Int /\ \A i \in 1 .. n : w[i] \in Int /\ w[i] = e[i].coef * val[e[i].fac]
    BY <1>4, WeightsAre
  <2> HIDE DEF n, w
  <2>2. PICK p : PartialSums(p, w, n) /\ Total(w, n) = p[n]
    BY <1>1, <2>1, TotalSums
  <2>3. /\ p[0] = 0 /\ \A i \in 0 .. n : p[i] \in Int
        /\ \A i \in 1 .. n : p[i] = p[i - 1] + w[i]
    BY <2>2 DEF PartialSums
  <2> DEFINE T == {i \in Nat : i <= n => ValueOf(s[i], val) = ValueOf(d, val) + p[i]}
  <2>4. 0 \in T
    BY <1>2, <2>1, <2>3 DEF AddedUpTo
  <2>5. ASSUME NEW i \in Nat, i \in T
        PROVE  i + 1 \in T
    <3> SUFFICES ASSUME i + 1 <= n
                 PROVE  ValueOf(s[i + 1], val) = ValueOf(d, val) + p[i + 1]
      OBVIOUS
    <3>1. /\ i + 1 \in 1 .. n /\ (i + 1) - 1 = i /\ i \in 0 .. n /\ s[i] \in Seq(S)
          /\ ValueOf(s[i], val) = ValueOf(d, val) + p[i]
      BY <1>1, <1>2, <2>5
    <3>2. s[i + 1] = AddTerm(s[i], e[i + 1])
      BY <1>2, <3>1 DEF AddedUpTo, n
    <3>3. ValueOf(s[i + 1], val) = ValueOf(s[i], val) + e[i + 1].coef * val[e[i + 1].fac]
      BY <1>1, <1>4, <3>1, <3>2, AddTermAdds
    <3>4. /\ p[i + 1] = p[i] + w[i + 1] /\ w[i + 1] = e[i + 1].coef * val[e[i + 1].fac]
          /\ p[i] \in Int /\ w[i + 1] \in Int
      BY <2>1, <2>3, <3>1
    <3> QED BY <2>1, <3>1, <3>3, <3>4
  <2>6. Nat \subseteq T
    <3> HIDE DEF T
    <3> QED BY <2>4, <2>5, SetInduction
  <2>7. ValueOf(s[n], val) = ValueOf(d, val) + p[n]
    BY <1>1, <2>6
  <2> QED BY <1>3, <2>2, <2>7 DEF ValueOf, w, n
<1> QED BY <1>2, <1>3, <1>4
-----------------------------------------------------------------------------
(* The order of terms with different factors, and what canonical means in  *)
(* its terms.                                                              *)
Before(t, u) == TermLess(t, u) /\ t.fac # u.fac
LEMMA BeforeOrders ==
  ASSUME NEW S, OrdersFactors(S), NEW t \in S, NEW u \in S, Before(t, u), NEW v \in S
  PROVE  /\ Before(u, v) => Before(t, v)
         /\ v.fac = t.fac => Before(v, u)
         /\ v.fac = u.fac => Before(t, v)
<1>1. TermLess(t, u) /\ t.fac # u.fac /\ ~ TermLess(u, t)
  BY DEF Before, OrdersFactors
<1>2. v.fac = t.fac => Before(v, u)
  BY <1>1 DEF Before, OrdersFactors
<1>3. v.fac = u.fac => Before(t, v)
  BY <1>1 DEF Before, OrdersFactors
<1>4. ASSUME Before(u, v)
      PROVE  Before(t, v)
  <2>1. TermLess(u, v) /\ ~ TermLess(v, u) /\ TermLess(t, v)
    BY <1>1, <1>4 DEF Before, OrdersFactors
  <2>2. t.fac # v.fac
    BY <1>2, <2>1 DEF Before
  <2> QED BY <2>1, <2>2 DEF Before
<1> QED BY <1>2, <1>3, <1>4

LEMMA CanonicalIs ==
  ASSUME NEW Factors, Exact(Factors), NEW e \in Seq(TermsOver(Factors))
  PROVE  CanonicalList(e) <=> /\ \A i \in 1 .. Len(e) : e[i].coef # 0
                              /\ \A i, j \in 1 .. Len(e) : i < j => Before(e[i], e[j])
<1>1. DOMAIN e = 1 .. Len(e) /\ \A i \in 1 .. Len(e) : e[i].fac \in Factors
  <2>1. \A i \in 1 .. Len(e) : e[i] \in TermsOver(Factors)
    BY ElementOfSeq
  <2> QED BY <2>1 DEF TermsOver
<1>2. \A i, j \in 1 .. Len(e) : e[i].fac # e[j].fac <=> ~ FactorMatches(e[i].fac, e[j].fac)
  BY <1>1 DEF FactorMatches, Exact
<1> QED BY <1>1, <1>2 DEF CanonicalList, Before

(* addTerm keeps the canonical form, for every order of terms that orders  *)
(* factors and factors that are the same when they match.                  *)
THEOREM AddTermCanonical ==
  ASSUME NEW Factors, Exact(Factors), OrdersFactors(TermsOver(Factors)),
         NEW e \in Seq(TermsOver(Factors)), CanonicalList(e), NEW t \in TermsOver(Factors)
  PROVE  CanonicalList(AddTerm(e, t))
<1> DEFINE S == TermsOver(Factors)
           r == AddTerm(e, t)
           n == Len(e)
<1>1. n \in Nat /\ \A i \in 1 .. n : e[i] \in S
  BY ElementOfSeq
<1>2. \A i \in 1 .. n : e[i].coef # 0
  BY CanonicalIs
<1>3. \A i, j \in 1 .. n : i < j => Before(e[i], e[j])
  BY CanonicalIs
<1>4. r \in Seq(S) /\ t \in S /\ OrdersFactors(S)
  BY AddTermCases
<1>5. SUFFICES ASSUME r # e
               PROVE  /\ \A i \in 1 .. Len(r) : r[i].coef # 0
                      /\ \A i, j \in 1 .. Len(r) : i < j => Before(r[i], r[j])
  <2>1. CASE r = e
    BY <2>1
  <2>2. CASE r # e
    <3> HIDE DEF r
    <3>1. CanonicalList(r)
      BY <1>4, <1>5, <2>2, CanonicalIs
    <3> QED BY <3>1 DEF r
  <2> QED BY <2>1, <2>2
<1>6. PICK k : t.coef # 0 /\ (GoesIn(r, e, t, k) \/ Cancels(r, e, t, k) \/ Combines(r, e, t, k))
  BY <1>5, AddTermCases
<1> HIDE DEF r, n, S
<1>7. CASE GoesIn(r, e, t, k)
  <2>1. /\ k \in 1 .. n + 1 /\ Len(r) = n + 1
        /\ \A j \in 1 .. n + 1 : r[j] = IF j < k THEN e[j] ELSE IF j = k THEN t ELSE e[j - 1]
    BY <1>7 DEF GoesIn, Inserted, n
  <2>2. ASSUME NEW j \in 1 .. n, j < k
        PROVE  Before(e[j], t)
    <3>1. j \in 1 .. k - 1
      BY <2>1, <2>2
    <3>2. ~ FactorMatches(e[j].fac, t.fac) /\ ~ TermLess(t, e[j])
      BY <1>7, <3>1 DEF GoesIn, NoStop
    <3>3. e[j].fac # t.fac
      BY <3>2 DEF FactorMatches
    <3> QED BY <1>1, <1>4, <3>2, <3>3 DEF OrdersFactors, Before
  <2>3. ASSUME NEW j \in 1 .. n, j >= k
        PROVE  Before(t, e[j])
    <3>1. k \in 1 .. n /\ k <= n
      BY <1>1, <2>1, <2>3
    <3>2. Before(t, e[k])
      <4>1. TermLess(t, e[k]) /\ ~ FactorMatches(e[k].fac, t.fac)
        BY <1>7, <3>1 DEF GoesIn, n
      <4> QED BY <4>1 DEF FactorMatches, Before
    <3>3. CASE j = k
      BY <3>2, <3>3
    <3>4. CASE j > k
      <4>1. Before(e[k], e[j])
        BY <1>3, <3>1, <3>4
      <4> QED BY <1>1, <1>4, <3>1, <3>2, <4>1, BeforeOrders
    <3> QED BY <2>3, <3>1, <3>3, <3>4
  <2>4. ASSUME NEW i \in 1 .. n + 1, NEW j \in 1 .. n + 1, i < j
        PROVE  Before(r[i], r[j])
    <3>1. CASE j < k
      <4>1. i \in 1 .. n /\ j \in 1 .. n /\ i < k /\ r[i] = e[i] /\ r[j] = e[j]
        BY <1>1, <2>1, <2>4, <3>1
      <4> QED BY <1>3, <2>4, <4>1
    <3>2. CASE j = k
      <4>1. i \in 1 .. n /\ i < k /\ r[i] = e[i] /\ r[j] = t
        BY <1>1, <2>1, <2>4, <3>2
      <4> QED BY <2>2, <4>1
    <3>3. CASE j > k /\ i < k
      <4>1. i \in 1 .. n /\ j - 1 \in 1 .. n /\ i < j - 1 /\ r[i] = e[i] /\ r[j] = e[j - 1]
        BY <1>1, <2>1, <2>4, <3>3
      <4> QED BY <1>3, <4>1
    <3>4. CASE j > k /\ i = k
      <4>1. j - 1 \in 1 .. n /\ j - 1 >= k /\ r[i] = t /\ r[j] = e[j - 1]
        BY <1>1, <2>1, <2>4, <3>4
      <4> QED BY <2>3, <4>1
    <3>5. CASE j > k /\ i > k
      <4>1. i - 1 \in 1 .. n /\ j - 1 \in 1 .. n /\ i - 1 < j - 1 /\ r[i] = e[i - 1] /\ r[j] = e[j - 1]
        BY <1>1, <2>1, <2>4, <3>5
      <4> QED BY <1>3, <4>1
    <3> QED BY <2>1, <3>1, <3>2, <3>3, <3>4, <3>5
  <2>5. ASSUME NEW i \in 1 .. n + 1
        PROVE  r[i].coef # 0
    <3>1. i < k => i \in 1 .. n /\ r[i] = e[i]
      BY <1>1, <2>1
    <3>2. i = k => r[i] = t
      BY <2>1
    <3>3. i > k => i - 1 \in 1 .. n /\ r[i] = e[i - 1]
      BY <1>1, <2>1
    <3> QED BY <1>2, <1>6, <2>1, <3>1, <3>2, <3>3
  <2> QED BY <2>1, <2>4, <2>5
<1>8. CASE Cancels(r, e, t, k)
  <2>1. /\ k \in 1 .. n /\ Len(r) = n - 1
        /\ \A j \in 1 .. n - 1 : r[j] = IF j < k THEN e[j] ELSE e[j + 1]
    BY <1>8 DEF Cancels, Deleted, n
  <2>2. ASSUME NEW i \in 1 .. n - 1, NEW j \in 1 .. n - 1, i < j
        PROVE  Before(r[i], r[j])
    <3>1. CASE j < k
      <4>1. i \in 1 .. n /\ j \in 1 .. n /\ r[i] = e[i] /\ r[j] = e[j]
        BY <1>1, <2>1, <2>2, <3>1
      <4> QED BY <1>3, <2>2, <4>1
    <3>2. CASE j >= k /\ i < k
      <4>1. i \in 1 .. n /\ j + 1 \in 1 .. n /\ i < j + 1 /\ r[i] = e[i] /\ r[j] = e[j + 1]
        BY <1>1, <2>1, <2>2, <3>2
      <4> QED BY <1>3, <4>1
    <3>3. CASE j >= k /\ i >= k
      <4>1. /\ i + 1 \in 1 .. n /\ j + 1 \in 1 .. n /\ i + 1 < j + 1
            /\ r[i] = e[i + 1] /\ r[j] = e[j + 1]
        BY <1>1, <2>1, <2>2, <3>3
      <4> QED BY <1>3, <4>1
    <3> QED BY <2>1, <3>1, <3>2, <3>3
  <2>3. ASSUME NEW i \in 1 .. n - 1
        PROVE  r[i].coef # 0
    <3>1. i \in 1 .. n /\ i + 1 \in 1 .. n
      BY <1>1
    <3> QED BY <1>2, <2>1, <3>1
  <2> QED BY <2>1, <2>2, <2>3
<1>9. CASE Combines(r, e, t, k)
  <2>1. /\ k \in 1 .. n /\ r = [e EXCEPT ![k].coef = e[k].coef + t.coef]
        /\ e[k].coef + t.coef # 0
    BY <1>9 DEF Combines, n
  <2>2. /\ Len(r) = n
        /\ \A j \in 1 .. n : r[j] \in S /\ r[j].fac = e[j].fac /\ (j # k => r[j] = e[j])
        /\ r[k].coef = e[k].coef + t.coef
    <3>1. Len(r) = n /\ DOMAIN r = 1 .. n
      BY <1>1, <1>4, <2>1 DEF n
    <3>2. \A j \in 1 .. n : r[j] \in S
      BY <1>4, <3>1, ElementOfSeq
    <3>3. ASSUME NEW j \in 1 .. n
          PROVE  r[j].fac = e[j].fac /\ (j # k => r[j] = e[j])
      BY <1>1, <2>1 DEF S, TermsOver, n
    <3>4. r[k].coef = e[k].coef + t.coef
      BY <1>1, <2>1 DEF S, TermsOver, n
    <3> QED BY <3>1, <3>2, <3>3, <3>4
  <2>3. ASSUME NEW i \in 1 .. n, NEW j \in 1 .. n, i < j
        PROVE  Before(r[i], r[j])
    <3>1. Before(e[i], e[j])
      BY <1>3, <2>3
    <3>2. Before(r[i], e[j])
      BY <1>1, <1>4, <2>2, <3>1, BeforeOrders
    <3> QED BY <1>1, <1>4, <2>2, <3>2, BeforeOrders
  <2>4. ASSUME NEW i \in 1 .. n
        PROVE  r[i].coef # 0
    BY <1>2, <2>1, <2>2
  <2> QED BY <2>2, <2>3, <2>4
<1> QED BY <1>6, <1>7, <1>8, <1>9
-----------------------------------------------------------------------------
(* s are the lists that Rebuild goes through.                              *)
RebuiltUpTo(s, lists) ==
  /\ s[0] = <<>> /\ \A i \in 1 .. Len(lists) : s[i] = AddExp(s[i - 1], lists[i])
  /\ Rebuild(lists) = s[Len(lists)]

(* Rebuilding stays in any set of lists that has the empty one and that    *)
(* addExp does not leave.                                                  *)
LEMMA RebuildSteps ==
  ASSUME NEW C, <<>> \in C, NEW lists, Len(lists) \in Nat,
         \A x \in C : \A i \in 1 .. Len(lists) : AddExp(x, lists[i]) \in C
  PROVE  \E s \in [0 .. Len(lists) -> C] : RebuiltUpTo(s, lists)
<1> DEFINE n == Len(lists)
           h == [x \in (1 .. n) \X C |-> AddExp(x[2], lists[x[1]])]
           f == CHOOSE g : g = [i \in 0 .. n |-> IF i = 0 THEN <<>> ELSE AddExp(g[i - 1], lists[i])]
<1>1. h \in [(1 .. n) \X C -> C] /\ n \in Nat
  OBVIOUS
<1>2. PICK g \in [0 .. n -> C] : IsRecursionTo(g, n, <<>>, h)
  <2> HIDE DEF h, n
  <2> QED BY <1>1, BoundedRecursion
<1>3. g = [i \in 0 .. n |-> IF i = 0 THEN <<>> ELSE AddExp(g[i - 1], lists[i])]
  <2>1. ASSUME NEW i \in 0 .. n, i # 0
        PROVE  h[<<i, g[i - 1]>>] = AddExp(g[i - 1], lists[i])
    <3>1. i \in 1 .. n /\ i - 1 \in 0 .. n
      BY <2>1
    <3>2. <<i, g[i - 1]>> \in (1 .. n) \X C
      BY <3>1
    <3> QED BY <3>2
  <2> HIDE DEF h
  <2> QED BY <1>2, <2>1 DEF IsRecursionTo
<1>4. f = [i \in 0 .. n |-> IF i = 0 THEN <<>> ELSE AddExp(f[i - 1], lists[i])]
  BY <1>3
<1>5. Rebuild(lists) = f[n]
  BY DEF Rebuild
<1> HIDE DEF f, n
<1>6. f[0] = <<>> /\ \A i \in 1 .. n : f[i] = AddExp(f[i - 1], lists[i])
  <2>1. 0 \in 0 .. n /\ \A i \in 1 .. n : i \in 0 .. n /\ i # 0
    BY <1>1
  <2> QED BY <1>4, <2>1
<1> DEFINE T == {i \in Nat : i <= n => f[i] \in C}
<1>7. Nat \subseteq T
  <2>1. 0 \in T
    BY <1>6
  <2>2. ASSUME NEW i \in Nat, i \in T
        PROVE  i + 1 \in T
    <3> SUFFICES ASSUME i + 1 <= n
                 PROVE  f[i + 1] \in C
      OBVIOUS
    <3>1. i + 1 \in 1 .. n /\ (i + 1) - 1 = i /\ f[i] \in C
      BY <1>1, <2>2
    <3>2. f[i + 1] = AddExp(f[i], lists[i + 1])
      BY <1>6, <3>1
    <3> QED BY <3>1, <3>2 DEF n
  <2> HIDE DEF T
  <2> QED BY <2>1, <2>2, SetInduction
<1>8. f \in [0 .. n -> C]
  <2>1. \A i \in 0 .. n : f[i] \in C
    BY <1>1, <1>7
  <2> QED BY <1>4, <2>1
<1> QED BY <1>5, <1>6, <1>8 DEF RebuiltUpTo, n

(* addExp keeps the canonical form of the list it adds to, whatever the    *)
(* form of the one it adds.                                                *)
LEMMA AddExpCanonical ==
  ASSUME NEW Factors, Exact(Factors), OrdersFactors(TermsOver(Factors)),
         NEW d \in Seq(TermsOver(Factors)), CanonicalList(d), NEW e \in Seq(TermsOver(Factors))
  PROVE  AddExp(d, e) \in Seq(TermsOver(Factors)) /\ CanonicalList(AddExp(d, e))
<1> DEFINE C == {x \in Seq(TermsOver(Factors)) : CanonicalList(x)}
<1>1. Len(e) \in Nat /\ \A i \in 1 .. Len(e) : e[i] \in TermsOver(Factors)
  BY ElementOfSeq
<1>2. d \in C /\ \A x \in C : \A i \in 1 .. Len(e) : AddTerm(x, e[i]) \in C
  BY <1>1, AddTermCases, AddTermCanonical
<1>3. PICK s \in [0 .. Len(e) -> C] : AddedUpTo(s, d, e)
  <2> HIDE DEF C
  <2> QED BY <1>1, <1>2, AddExpSteps
<1>4. AddExp(d, e) \in C
  BY <1>1, <1>3 DEF AddedUpTo
<1> QED BY <1>4

(* A rebuilt list is canonical whatever lists it is built from: this is    *)
(* why substitute and collapseNestedInvertibleFunctions, which end every   *)
(* change of an expression, repair what remapTupleVars leaves unsorted.    *)
THEOREM RebuildCanonical ==
  ASSUME NEW Factors, Exact(Factors), OrdersFactors(TermsOver(Factors)),
         NEW lists \in Seq(Seq(TermsOver(Factors)))
  PROVE  Rebuild(lists) \in Seq(TermsOver(Factors)) /\ CanonicalList(Rebuild(lists))
<1> DEFINE C == {x \in Seq(TermsOver(Factors)) : CanonicalList(x)}
<1>1. Len(lists) \in Nat /\ \A i \in 1 .. Len(lists) : lists[i] \in Seq(TermsOver(Factors))
  BY ElementOfSeq
<1>2. <<>> \in C
  <2>1. <<>> \in Seq(TermsOver(Factors)) /\ DOMAIN <<>> = {}
    OBVIOUS
  <2> QED BY <2>1 DEF CanonicalList
<1>3. \A x \in C : \A i \in 1 .. Len(lists) : AddExp(x, lists[i]) \in C
  BY <1>1, AddExpCanonical
<1>4. PICK s \in [0 .. Len(lists) -> C] : RebuiltUpTo(s, lists)
  <2> HIDE DEF C
  <2> QED BY <1>1, <1>2, <1>3, RebuildSteps
<1>5. Rebuild(lists) \in C
  BY <1>1, <1>4 DEF RebuiltUpTo
<1> QED BY <1>5

(* The value of a rebuilt list is the sum of the values of the lists: so a *)
(* substitution is right as soon as each term is replaced by a list with   *)
(* the term's value at the point substituted (val2), term by term.         *)
THEOREM RebuildReplaces ==
  ASSUME NEW Factors, NEW lists \in Seq(Seq(TermsOver(Factors))),
         NEW val, Valuation(val, Factors),
         NEW e \in Seq(TermsOver(Factors)), Len(e) = Len(lists),
         NEW val2, Valuation(val2, Factors),
         \A i \in 1 .. Len(e) : ValueOf(lists[i], val) = e[i].coef * val2[e[i].fac]
  PROVE  ValueOf(Rebuild(lists), val) = ValueOf(e, val2)
<1> DEFINE S == TermsOver(Factors)
           n == Len(e)
           w == Weights(e, val2)
<1>1. n \in Nat /\ \A i \in 1 .. n : lists[i] \in Seq(S)
  BY ElementOfSeq
<1>2. \A i \in 1 .. n : w[i] \in Int /\ w[i] = ValueOf(lists[i], val)
  BY WeightsAre
<1>3. PICK s \in [0 .. n -> Seq(S)] : RebuiltUpTo(s, lists)
  <2>1. <<>> \in Seq(S) /\ \A x \in Seq(S) : \A i \in 1 .. n : AddExp(x, lists[i]) \in Seq(S)
    BY <1>1, AddExpAdds
  <2> HIDE DEF S
  <2> QED BY <1>1, <2>1, RebuildSteps
<1> HIDE DEF n, w
<1>4. PICK p : PartialSums(p, w, n) /\ Total(w, n) = p[n]
  BY <1>1, <1>2, TotalSums
<1>5. /\ p[0] = 0 /\ \A i \in 0 .. n : p[i] \in Int
      /\ \A i \in 1 .. n : p[i] = p[i - 1] + w[i]
  BY <1>4 DEF PartialSums
<1> DEFINE T == {i \in Nat : i <= n => ValueOf(s[i], val) = p[i]}
<1>6. 0 \in T
  <2> DEFINE q == [i \in 0 .. 0 |-> 0]
  <2>1. PartialSums(q, Weights(<<>>, val), 0) /\ 0 \in Nat /\ q[0] = 0 /\ Len(<<>>) = 0
    BY DEF PartialSums
  <2>2. \A i \in 1 .. 0 : Weights(<<>>, val)[i] \in Int
    OBVIOUS
  <2> HIDE DEF q
  <2>3. ValueOf(<<>>, val) = 0
    BY <2>1, <2>2, TotalIs DEF ValueOf
  <2> QED BY <1>3, <1>5, <2>3 DEF RebuiltUpTo
<1>7. ASSUME NEW i \in Nat, i \in T
      PROVE  i + 1 \in T
  <2> SUFFICES ASSUME i + 1 <= n
               PROVE  ValueOf(s[i + 1], val) = p[i + 1]
    OBVIOUS
  <2>1. /\ i + 1 \in 1 .. n /\ (i + 1) - 1 = i /\ i \in 0 .. n /\ s[i] \in Seq(S)
        /\ ValueOf(s[i], val) = p[i]
    BY <1>1, <1>3, <1>7
  <2>2. s[i + 1] = AddExp(s[i], lists[i + 1])
    BY <1>3, <2>1 DEF RebuiltUpTo, n
  <2>3. ValueOf(s[i + 1], val) = ValueOf(s[i], val) + ValueOf(lists[i + 1], val)
    BY <1>1, <2>1, <2>2, AddExpAdds
  <2> QED BY <1>2, <1>5, <2>1, <2>3
<1>8. Nat \subseteq T
  <2> HIDE DEF T
  <2> QED BY <1>6, <1>7, SetInduction
<1>9. ValueOf(s[n], val) = p[n]
  BY <1>1, <1>8
<1>10. Rebuild(lists) = s[n]
  BY <1>3 DEF RebuiltUpTo, n
<1> QED BY <1>4, <1>9, <1>10 DEF ValueOf, w, n
-----------------------------------------------------------------------------
(* Division by a divisor, as the compiler's % and / do it on magnitudes.   *)
LEMMA Divisible ==
  ASSUME NEW b \in Nat \ {0}, NEW a \in Int
  PROVE  a % b = 0 <=> \E k \in Int : a = b * k
<1>1. a = b * (a \div b) + (a % b) /\ a % b \in 0 .. b - 1 /\ a \div b \in Int
  OBVIOUS
<1>2. ASSUME a % b = 0
      PROVE  \E k \in Int : a = b * k
  BY <1>1, <1>2
<1>3. ASSUME NEW k \in Int, a = b * k
      PROVE  a % b = 0
  <2> DEFINE q == a \div b
             m == a % b
  <2>1. q \in Int /\ m \in Int /\ 0 <= m /\ m < b /\ a = b * q + m
    BY <1>1
  <2> HIDE DEF q, m
  <2>2. b * (k - q) = b * k - b * q /\ k - q \in Int
    BY <2>1
  <2>3. \A j \in Int : (j >= 1 => b * j >= b) /\ (j <= -1 => b * j <= -b)
    OBVIOUS
  <2>4. b * (k - q) = m
    BY <1>3, <2>1, <2>2
  <2>5. ~ (k - q >= 1) /\ ~ (k - q <= -1)
    BY <2>1, <2>2, <2>3, <2>4
  <2>6. k - q = 0
    BY <2>2, <2>5
  <2>7. m = 0
    BY <2>4, <2>6
  <2> QED BY <2>7 DEF m
<1> QED BY <1>2, <1>3

LEMMA DivMod ==
  ASSUME NEW a \in Nat, NEW b \in Nat \ {0}, a % b = 0
  PROVE  a \div b \in Int /\ b * (a \div b) = a
OBVIOUS

(* ... which differences of multiples keep.                                *)
LEMMA DivisibleSum ==
  ASSUME NEW b \in Nat \ {0}, NEW a \in Int, a % b = 0, NEW c \in Int, c % b = 0
  PROVE  (a + c) % b = 0 /\ (- a) % b = 0
<1>1. PICK k \in Int : a = b * k
  BY Divisible
<1>2. PICK j \in Int : c = b * j
  BY Divisible
<1>3. a + c = b * (k + j) /\ k + j \in Int /\ a + c \in Int
  BY <1>1, <1>2
<1>4. - a = b * (- k) /\ - k \in Int /\ - a \in Int
  BY <1>1
<1>5. (a + c) % b = 0
  BY <1>3, Divisible
<1>6. (- a) % b = 0
  BY <1>4, Divisible
<1> QED BY <1>5, <1>6

LEMMA AbsIs ==
  ASSUME NEW d \in Int \ {0}
  PROVE  Abs(d) \in Nat \ {0} /\ Abs(-d) = Abs(d) /\ d % Abs(d) = 0
<1>1. Abs(d) \in Nat \ {0} /\ Abs(-d) = Abs(d)
  BY DEF Abs
<1>2. \E k \in Int : d = Abs(d) * k
  <2>1. CASE d < 0
    <3>1. Abs(d) * (-1) = d
      BY <2>1 DEF Abs
    <3> QED BY <3>1
  <2>2. CASE d >= 0
    <3>1. Abs(d) * 1 = d
      BY <2>2 DEF Abs
    <3> QED BY <3>1
  <2> QED BY <2>1, <2>2
<1> QED BY <1>1, <1>2, Divisible

(* The coefficient divideBy computes, times the divisor.                   *)
Quotient(c, d) == IF (c < 0) = (d < 0) THEN Abs(c) \div Abs(d) ELSE -(Abs(c) \div Abs(d))
LEMMA QuotientIs ==
  ASSUME NEW d \in Int \ {0}, NEW c \in Int, c % Abs(d) = 0
  PROVE  Quotient(c, d) \in Int /\ d * Quotient(c, d) = c
<1> DEFINE b == Abs(d)
           a == Abs(c)
           q == a \div b
<1>1. b \in Nat \ {0} /\ b = (IF d < 0 THEN -d ELSE d) /\ a = (IF c < 0 THEN -c ELSE c) /\ a \in Nat
  BY DEF Abs
<1>2. a % b = 0
  <2>1. c % b = 0 /\ (- c) % b = 0
    BY <1>1, DivisibleSum
  <2> QED BY <1>1, <2>1
<1>3. q \in Int /\ b * q = a
  <2>1. a \in Nat /\ b \in Nat \ {0}
    BY <1>1
  <2> HIDE DEF a, b
  <2> QED BY <1>2, <2>1, DivMod
<1>4. Quotient(c, d) = IF (c < 0) = (d < 0) THEN q ELSE - q
  BY DEF Quotient
<1> HIDE DEF a, b, q
<1>5. (- b) * q = - (b * q) /\ b * (- q) = - (b * q) /\ (- b) * (- q) = b * q
  BY <1>1, <1>3
<1>6. CASE c < 0 /\ d < 0
  BY <1>1, <1>3, <1>4, <1>5, <1>6
<1>7. CASE c < 0 /\ ~ (d < 0)
  BY <1>1, <1>3, <1>4, <1>5, <1>7
<1>8. CASE ~ (c < 0) /\ d < 0
  BY <1>1, <1>3, <1>4, <1>5, <1>8
<1>9. CASE ~ (c < 0) /\ ~ (d < 0)
  BY <1>1, <1>3, <1>4, <1>5, <1>9
<1> QED BY <1>6, <1>7, <1>8, <1>9

(* u is e with coefficients cf: multiplyBy and divideBy leave the factors  *)
(* in place.                                                               *)
Recoefficients(u, e, cf) ==
  /\ Len(u) = Len(e)
  /\ \A i \in 1 .. Len(e) : u[i].coef = cf[i] /\ u[i].fac = e[i].fac

LEMMA MultiplyByIs ==
  ASSUME NEW Factors, NEW e \in Seq(TermsOver(Factors)), NEW c \in Int
  PROVE  /\ MultiplyBy(e, c) \in Seq(TermsOver(Factors))
         /\ Recoefficients(MultiplyBy(e, c), e, [i \in 1 .. Len(e) |-> c * e[i].coef])
<1> DEFINE S == TermsOver(Factors)
           u == MultiplyBy(e, c)
           n == Len(e)
<1>1. n \in Nat /\ DOMAIN e = 1 .. n /\ \A i \in 1 .. n : e[i] \in S
  BY ElementOfSeq
<1>2. u = [i \in 1 .. n |-> [e[i] EXCEPT !.coef = @ * c]]
  BY <1>1 DEF MultiplyBy
<1>3. ASSUME NEW i \in 1 .. n
      PROVE  /\ [e[i] EXCEPT !.coef = @ * c] \in S
             /\ [e[i] EXCEPT !.coef = @ * c].coef = c * e[i].coef
             /\ [e[i] EXCEPT !.coef = @ * c].fac = e[i].fac
  BY <1>1 DEF TermsOver
<1> HIDE DEF u, n, S
<1>4. u \in [1 .. n -> S]
  BY <1>2, <1>3
<1>5. u \in Seq(S) /\ Len(u) = n
  BY <1>1, <1>2, <1>4
<1>6. \A i \in 1 .. n : u[i].coef = c * e[i].coef /\ u[i].fac = e[i].fac
  BY <1>2, <1>3
<1> QED BY <1>5, <1>6 DEF Recoefficients, u, n, S

LEMMA DivideByIs ==
  ASSUME NEW Factors, NEW e \in Seq(TermsOver(Factors)), NEW d \in Int \ {0}, IsDivisible(e, d)
  PROVE  /\ DivideBy(e, d) \in Seq(TermsOver(Factors))
         /\ Recoefficients(DivideBy(e, d), e, [i \in 1 .. Len(e) |-> Quotient(e[i].coef, d)])
         /\ \A i \in 1 .. Len(e) : d * Quotient(e[i].coef, d) = e[i].coef
<1> DEFINE S == TermsOver(Factors)
           u == DivideBy(e, d)
           n == Len(e)
<1>1. n \in Nat /\ DOMAIN e = 1 .. n /\ \A i \in 1 .. n : e[i] \in S
  BY ElementOfSeq
<1>2. u = [i \in 1 .. n |-> [e[i] EXCEPT !.coef = Quotient(e[i].coef, d)]]
  BY <1>1 DEF DivideBy, Quotient
<1>3. ASSUME NEW i \in 1 .. n
      PROVE  Quotient(e[i].coef, d) \in Int /\ d * Quotient(e[i].coef, d) = e[i].coef
  <2>1. e[i].coef \in Int /\ e[i].coef % Abs(d) = 0
    BY <1>1 DEF TermsOver, IsDivisible
  <2> QED BY <2>1, QuotientIs
<1>4. ASSUME NEW i \in 1 .. n
      PROVE  /\ [e[i] EXCEPT !.coef = Quotient(e[i].coef, d)] \in S
             /\ [e[i] EXCEPT !.coef = Quotient(e[i].coef, d)].coef = Quotient(e[i].coef, d)
             /\ [e[i] EXCEPT !.coef = Quotient(e[i].coef, d)].fac = e[i].fac
  BY <1>1, <1>3 DEF TermsOver
<1> HIDE DEF u, n, S
<1>5. u \in [1 .. n -> S]
  BY <1>2, <1>4
<1>6. u \in Seq(S) /\ Len(u) = n
  BY <1>1, <1>2, <1>5
<1>7. \A i \in 1 .. n : u[i].coef = Quotient(e[i].coef, d) /\ u[i].fac = e[i].fac
  BY <1>2, <1>4
<1> QED BY <1>3, <1>6, <1>7 DEF Recoefficients, u, n, S

(* multiplyBy scales the value; divideBy, where it does not throw, scales  *)
(* it back.                                                                *)
LEMMA ScaledValue ==
  ASSUME NEW Factors, NEW e \in Seq(TermsOver(Factors)), NEW u \in Seq(TermsOver(Factors)),
         NEW cf, Recoefficients(u, e, cf), NEW c \in Int,
         \A i \in 1 .. Len(e) : cf[i] = c * e[i].coef,
         NEW val, Valuation(val, Factors)
  PROVE  ValueOf(u, val) = c * ValueOf(e, val)
<1> DEFINE n == Len(e)
           w == Weights(e, val)
           v == Weights(u, val)
<1>1. /\ n \in Nat /\ Len(u) = n
      /\ \A i \in 1 .. n : /\ w[i] \in Int /\ w[i] = e[i].coef * val[e[i].fac]
                           /\ e[i].coef \in Int /\ val[e[i].fac] \in Int
  BY WeightsAre DEF Recoefficients
<1>2. \A i \in 1 .. n : v[i] = u[i].coef * val[u[i].fac]
  BY <1>1, WeightsAre
<1>3. ASSUME NEW i \in 1 .. n
      PROVE  v[i] = c * w[i]
  <2>1. v[i] = (c * e[i].coef) * val[e[i].fac]
    BY <1>2 DEF Recoefficients
  <2>2. e[i].coef \in Int /\ val[e[i].fac] \in Int /\ w[i] = e[i].coef * val[e[i].fac]
    BY <1>1
  <2>3. (c * e[i].coef) * val[e[i].fac] = c * (e[i].coef * val[e[i].fac])
    BY <2>2
  <2> HIDE DEF v, w, n
  <2> QED BY <2>1, <2>2, <2>3
<1> HIDE DEF v, w, n
<1>4. Total(v, n) = c * Total(w, n)
  BY <1>1, <1>3, TotalScale
<1> QED BY <1>1, <1>4 DEF ValueOf, v, w, n

(* New coefficients that are not zero keep the canonical form.             *)
LEMMA RecoefficientsCanonical ==
  ASSUME NEW Factors, Exact(Factors), OrdersFactors(TermsOver(Factors)),
         NEW e \in Seq(TermsOver(Factors)), CanonicalList(e),
         NEW u \in Seq(TermsOver(Factors)), NEW cf, Recoefficients(u, e, cf),
         \A i \in 1 .. Len(e) : cf[i] # 0
  PROVE  CanonicalList(u)
<1> DEFINE S == TermsOver(Factors)
           n == Len(e)
<1>1. n \in Nat /\ Len(u) = n /\ \A i \in 1 .. n : e[i] \in S /\ u[i] \in S
  BY ElementOfSeq DEF Recoefficients
<1>2. \A i \in 1 .. n : u[i].coef # 0 /\ u[i].fac = e[i].fac
  BY DEF Recoefficients
<1>3. \A i, j \in 1 .. n : i < j => Before(e[i], e[j])
  BY CanonicalIs
<1>4. ASSUME NEW i \in 1 .. n, NEW j \in 1 .. n, i < j
      PROVE  Before(u[i], u[j])
  <2> HIDE DEF S, n
  <2>1. OrdersFactors(S)
    BY DEF S
  <2>2. Before(u[i], e[j])
    BY <1>1, <1>2, <1>3, <1>4, <2>1, BeforeOrders
  <2> QED BY <1>1, <1>2, <2>1, <2>2, BeforeOrders
<1> HIDE DEF S, n
<1> QED BY <1>1, <1>2, <1>4, CanonicalIs
-----------------------------------------------------------------------------
(* normalizeForEquality leaves the solutions of e = 0 what they are, and a *)
(* canonical list canonical with its first coefficient positive: two       *)
(* equalities that differ in sign become the same list.                    *)
THEOREM NormalizeKeepsZeros ==
  ASSUME NEW Factors, NEW e \in Seq(TermsOver(Factors)), NEW val, Valuation(val, Factors)
  PROVE  /\ NormalizeForEquality(e) \in Seq(TermsOver(Factors))
         /\ ValueOf(NormalizeForEquality(e), val) = 0 <=> ValueOf(e, val) = 0
<1> DEFINE S == TermsOver(Factors)
           s == IF e # <<>> /\ e[1].coef < 0 THEN MultiplyBy(e, -1) ELSE e
<1>1. s \in Seq(S) /\ (ValueOf(s, val) = 0 <=> ValueOf(e, val) = 0) /\ ValueOf(s, val) \in Int
  <2>1. CASE e # <<>> /\ e[1].coef < 0
    <3> DEFINE u == MultiplyBy(e, -1)
               cf == [i \in 1 .. Len(e) |-> (-1) * e[i].coef]
    <3>1. s = u /\ u \in Seq(S) /\ Recoefficients(u, e, cf) /\ -1 \in Int
      <4>1. s = u /\ -1 \in Int
        BY <2>1
      <4>2. u \in Seq(S) /\ Recoefficients(u, e, cf)
        BY <4>1, MultiplyByIs
      <4> QED BY <4>1, <4>2
    <3>2. \A i \in 1 .. Len(e) : cf[i] = (-1) * e[i].coef
      OBVIOUS
    <3> HIDE DEF u, cf, s
    <3>3. ValueOf(u, val) = (-1) * ValueOf(e, val)
      BY <3>1, <3>2, ScaledValue
    <3>4. ValueOf(e, val) \in Int
      BY WeightsAre
    <3> QED BY <3>1, <3>3, <3>4
  <2>2. CASE ~ (e # <<>> /\ e[1].coef < 0)
    BY <2>2, WeightsAre
  <2> QED BY <2>1, <2>2
<1>2. NormalizeForEquality(e) = IF s # <<>> /\ Last(s).coef = 0 THEN Front(s) ELSE s
  BY DEF NormalizeForEquality
<1> HIDE DEF s
<1>3. CASE s # <<>> /\ Last(s).coef = 0
  <2> DEFINE n == Len(s)
             r == RemoveAt(s, n)
             w == Weights(s, val)
             u == Weights(r, val)
  <2>1. n \in Nat \ {0} /\ n \in 1 .. n /\ s[n].coef = 0
    BY <1>1, <1>3, EmptySeq DEF Last
  <2>2. r = Front(s)
    <3>1. SubSeq(s, n + 1, n) = <<>> /\ SubSeq(s, 1, n - 1) \in Seq(S)
      BY <1>1, <2>1
    <3> QED BY <3>1, ConcatEmptySeq DEF RemoveAt, Front
  <2>3. r \in Seq(S) /\ Len(r) = n - 1 /\ Deleted(r, s, n, n)
    BY <1>1, <2>1, RemoveAtIs
  <2>4. /\ \A j \in 1 .. n : w[j] \in Int /\ w[j] = s[j].coef * val[s[j].fac] /\ val[s[j].fac] \in Int
        /\ \A j \in 1 .. n - 1 : u[j] = r[j].coef * val[r[j].fac]
    BY <1>1, <2>3, WeightsAre
  <2> HIDE DEF r, w, u, n
  <2>5. \A j \in 1 .. n - 1 : u[j] = IF j < n THEN w[j] ELSE w[j + 1]
    <3>1. \A j \in 1 .. n - 1 : r[j] = s[j] /\ j < n /\ j \in 1 .. n
      BY <2>1, <2>3 DEF Deleted
    <3> QED BY <2>4, <3>1
  <2>6. Total(u, n - 1) = Total(w, n) - w[n]
    BY <2>1, <2>4, <2>5, TotalRemove
  <2>7. w[n] = 0
    <3>1. w[n] = 0 * val[s[n].fac] /\ val[s[n].fac] \in Int
      BY <2>1, <2>4
    <3> QED BY <3>1
  <2>8. ValueOf(r, val) = ValueOf(s, val)
    <3>1. ValueOf(r, val) = Total(u, n - 1) /\ ValueOf(s, val) = Total(w, n)
      BY <2>3 DEF ValueOf, u, w, n
    <3> QED BY <1>1, <2>6, <2>7, <3>1
  <2> QED BY <1>1, <1>2, <1>3, <2>2, <2>3, <2>8
<1>4. CASE ~ (s # <<>> /\ Last(s).coef = 0)
  BY <1>1, <1>2, <1>4
<1> QED BY <1>3, <1>4

LEMMA NormalizeCanonical ==
  ASSUME NEW Factors, Exact(Factors), OrdersFactors(TermsOver(Factors)),
         NEW e \in Seq(TermsOver(Factors)), CanonicalList(e)
  PROVE  /\ CanonicalList(NormalizeForEquality(e))
         /\ e # <<>> => Len(NormalizeForEquality(e)) = Len(e) /\ NormalizeForEquality(e)[1].coef > 0
<1> DEFINE S == TermsOver(Factors)
           s == IF e # <<>> /\ e[1].coef < 0 THEN MultiplyBy(e, -1) ELSE e
<1>1. \A i \in 1 .. Len(e) : e[i].coef # 0 /\ e[i].coef \in Int
  <2>1. \A i \in 1 .. Len(e) : e[i] \in S
    BY ElementOfSeq
  <2> QED BY <2>1, CanonicalIs DEF TermsOver
<1>2. e # <<>> => 1 \in 1 .. Len(e)
  BY EmptySeq
<1>3. /\ s \in Seq(S) /\ Len(s) = Len(e) /\ CanonicalList(s)
      /\ \A i \in 1 .. Len(s) : s[i].coef # 0
      /\ e # <<>> => s[1].coef > 0
  <2>1. CASE e # <<>> /\ e[1].coef < 0
    <3> DEFINE u == MultiplyBy(e, -1)
               cf == [i \in 1 .. Len(e) |-> (-1) * e[i].coef]
    <3>1. s = u /\ u \in Seq(S) /\ Recoefficients(u, e, cf) /\ -1 \in Int
      <4>1. s = u /\ -1 \in Int
        BY <2>1
      <4>2. u \in Seq(S) /\ Recoefficients(u, e, cf)
        BY <4>1, MultiplyByIs
      <4> QED BY <4>1, <4>2
    <3>2. \A i \in 1 .. Len(e) : cf[i] # 0 /\ cf[i] = - e[i].coef
      BY <1>1
    <3> HIDE DEF u, cf, s
    <3>3. CanonicalList(u)
      BY <3>1, <3>2, RecoefficientsCanonical
    <3>4. Len(u) = Len(e) /\ \A i \in 1 .. Len(e) : u[i].coef # 0 /\ u[i].coef = - e[i].coef
      BY <3>1, <3>2 DEF Recoefficients
    <3>5. u[1].coef > 0
      BY <1>1, <1>2, <2>1, <3>4
    <3> QED BY <3>1, <3>3, <3>4, <3>5
  <2>2. CASE ~ (e # <<>> /\ e[1].coef < 0)
    BY <1>1, <1>2, <2>2
  <2> QED BY <2>1, <2>2
<1>4. NormalizeForEquality(e) = IF s # <<>> /\ Last(s).coef = 0 THEN Front(s) ELSE s
  BY DEF NormalizeForEquality
<1> HIDE DEF s
<1>5. NormalizeForEquality(e) = s
  <2>1. s # <<>> => Len(s) \in 1 .. Len(s)
    BY <1>3, EmptySeq
  <2> QED BY <1>3, <1>4, <2>1 DEF Last
<1> QED BY <1>3, <1>5
-----------------------------------------------------------------------------
(* findMatchingFactor returns the coefficient of some matching term, which *)
(* divides all.                                                            *)
LEMMA FindMatchingFactorIs ==
  ASSUME NEW Factors, NEW e \in Seq(TermsOver(Factors)), NEW F, FindMatchingFactor(e, F) # 0
  PROVE  \E i \in 1 .. Len(e) : /\ FactorMatches(e[i].fac, F) /\ e[i].coef = FindMatchingFactor(e, F)
                                /\ IsDivisible(e, e[i].coef)
<1> DEFINE found == {i \in DOMAIN e : FactorMatches(e[i].fac, F) /\ IsDivisible(e, e[i].coef)}
<1>1. found # {} /\ FindMatchingFactor(e, F) = e[Min(found)].coef
  BY DEF FindMatchingFactor
<1>2. found \subseteq Nat /\ DOMAIN e = 1 .. Len(e)
  OBVIOUS
<1>3. Min(found) \in found
  <2> HIDE DEF found
  <2>1. \E x \in found : \A y \in found : x <= y
    BY <1>1, <1>2, LeastNatural
  <2> QED BY <2>1 DEF Min
<1> QED BY <1>1, <1>2, <1>3

(* Taking out c F, c a divisor of all coefficients, leaves one.            *)
LEMMA AddTermDivisible ==
  ASSUME NEW Factors, NEW e \in Seq(TermsOver(Factors)), NEW t \in TermsOver(Factors),
         NEW d \in Int \ {0}, IsDivisible(e, d), t.coef % Abs(d) = 0
  PROVE  IsDivisible(AddTerm(e, t), d)
<1> DEFINE r == AddTerm(e, t)
           n == Len(e)
           b == Abs(d)
<1>1. n \in Nat /\ DOMAIN e = 1 .. n /\ \A i \in 1 .. n : e[i] \in TermsOver(Factors)
  BY ElementOfSeq
<1>2. \A i \in 1 .. n : e[i].coef \in Int /\ e[i].coef % b = 0
  BY <1>1 DEF IsDivisible, TermsOver
<1>3. b \in Nat \ {0} /\ t.coef \in Int
  BY AbsIs DEF TermsOver
<1>4. r \in Seq(TermsOver(Factors)) /\ DOMAIN r = 1 .. Len(r)
  BY AddTermCases
<1>5. SUFFICES ASSUME r # e, NEW i \in 1 .. Len(r)
               PROVE  r[i].coef % b = 0
  BY <1>4 DEF IsDivisible
<1>6. PICK k : GoesIn(r, e, t, k) \/ Cancels(r, e, t, k) \/ Combines(r, e, t, k)
  BY <1>5, AddTermCases
<1>7. t.coef % b = 0
  OBVIOUS
<1> HIDE DEF r, n, b
<1>8. CASE GoesIn(r, e, t, k)
  <2>1. /\ k \in 1 .. n + 1 /\ i \in 1 .. n + 1
        /\ r[i] = IF i < k THEN e[i] ELSE IF i = k THEN t ELSE e[i - 1]
    BY <1>5, <1>8 DEF GoesIn, Inserted, n
  <2>2. (i < k => i \in 1 .. n) /\ (i > k => i - 1 \in 1 .. n)
    BY <1>1, <2>1
  <2> QED BY <1>2, <1>7, <2>1, <2>2
<1>9. CASE Cancels(r, e, t, k)
  <2>1. k \in 1 .. n /\ i \in 1 .. n - 1 /\ r[i] = IF i < k THEN e[i] ELSE e[i + 1]
    BY <1>5, <1>9 DEF Cancels, Deleted, n
  <2>2. i \in 1 .. n /\ i + 1 \in 1 .. n
    BY <1>1, <2>1
  <2> QED BY <1>2, <2>1, <2>2
<1>10. CASE Combines(r, e, t, k)
  <2>1. k \in 1 .. n /\ r = [e EXCEPT ![k].coef = e[k].coef + t.coef]
    BY <1>10 DEF Combines, n
  <2>2. i \in 1 .. n
    BY <1>1, <1>4, <1>5, <2>1
  <2>3. r[i].coef = IF i = k THEN e[k].coef + t.coef ELSE e[i].coef
    BY <1>1, <2>1, <2>2 DEF TermsOver
  <2>4. (e[k].coef + t.coef) % b = 0
    BY <1>2, <1>3, <1>7, <2>1, DivisibleSum
  <2> QED BY <1>2, <2>2, <2>3, <2>4
<1> QED BY <1>6, <1>8, <1>9, <1>10

(* solveForFactor with the factor outside every call: it never throws, and *)
(* what it returns has the factor's value exactly where e = 0 - whatever   *)
(* the order of the list, the signs and the other factors.                 *)
THEOREM DirectSolveExact ==
  ASSUME NEW Factors, NEW e \in Seq(TermsOver(Factors)), NEW F \in Factors,
         FindMatchingFactor(e, F) # 0
  PROVE  \E x \in Seq(TermsOver(Factors)) :
           /\ Isolate(e, F, e, FindMatchingFactor(e, F)) = Solution(x)
           /\ \A val : Valuation(val, Factors) => (ValueOf(e, val) = 0 <=> ValueOf(x, val) = val[F])
<1> DEFINE S == TermsOver(Factors)
           c == FindMatchingFactor(e, F)
           t == Term(-c, F)
           m == AddTerm(e, t)
           x == DivideBy(m, -c)
           cf == [i \in 1 .. Len(m) |-> Quotient(m[i].coef, -c)]
<1>1. IsDivisible(e, c) /\ c \in Int \ {0}
  <2>1. PICK i \in 1 .. Len(e) : e[i].coef = c /\ IsDivisible(e, e[i].coef)
    BY FindMatchingFactorIs
  <2>2. e[i] \in S
    BY ElementOfSeq
  <2> QED BY <2>1, <2>2 DEF TermsOver
<1> HIDE DEF c
<1>2. t \in S /\ t.coef = - c /\ t.fac = F
  BY <1>1 DEF Term, TermsOver
<1>3. m \in Seq(S)
  BY <1>2, AddTermCases
<1>4. - c \in Int \ {0} /\ Abs(-c) = Abs(c)
  BY <1>1, AbsIs
<1>5. IsDivisible(m, c) /\ IsDivisible(m, -c)
  <2>1. (- c) % Abs(c) = 0
    <3>1. Abs(c) \in Nat \ {0} /\ c % Abs(c) = 0
      BY <1>1, AbsIs
    <3> QED BY <1>1, <3>1, DivisibleSum
  <2>2. IsDivisible(m, c)
    <3> HIDE DEF t
    <3> QED BY <1>1, <1>2, <2>1, AddTermDivisible
  <2> QED BY <1>4, <2>2 DEF IsDivisible
<1>6. Isolate(e, F, e, c) = Solution(x)
  BY <1>1, <1>5 DEF Isolate, DivideOut
<1> HIDE DEF t, m
<1>7. /\ x \in Seq(S) /\ Recoefficients(x, m, cf)
      /\ \A i \in 1 .. Len(m) : (- c) * Quotient(m[i].coef, -c) = m[i].coef
  BY <1>3, <1>4, <1>5, DivideByIs
<1> HIDE DEF x
<1>8. ASSUME NEW val, Valuation(val, Factors)
      PROVE  ValueOf(e, val) = 0 <=> ValueOf(x, val) = val[F]
  <2>1. ValueOf(m, val) = ValueOf(e, val) + (- c) * val[F]
    BY <1>2, <1>8, AddTermAdds DEF m
  <2>2. Recoefficients(m, x, [i \in 1 .. Len(x) |-> m[i].coef])
    BY <1>7 DEF Recoefficients
  <2>3. \A i \in 1 .. Len(x) : [j \in 1 .. Len(x) |-> m[j].coef][i] = (- c) * x[i].coef
    BY <1>7 DEF Recoefficients
  <2>4. ValueOf(m, val) = (- c) * ValueOf(x, val)
    <3> DEFINE mf == [i \in 1 .. Len(x) |-> m[i].coef]
               b == - c
    <3>1. Recoefficients(m, x, mf) /\ \A i \in 1 .. Len(x) : mf[i] = b * x[i].coef
      BY <2>2, <2>3
    <3>2. b \in Int /\ x \in Seq(TermsOver(Factors)) /\ m \in Seq(TermsOver(Factors))
      BY <1>3, <1>4, <1>7
    <3> HIDE DEF mf, b, S
    <3>3. ValueOf(m, val) = b * ValueOf(x, val)
      BY <1>8, <3>1, <3>2, ScaledValue
    <3> QED BY <3>3 DEF b
  <2>5. ValueOf(e, val) \in Int /\ ValueOf(x, val) \in Int /\ val[F] \in Int
    BY <1>7, <1>8, WeightsAre DEF Valuation
  <2>6. \A a, y, v \in Int : a + (- c) * v = (- c) * y => (a = 0 <=> y = v)
    <3> TAKE a, y, v \in Int
    <3> HAVE a + (- c) * v = (- c) * y
    <3>1. a = c * (v - y)
      BY <1>1
    <3>2. c * (v - y) = 0 <=> v - y = 0
      BY <1>1
    <3> QED BY <3>1, <3>2
  <2> QED BY <2>1, <2>4, <2>5, <2>6
<1> QED BY <1>6, <1>7, <1>8 DEF c

(* On a canonical list the solution is canonical and free of the factor    *)
(* solved for; on a list remapTupleVars left unsorted it need not be.      *)
THEOREM DirectSolveEliminates ==
  ASSUME NEW Factors, Exact(Factors), OrdersFactors(TermsOver(Factors)),
         NEW e \in Seq(TermsOver(Factors)), CanonicalList(e), NEW F \in Factors,
         FindMatchingFactor(e, F) # 0
  PROVE  \E x \in Seq(TermsOver(Factors)) :
           /\ Isolate(e, F, e, FindMatchingFactor(e, F)) = Solution(x)
           /\ CanonicalList(x) /\ \A j \in 1 .. Len(x) : ~ FactorMatches(x[j].fac, F)
<1> DEFINE S == TermsOver(Factors)
           n == Len(e)
           c == FindMatchingFactor(e, F)
           t == Term(-c, F)
           m == AddTerm(e, t)
           x == DivideBy(m, -c)
           cf == [i \in 1 .. Len(m) |-> Quotient(m[i].coef, -c)]
<1>1. PICK i \in 1 .. n : FactorMatches(e[i].fac, F) /\ e[i].coef = c /\ IsDivisible(e, c)
  BY FindMatchingFactorIs
<1>2. n \in Nat /\ \A j \in 1 .. n : e[j] \in S
  BY ElementOfSeq
<1>3. c \in Int \ {0} /\ e[i].fac = F
  BY <1>1, <1>2 DEF TermsOver, Exact
<1>4. \A j, k \in 1 .. n : j < k => Before(e[j], e[k])
  BY CanonicalIs
<1> HIDE DEF c
<1>5. t \in S /\ t.coef = - c /\ t.fac = F /\ OrdersFactors(S)
  BY <1>3 DEF Term, TermsOver
<1>6. m \in Seq(S) /\ CanonicalList(m)
  BY <1>5, AddTermCases, AddTermCanonical
<1>7. - c \in Int \ {0} /\ Abs(-c) = Abs(c)
  BY <1>3, AbsIs
<1>8. IsDivisible(m, c) /\ IsDivisible(m, -c)
  <2>1. (- c) % Abs(c) = 0
    <3>1. Abs(c) \in Nat \ {0} /\ c % Abs(c) = 0
      BY <1>3, AbsIs
    <3> QED BY <1>3, <3>1, DivisibleSum
  <2>2. IsDivisible(m, c)
    <3> HIDE DEF t
    <3> QED BY <1>1, <1>3, <1>5, <2>1, AddTermDivisible
  <2> QED BY <1>7, <2>2 DEF IsDivisible
<1>9. Isolate(e, F, e, c) = Solution(x)
  BY <1>1, <1>3, <1>8 DEF Isolate, DivideOut
<1>10. PICK k : GoesIn(m, e, t, k) \/ Cancels(m, e, t, k) \/ Combines(m, e, t, k)
  <2>1. t.coef # 0
    BY <1>3, <1>5
  <2> HIDE DEF t
  <2> QED BY <1>5, <2>1, AddTermCases
<1> HIDE DEF t, m, n, S
<1>11. ~ GoesIn(m, e, t, k)
  <2> SUFFICES ASSUME GoesIn(m, e, t, k)
               PROVE  FALSE
    OBVIOUS
  <2>1. k \in 1 .. n + 1 /\ NoStop(e, t, k) /\ FactorMatches(e[i].fac, t.fac)
    BY <1>1, <1>5 DEF GoesIn, n
  <2>2. ~ (i < k)
    <3>1. ASSUME i < k
          PROVE  i \in 1 .. k - 1
      BY <2>1, <3>1
    <3> QED BY <2>1, <3>1 DEF NoStop
  <2>3. k \in 1 .. n /\ k <= n
    BY <1>2, <2>1, <2>2
  <2>4. TermLess(t, e[k]) /\ ~ FactorMatches(e[k].fac, t.fac)
    BY <2>3 DEF GoesIn, n
  <2>5. k < i
    <3>1. k # i
      BY <2>1, <2>4
    <3> QED BY <2>2, <2>3, <3>1
  <2>6. Before(e[k], t)
    BY <1>2, <1>3, <1>4, <1>5, <2>3, <2>5, BeforeOrders
  <2> QED BY <1>2, <1>5, <2>3, <2>4, <2>6 DEF Before, OrdersFactors
<1>12. ASSUME NEW j \in 1 .. n, FactorMatches(e[j].fac, t.fac)
       PROVE  j = i
  <2>1. e[j].fac = F
    BY <1>2, <1>5, <1>12 DEF S, TermsOver, Exact
  <2>2. ~ (j < i) /\ ~ (i < j)
    BY <1>3, <1>4, <2>1 DEF Before
  <2> QED BY <2>2
<1>13. Cancels(m, e, t, k) /\ k = i
  <2>1. FactorMatches(e[k].fac, t.fac) /\ k \in 1 .. n
    BY <1>10, <1>11 DEF Cancels, Combines, n
  <2>2. k = i
    BY <1>12, <2>1
  <2>3. e[i].coef + t.coef = 0
    BY <1>1, <1>3, <1>5
  <2> QED BY <1>10, <1>11, <2>2, <2>3 DEF Combines
<1>14. ASSUME NEW j \in 1 .. Len(m)
       PROVE  m[j].fac # F
  <2>1. j \in 1 .. n - 1 /\ m[j] = IF j < i THEN e[j] ELSE e[j + 1]
    BY <1>13 DEF Cancels, Deleted, n
  <2>2. CASE j < i
    <3>1. j \in 1 .. n /\ Before(e[j], e[i])
      BY <1>2, <1>4, <2>1, <2>2
    <3> QED BY <1>3, <2>1, <2>2, <3>1 DEF Before
  <2>3. CASE j >= i
    <3>1. j + 1 \in 1 .. n /\ i < j + 1 /\ ~ (j < i)
      BY <1>2, <2>1, <2>3
    <3>2. Before(e[i], e[j + 1])
      BY <1>4, <3>1
    <3> QED BY <1>3, <2>1, <3>1, <3>2 DEF Before
  <2> QED BY <2>1, <2>2, <2>3
<1>15. /\ x \in Seq(S) /\ Recoefficients(x, m, cf)
       /\ \A j \in 1 .. Len(m) : (- c) * Quotient(m[j].coef, -c) = m[j].coef
  BY <1>6, <1>7, <1>8, DivideByIs DEF S
<1>16. \A j \in 1 .. Len(m) : cf[j] # 0
  <2>1. ASSUME NEW j \in 1 .. Len(m)
        PROVE  Quotient(m[j].coef, -c) # 0
    <3>1. m[j].coef # 0 /\ (- c) * Quotient(m[j].coef, -c) = m[j].coef
      BY <1>6, <1>15, CanonicalIs DEF S
    <3>2. (- c) * 0 = 0
      BY <1>7
    <3> QED BY <3>1, <3>2
  <2> QED BY <2>1
<1> HIDE DEF x, cf
<1>17. CanonicalList(x)
  BY <1>6, <1>15, <1>16, RecoefficientsCanonical DEF S
<1>18. ASSUME NEW j \in 1 .. Len(x)
       PROVE  ~ FactorMatches(x[j].fac, F)
  <2>1. j \in 1 .. Len(m) /\ x[j].fac = m[j].fac
    BY <1>15 DEF Recoefficients
  <2>2. x[j] \in S
    BY <1>15, ElementOfSeq
  <2> QED BY <1>14, <2>1, <2>2 DEF S, TermsOver, Exact
<1> QED BY <1>9, <1>15, <1>17, <1>18 DEF c, S
=============================================================================
