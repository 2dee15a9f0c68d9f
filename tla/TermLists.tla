----------------------------- MODULE TermLists -----------------------------
(***************************************************************************)
(* The operations of class Exp (src/set_relation/expression.cc) that see   *)
(* one level of an expression: its list of Terms, a Term a coefficient     *)
(* times a factor.  The list, its order and the early exits are kept:      *)
(* several operations are right only on a sorted list.  What lies inside   *)
(* the arguments of calls is module Expression's, which extends this one;  *)
(* the order of terms looks into them and is a parameter here.             *)
(*                                                                         *)
(* A factor is [type, id, idx, args]: a tuple variable (id its location),  *)
(* a symbolic constant or an uninterpreted function call (id its name), or *)
(* the constant 1.  idx and args are used by calls only; idx = -1 is a     *)
(* call that is not indexed.                                               *)
(***************************************************************************)
EXTENDS Integers, Sequences, FiniteSets, SequencesExt, FiniteSetsExt

CONSTANT TermLess(_, _)   \* Term::operator<

(* The enumeration termtype, in its order.                                 *)
TupleVar == 0
SymConst == 1
UFCall == 2
ConstVal == 3

Factor(ty, id, idx, args) == [type |-> ty, id |-> id, idx |-> idx, args |-> args]
Tv(loc) == Factor(TupleVar, loc, -1, <<>>)
Sym(s) == Factor(SymConst, s, -1, <<>>)
Uf(f, args) == Factor(UFCall, f, -1, args)
One == Factor(ConstVal, 0, -1, <<>>)
Term(c, F) == [coef |-> c, fac |-> F]
-----------------------------------------------------------------------------
(* tupleIndex: a call that is not indexed counts as indexed by 0.          *)
TupleIndex(F) == IF F.idx = -1 THEN 0 ELSE F.idx

(* Term::factorMatches and its overrides.                                  *)
FactorMatches(F, G) == /\ F.type = G.type /\ F.id = G.id
                       /\ TupleIndex(F) = TupleIndex(G)
                       /\ F.args = G.args

(* Mutated forms of AddTerm: a cancelled term stays, with coefficient 0;   *)
(* a matching term is overwritten.                                         *)
AddTerm_KeepsZero(e, t) ==
  LET stops == {i \in DOMAIN e : FactorMatches(e[i].fac, t.fac) \/ TermLess(t, e[i])}
  IN  CASE t.coef = 0 -> e
        [] t.coef # 0 /\ stops = {} -> Append(e, t)
        [] OTHER -> IF FactorMatches(e[Min(stops)].fac, t.fac)
                    THEN [e EXCEPT ![Min(stops)].coef = @ + t.coef]
                    ELSE InsertAt(e, Min(stops), t)
AddTerm_Overwrites(e, t) ==
  LET stops == {i \in DOMAIN e : FactorMatches(e[i].fac, t.fac) \/ TermLess(t, e[i])}
  IN  CASE t.coef = 0 -> e
        [] t.coef # 0 /\ stops = {} -> Append(e, t)
        [] OTHER -> IF FactorMatches(e[Min(stops)].fac, t.fac)
                    THEN [e EXCEPT ![Min(stops)] = t]
                    ELSE InsertAt(e, Min(stops), t)

(* Exp::addTerm: scan for the first term to combine with or to go before.  *)
AddTerm(e, t) ==
  LET stops == {i \in DOMAIN e : \/ FactorMatches(e[i].fac, t.fac)
                                 \/ TermLess(t, e[i])}
      i == Min(stops)
      c == e[i].coef + t.coef
  IN  CASE t.coef = 0 -> e
        [] t.coef # 0 /\ stops = {} -> Append(e, t)
        [] OTHER -> CASE ~ FactorMatches(e[i].fac, t.fac) -> InsertAt(e, i, t)
                      [] FactorMatches(e[i].fac, t.fac) /\ c = 0 -> RemoveAt(e, i)
                      [] OTHER -> [e EXCEPT ![i].coef = c]

(* Exp::addExp: the terms of e, one by one.                                *)
AddExp(d, e) ==
  LET sum[i \in 0 .. Len(e)] == IF i = 0 THEN d ELSE AddTerm(sum[i - 1], e[i])
  IN  sum[Len(e)]

(* An expression from a list of terms, as the parser builds it.            *)
MkExp(ts) == AddExp(<<>>, ts)

MultiplyBy(e, c) == [i \in DOMAIN e |-> [e[i] EXCEPT !.coef = @ * c]]

Abs(c) == IF c < 0 THEN -c ELSE c

IsDivisible(e, d) == \A i \in DOMAIN e : e[i].coef % Abs(d) = 0

(* Mutated form: the sign of the divisor is lost.                          *)
DivideBy_Unsigned(e, d) ==
  [i \in DOMAIN e |-> [e[i] EXCEPT !.coef =
     IF @ < 0 THEN -(Abs(@) \div Abs(d)) ELSE @ \div Abs(d)]]

(* Exp::divideBy, where it does not throw.                                 *)
DivideBy(e, d) ==
  [i \in DOMAIN e |-> [e[i] EXCEPT !.coef =
     IF (@ < 0) = (d < 0) THEN Abs(@) \div Abs(d) ELSE -(Abs(@) \div Abs(d))]]

EqualsZero(e) == e = <<>> \/ (Len(e) = 1 /\ e[1].coef = 0)

(* Exp::isContradiction, of an equality: 2 = 0.                            *)
IsContradiction(e) == /\ Len(e) = 1 /\ e[1].fac.type = ConstVal
                      /\ e[1].coef # 0

(* Exp::normalizeForEquality: the first coefficient is made positive; a    *)
(* last term with coefficient zero is dropped.                             *)
NormalizeForEquality(e) ==
  LET s == IF e # <<>> /\ e[1].coef < 0 THEN MultiplyBy(e, -1) ELSE e
  IN  IF s # <<>> /\ Last(s).coef = 0 THEN Front(s) ELSE s

(* A new list, built from the terms of several by addTerm.                 *)
Rebuild_Concatenates(lists) == FlattenSeq(lists)
Rebuild(lists) ==
  LET sum[i \in 0 .. Len(lists)] == IF i = 0 THEN <<>> ELSE AddExp(sum[i - 1], lists[i])
  IN  sum[Len(lists)]
-----------------------------------------------------------------------------
(* What the solving operations return: an Exp*, NULL or an exception.      *)
Solution(e) == [ret |-> "exp", exp |-> e]
Null == [ret |-> "null", exp |-> <<>>]
Throw == [ret |-> "throw", exp |-> <<>>]

(* Mutated form: only a coefficient of 1 counts.                           *)
FindMatchingFactor_Unit(e, F) ==
  IF \E i \in DOMAIN e : FactorMatches(e[i].fac, F) /\ e[i].coef = 1 THEN 1 ELSE 0

(* Exp::findMatchingFactor: the coefficient of the first match that        *)
(* divides every coefficient, 0 for NULL.                                  *)
FindMatchingFactor(e, F) ==
  LET found == {i \in DOMAIN e : FactorMatches(e[i].fac, F)
                                 /\ IsDivisible(e, e[i].coef)}
  IN  IF found = {} THEN 0 ELSE e[Min(found)].coef

(* The end of solveForFactor, c the coefficient of F in exposed (0 when it *)
(* has none): F is moved to the other side.  Divisibility is asked of the  *)
(* original e, and a division with a remainder throws.                     *)
DivideOut(moved, c) ==
  IF IsDivisible(moved, c) THEN Solution(DivideBy(moved, -c)) ELSE Throw
Isolate(e, F, exposed, c) ==
  IF c # 0 /\ IsDivisible(e, c) THEN DivideOut(AddTerm(exposed, Term(-c, F)), c)
  ELSE Solution(exposed)
-----------------------------------------------------------------------------
(* The sum of the first n of a list of integers: the value of an           *)
(* expression is the Total of its coefficients times its factors' values.  *)
Total(w, n) ==
  LET sum[i \in 0 .. n] == IF i = 0 THEN 0 ELSE sum[i - 1] + w[i]
  IN  sum[n]

(* The canonical form of one list: no zero coefficient, the terms in Term  *)
(* order, no two with matching factors.                                    *)
CanonicalList(e) ==
  /\ \A i \in DOMAIN e : e[i].coef # 0
  /\ \A i, j \in DOMAIN e : i < j => /\ TermLess(e[i], e[j])
                                     /\ ~ FactorMatches(e[i].fac, e[j].fac)

(* What the canonical form needs of the order, on the terms Ts: it orders  *)
(* terms with different factors, whatever their coefficients are.          *)
OrdersFactors(Ts) ==
  \A t, u \in Ts :
    /\ t.fac # u.fac => TermLess(t, u) \/ TermLess(u, t)
    /\ TermLess(t, u) => ~ TermLess(u, t)
    /\ TermLess(t, u) => \A v \in Ts :
         /\ TermLess(u, v) => TermLess(t, v)
         /\ t.fac # u.fac /\ v.fac = t.fac => TermLess(v, u)
         /\ t.fac # u.fac /\ v.fac = u.fac => TermLess(t, v)

(* ... and of the factors: those that match are the same.  A set with both *)
(* a call that is not indexed and the same call indexed by 0 is not exact. *)
Exact(Factors) == \A F, G \in Factors : FactorMatches(F, G) => F = G
=============================================================================
