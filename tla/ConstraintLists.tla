-------------------------- MODULE ConstraintLists --------------------------
(***************************************************************************)
(* The lists of src/set_relation/set_relation.cc: a Conjunction is a tuple *)
(* declaration (each element a variable or a constant), how many elements  *)
(* are inputs (mInArity, 0 in a set), and sorted lists of equalities       *)
(* (exp = 0) and inequalities (exp >= 0) over the tuple variables; a Set   *)
(* or Relation is a sorted list of Conjunctions.  Here is what only        *)
(* inserts into these lists: the constraints are opaque, and module        *)
(* Conjunction, which instantiates this one, says what they are.  Variable *)
(* names are left out: constraints refer to locations.                     *)
(***************************************************************************)
EXTENDS Integers, Sequences, FiniteSets, SequencesExt, FiniteSetsExt

CONSTANTS
  ExpLess(_, _), ExpEqual(_, _),   \* Exp::operator< and operator==
  EqualsZero(_),                   \* Exp::equalsZero
  NormalizeForEquality(_)          \* Exp::normalizeForEquality
-----------------------------------------------------------------------------
(* Elements of a TupleDecl: Var, or a record of the constant's value.      *)
Var == [isConst |-> FALSE, val |-> 0]
Const(c) == [isConst |-> TRUE, val |-> c]
VarDecl(n) == [i \in 1 .. n |-> Var]

Conj(decl, inArity, eqs, ineqs) ==
  [decl |-> decl, inArity |-> inArity, eqs |-> eqs, ineqs |-> ineqs]
TRUEConj(n, inArity) == Conj(VarDecl(n), inArity, <<>>, <<>>)

ArityOf(c) == Len(c.decl)

HasConstraints(c) == Len(c.eqs) + Len(c.ineqs) > 0
-----------------------------------------------------------------------------
(* TupleDecl::operator<: shorter first, then element by element; a         *)
(* variable is below every constant.                                       *)
ElemLess(a, b) == \/ ~ a.isConst /\ b.isConst
                  \/ a.isConst /\ b.isConst /\ a.val < b.val
DeclLess(d, e) ==
  \/ Len(d) < Len(e)
  \/ /\ Len(d) = Len(e)
     /\ \E i \in DOMAIN d : /\ ElemLess(d[i], e[i])
                            /\ \A j \in 1 .. i - 1 : d[j] = e[j]

(* Two sorted constraint lists of the same length, element by element.     *)
ExpsLess(s, t) == \E i \in DOMAIN s : /\ ExpLess(s[i], t[i])
                                      /\ \A j \in 1 .. i - 1 : ExpEqual(s[j], t[j])

(* Mutated form: the inequalities themselves are not compared.             *)
ConjLess_NoInequalities(c, d) ==
  \/ DeclLess(c.decl, d.decl)
  \/ c.decl = d.decl /\ Len(c.eqs) < Len(d.eqs)
  \/ c.decl = d.decl /\ Len(c.eqs) = Len(d.eqs) /\ ExpsLess(c.eqs, d.eqs)

(* Conjunction::operator<.                                                 *)
ConjLess(c, d) ==
  LET size(x) == <<Len(x.eqs), Len(x.ineqs)>>
  IN  \/ DeclLess(c.decl, d.decl)
      \/ /\ c.decl = d.decl
         /\ \/ size(c)[1] < size(d)[1]
            \/ size(c)[1] = size(d)[1] /\ size(c)[2] < size(d)[2]
            \/ /\ size(c) = size(d)
               /\ \/ ExpsLess(c.eqs, d.eqs)
                  \/ c.eqs = d.eqs /\ ExpsLess(c.ineqs, d.ineqs)
-----------------------------------------------------------------------------
(* The scan shared by addEquality and addInequality: zero and duplicates   *)
(* are dropped, the rest goes before the first greater expression.         *)
InsertExp(list, e) ==
  LET stops == {i \in DOMAIN list : ExpEqual(e, list[i]) \/ ExpLess(e, list[i])}
  IN  CASE EqualsZero(e) -> list
        [] ~ EqualsZero(e) /\ stops = {} -> Append(list, e)
        [] OTHER -> IF ExpEqual(e, list[Min(stops)]) THEN list
                    ELSE InsertAt(list, Min(stops), e)

AddEquality(c, e) == [c EXCEPT !.eqs = InsertExp(@, NormalizeForEquality(e))]
AddInequality(c, e) == [c EXCEPT !.ineqs = InsertExp(@, e)]

AddEqualities(c, es) ==
  LET upTo[i \in 0 .. Len(es)] == IF i = 0 THEN c ELSE AddEquality(upTo[i - 1], es[i])
  IN  upTo[Len(es)]
AddInequalities(c, es) ==
  LET upTo[i \in 0 .. Len(es)] == IF i = 0 THEN c ELSE AddInequality(upTo[i - 1], es[i])
  IN  upTo[Len(es)]

(* A conjunction as the parser builds it.                                  *)
MkConj(decl, inArity, eqs, ineqs) ==
  AddInequalities(AddEqualities(Conj(decl, inArity, <<>>, <<>>), eqs), ineqs)

(* Mutated form: the inequalities are forgotten.                           *)
CopyConstraintsFrom_Equalities(c, d) == [c EXCEPT !.eqs = @ \o d.eqs]

(* Conjunction::copyConstraintsFrom: appended, neither sorted nor merged.  *)
CopyConstraintsFrom(c, d) == [c EXCEPT !.eqs = @ \o d.eqs, !.ineqs = @ \o d.ineqs]

(* Mutated form: the inequalities are forgotten.                           *)
IntersectConj_Equalities(c, d) == AddEqualities(c, d.eqs)

(* Conjunction::Intersect and Restrict: d's constraints are added to c's;  *)
(* d's tuple declaration is not looked at.                                 *)
IntersectConj(c, d) == AddInequalities(AddEqualities(c, d.eqs), d.ineqs)
-----------------------------------------------------------------------------
(* A Set or Relation: in = 0 in a set.  A new Set is the universe, one     *)
(* conjunction without constraints; a new Relation is empty.               *)
Object(kind, in, out, conjs) == [kind |-> kind, in |-> in, out |-> out, conjs |-> conjs]
NewSet(n) == Object("set", 0, n, <<TRUEConj(n, 0)>>)
NewRelation(in, out) == Object("rel", in, out, <<>>)

(* SparseConstraints::addConjunction: a lone conjunction without           *)
(* constraints goes; duplicates are dropped; the rest is kept sorted.      *)
AddConjunction(cs, c) ==
  LET kept == IF Len(cs) = 1 /\ ~ HasConstraints(cs[1]) THEN <<>> ELSE cs
      stops == {i \in DOMAIN kept : ~ ConjLess(kept[i], c)}
  IN  CASE stops = {} -> Append(kept, c)
        [] OTHER -> IF ConjLess(c, kept[Min(stops)]) THEN InsertAt(kept, Min(stops), c)
                    ELSE kept

AddAll(list, cs) ==
  LET upTo[i \in 0 .. Len(cs)] == IF i = 0 THEN list ELSE AddConjunction(upTo[i - 1], cs[i])
  IN  upTo[Len(cs)]
AddConjunctions(o, cs) == [o EXCEPT !.conjs = AddAll(@, cs)]

(* All pairs of conjunctions of two objects, in the order of the two loops *)
(* over them.                                                              *)
Pairs(o, r) ==
  [n \in 1 .. Len(o.conjs) * Len(r.conjs) |->
     << o.conjs[((n - 1) \div Len(r.conjs)) + 1], r.conjs[((n - 1) % Len(r.conjs)) + 1] >>]

SameArity(o, r) == o.in = r.in /\ o.out = r.out

(* What a call returns: an object or an exception, and (history) the       *)
(* conjunctions it handed to addConjunction, in order.                     *)
Returned(o, cs) == [ret |-> "obj", val |-> AddConjunctions(o, cs), handed |-> cs]
Raised == [ret |-> "throw", val |-> NewRelation(0, 0), handed |-> <<>>]

(* Set::Union, which first takes the default conjunction out, and          *)
(* Relation::Union.                                                        *)
UnionOf(o, r) ==
  IF ~ SameArity(o, r) THEN Raised
  ELSE Returned([o EXCEPT !.conjs = <<>>], o.conjs \o r.conjs)

IntersectPairs(ps) == [n \in DOMAIN ps |-> IntersectConj(ps[n][1], ps[n][2])]

(* Set::Intersect, whose result starts as the universe, and                *)
(* Relation::Intersect, whose result starts empty.                         *)
IntersectOf(o, r) ==
  IF ~ SameArity(o, r) THEN Raised
  ELSE Returned(IF o.kind = "set" THEN NewSet(o.out) ELSE NewRelation(o.in, o.out),
                IntersectPairs(Pairs(o, r)))

(* Relation::Restrict to a set.                                            *)
RestrictTo(o, s) ==
  IF o.in # s.out THEN Raised
  ELSE Returned(NewRelation(o.in, o.out), IntersectPairs(Pairs(o, s)))
-----------------------------------------------------------------------------
(* What the operations need of the constraints, a set Exps of them:        *)
(* operator< orders them and operator== is equality;                       *)
OrdersExps(Exps) ==
  /\ \A d, e \in Exps : /\ ExpEqual(d, e) <=> d = e
                        /\ d # e => ExpLess(d, e) \/ ExpLess(e, d)
                        /\ ~ (ExpLess(d, e) /\ ExpLess(e, d))
  /\ \A d, e, f \in Exps : ExpLess(d, e) /\ ExpLess(e, f) => ExpLess(d, f)

(* and at a tuple, where the expressions of Z are zero and those of P not  *)
(* negative, equal ones have the same value, zero is zero, and making the  *)
(* first coefficient positive keeps the zeros.                             *)
RespectsEqual(Q, Exps) ==
  /\ \A d, e \in Exps : ExpEqual(d, e) => (d \in Q <=> e \in Q)
  /\ \A e \in Exps : EqualsZero(e) => e \in Q
RespectsNormal(Z, Exps) ==
  \A e \in Exps : NormalizeForEquality(e) \in Exps /\ (NormalizeForEquality(e) \in Z <=> e \in Z)
TupleSees(Z, P, Exps) == RespectsEqual(Z, Exps) /\ RespectsEqual(P, Exps) /\ RespectsNormal(Z, Exps)
=============================================================================
