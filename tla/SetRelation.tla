---------------------------- MODULE SetRelation ----------------------------
(***************************************************************************)
(* Set and Relation of src/set_relation/set_relation.cc: unions of         *)
(* conjunctions.  The state is one Set or Relation and the calls a client  *)
(* makes on it, one after the other, with operands from a library; each    *)
(* call returns the next object.  A call that throws leaves the object.    *)
(*                                                                         *)
(* The calls are checked against what they mean: a set is the set of its   *)
(* integer tuples, under every interpretation of the symbolic constants    *)
(* and functions.                                                          *)
(***************************************************************************)
EXTENDS Conjunction

CONSTANTS
  Starts,     \* the objects a session starts with
  Operands,   \* the objects used as the other operand
  Window,     \* the integers tuples are compared over
  Middle,     \* the integers the tuple between two relations ranges over
  Interps,    \* the interpretations of symbols and functions
  MaxOps      \* bound: calls in a session

VARIABLES
  obj,   \* the Set or Relation: [kind, in, out, conjs], in = 0 in a set
  op,    \* history: the last call, its operand, whether it threw, and the
         \* conjunctions it handed to addConjunction
  ops    \* history: the number of calls

vars == <<obj, op, ops>>
-----------------------------------------------------------------------------
(* SparseConstraints::cleanUp.                                             *)
CleanUpAll(o) ==
  [o EXCEPT !.conjs = SortSeq(SelectSeq([i \in DOMAIN @ |-> CleanUp(@[i])], Satisfiable),
                              ConjLess)]

Map(Op(_), s) == [i \in DOMAIN s |-> Op(s[i])]
Cleaned(x) == IF x.ret = "obj" THEN [x EXCEPT !.val = CleanUpAll(@)] ELSE x

(* Relation::Inverse.                                                      *)
InverseRel(o) == Cleaned(Returned(NewRelation(o.out, o.in), Map(InverseConj, o.conjs)))

(* The loops of Compose and Apply: a conjunction that throws ends them.    *)
Combine(fresh, results) ==
  IF \E i \in DOMAIN results : results[i].ret = "throw" THEN Raised
  ELSE Cleaned(Returned(fresh, Map(LAMBDA x : x.conj, results)))

(* Relation::Compose, o after r, and Relation::Apply of o to a set.        *)
ComposeOf(o, r) ==
  IF r.out # o.in THEN Raised
  ELSE Combine(NewRelation(r.in, o.out),
               Map(LAMBDA p : ComposeConj(p[1], p[2], r.out), Pairs(o, r)))
ApplyTo(o, s) ==
  IF s.out # o.in THEN Raised
  ELSE Combine(NewSet(o.out), Map(LAMBDA p : ApplyConj(p[1], p[2]), Pairs(o, s)))

(* The copy constructor: SparseConstraints::operator=.                     *)
CopyOf(o) == Cleaned(Returned([o EXCEPT !.conjs = <<>>], o.conjs))
-----------------------------------------------------------------------------
Call(name, arg, result) ==
  /\ ops < MaxOps /\ ops' = ops + 1
  /\ op' = [name |-> name, arg |-> arg, ret |-> result.ret, handed |-> result.handed]
  /\ obj' = IF result.ret = "obj" THEN result.val ELSE obj

Init == /\ obj \in Starts
        /\ op = [name |-> "new", arg |-> obj, ret |-> "obj", handed |-> <<>>]
        /\ ops = 0

DoUnion(r) == r.kind = obj.kind /\ Call("union", r, UnionOf(obj, r))
DoIntersect(r) == r.kind = obj.kind /\ Call("intersect", r, IntersectOf(obj, r))
DoRestrict(s) == obj.kind = "rel" /\ s.kind = "set" /\ Call("restrict", s, RestrictTo(obj, s))
DoInverse == obj.kind = "rel" /\ Call("inverse", obj, InverseRel(obj))
DoComposeAfter(r) == obj.kind = "rel" /\ r.kind = "rel"
                     /\ Call("composeAfter", r, ComposeOf(obj, r))
DoComposeBefore(r) == obj.kind = "rel" /\ r.kind = "rel"
                      /\ Call("composeBefore", r, ComposeOf(r, obj))
DoApply(r) == obj.kind = "set" /\ r.kind = "rel" /\ Call("apply", r, ApplyTo(r, obj))
DoCopy == Call("copy", obj, CopyOf(obj))

Next == \/ \E r \in Operands : \/ DoUnion(r) \/ DoIntersect(r) \/ DoRestrict(r)
                               \/ DoComposeAfter(r) \/ DoComposeBefore(r) \/ DoApply(r)
        \/ DoInverse \/ DoCopy

Spec == Init /\ [][Next]_vars
-----------------------------------------------------------------------------
(* The tuple p, over the locations of c, satisfies c under k.              *)
Holds(c, k, p) ==
  /\ \A l \in DOMAIN c.decl : c.decl[l].isConst => p[l] = c.decl[l].val
  /\ \A i \in DOMAIN c.eqs : Value(c.eqs[i], k, p) = 0
  /\ \A i \in DOMAIN c.ineqs : Value(c.ineqs[i], k, p) >= 0

Has(o, k, p) == \E i \in DOMAIN o.conjs : Holds(o.conjs[i], k, p)

Tuples(n, W) == [1 .. n -> W]

(* The points of an object: interpretation and tuple.                      *)
Meant(o) == {kp \in Interps \X Tuples(o.in + o.out, Window) : Has(o, kp[1], kp[2])}

(* The points of o after r, and of o applied to s.                         *)
Composed(o, r) ==
  {kp \in Interps \X Tuples(r.in + o.out, Window) :
     \E v \in Tuples(o.in, Middle) :
       /\ Has(r, kp[1], SubSeq(kp[2], 1, r.in) \o v)
       /\ Has(o, kp[1], v \o SubSeq(kp[2], r.in + 1, r.in + o.out))}
Applied(o, s) ==
  {kp \in Interps \X Tuples(o.out, Window) :
     \E v \in Tuples(o.in, Middle) : Has(s, kp[1], v) /\ Has(o, kp[1], v \o kp[2])}
Swapped(o) ==
  {kp \in Interps \X Tuples(o.in + o.out, Window) :
     Has(o, kp[1], SubSeq(kp[2], o.out + 1, o.in + o.out) \o SubSeq(kp[2], 1, o.out))}
Restricted(o, s) == {kp \in Meant(o) : Has(s, kp[1], SubSeq(kp[2], 1, o.in))}
-----------------------------------------------------------------------------
(* Type invariant: arities agree throughout, and no constraint mentions a  *)
(* location beyond the tuple, which a location that Compose or Apply       *)
(* failed to substitute would be.                                          *)
LocsBelow(e, n) == \A x \in Parts(e) : \A i \in DOMAIN x :
  x[i].fac.type = TupleVar => x[i].fac.id \in 0 .. n - 1
TypeOK ==
  \A n \in DOMAIN obj.conjs :
    LET c == obj.conjs[n]
    IN  /\ ArityOf(c) = obj.in + obj.out /\ c.inArity = obj.in
        /\ \A i \in DOMAIN c.eqs : LocsBelow(c.eqs[i], ArityOf(c))
        /\ \A i \in DOMAIN c.ineqs : LocsBelow(c.ineqs[i], ArityOf(c))
-----------------------------------------------------------------------------
(* What the last call should have returned.                                *)
Expected(o, name, arg) ==
  CASE name = "union" -> Meant(o) \cup Meant(arg)
    [] name = "intersect" -> Meant(o) \cap Meant(arg)
    [] name = "restrict" -> Restricted(o, arg)
    [] name = "inverse" -> Swapped(o)
    [] name = "composeAfter" -> Composed(o, arg)
    [] name = "composeBefore" -> Composed(arg, o)
    [] name = "apply" -> Applied(arg, o)
    [] name = "copy" -> Meant(o)

Did(names) == op'.name \in names /\ op'.ret = "obj"
Right == Meant(obj') = Expected(obj, op'.name, op'.arg)
Covers == Expected(obj, op'.name, op'.arg) \subseteq Meant(obj')

(* addConjunction takes a lone conjunction without constraints for the     *)
(* placeholder of a new object.  The calls are right when none of the      *)
(* conjunctions they add can be mistaken for it, and a set gets some.      *)
NoneMistaken ==
  /\ Len(op'.handed) > 1 => \A i \in DOMAIN op'.handed : HasConstraints(op'.handed[i])
  /\ obj'.kind = "set" => op'.handed # <<>>

(* Union and the copy constructor: no tuple is added or lost, although     *)
(* duplicates are dropped by comparing lists that Inverse left unsorted    *)
(* and contradictions are removed.                                         *)
UnionRight == [][ Did({"union", "copy"}) /\ (NoneMistaken \/ op'.handed = <<>>) => Right ]_vars

(* Intersect and Restrict ("r \ s = { x -> y : D[z/x] && C }"), when the   *)
(* other operand's tuple has no constant: those are not looked at.         *)
VarsOnly(o) == \A i \in DOMAIN o.conjs : o.conjs[i].decl = VarDecl(o.in + o.out)
IntersectRight ==
  [][ Did({"intersect", "restrict"}) /\ VarsOnly(op'.arg) /\ NoneMistaken => Right ]_vars

(* Inverse swaps inputs and outputs in every conjunction.                  *)
InverseRight == [][ Did({"inverse"}) /\ NoneMistaken => Right ]_vars

(* Compose and Apply eliminate the tuple in between by substituting a      *)
(* function found for each of its elements, whichever equality it came     *)
(* from.  No tuple is lost, and none is added when no two constraints make *)
(* one element different constants, which the pairs having a tuple in      *)
(* common rules out.                                                       *)
Composing == {"composeAfter", "composeBefore", "apply"}
Single(o, i) == [o EXCEPT !.conjs = <<@[i]>>]
PairsMeet ==
  \A i \in DOMAIN obj.conjs, j \in DOMAIN op'.arg.conjs :
    Expected(Single(obj, i), op'.name, Single(op'.arg, j)) # {}
ComposeRight == [][ Did(Composing) /\ NoneMistaken => Covers /\ (PairsMeet => Right) ]_vars

(* "Union this set with the given other one": without the condition.       *)
UnionAlwaysRight == [][ Did({"union"}) => Right ]_vars
=============================================================================
