----------------------------- MODULE Dependence -----------------------------
(***************************************************************************)
(* detectUnsatOrFindEqualities of set_relation.cc, and the passes of       *)
(* module Affine put together with it, as the dependence simplification of *)
(* src/drivers does, and dataDependenceRelationship of setRelationship.cc. *)
(* Rules about functions, "for all x1, x2: left => right", are             *)
(* instantiated with the arguments of the calls of a set; ISL adds the     *)
(* instances that apply, and says that the set is empty or which           *)
(* equalities hold in it.                                                  *)
(*                                                                         *)
(* A set of ISL is modelled as a set of conjunctions, each a set of        *)
(* inequalities (module Isl), over the tuple and the symbols of calls.     *)
(***************************************************************************)
EXTENDS Affine

CONSTANTS
  Rules,      \* uniQuantRules: [type, left, right], sides are sets of arity 2
  TheOthers,  \* the last UniQuantRuleType
  Levels      \* the loop levels a client compares relations at

VARIABLES
  orig,   \* history: the object the session started with
  kept    \* history: the locations of orig that obj still has

dvars == <<obj, op, ops, ufcmap, orig, kept>>
-----------------------------------------------------------------------------
(* VisitorGatherAllParameters: the first argument of every call.           *)
Parameters(o) ==
  UNION {{F.args[1] : F \in CallsOf(o.conjs[i])} : i \in DOMAIN o.conjs}

(* instantiate: x1 and x2 for the variables of one side of a rule, and the *)
(* calls made symbols.  The constraints are those of the text up to the    *)
(* first closing brace; without a conjunction the text says FALSE.         *)
Instance(side, x1, x2) ==
  CopyOf([side EXCEPT !.conjs = Map(LAMBDA c :
            SubstituteInConstraints(c, [F \in {Tv(0), Tv(1)} |->
                                          IF F = Tv(0) THEN x1 ELSE x2]), @)]).val
False == {<<Term(-1, One)>>}
TextOf(o) == IF o.conjs = <<>> THEN False ELSE AsInequalities(o.conjs[1])
AffineText(o) == TextOf(SuperAffine(WithConjs(o, o.conjs)).val)

(* ruleInstantiation: the rules that are used, and their instances.  The   *)
(* array of enabled types ends before TheOthers, which reads whatever is   *)
(* behind it.                                                              *)
Used(behind) == {r \in Rules : r.type # TheOthers \/ behind}
Sides(rules, exps) ==
  {<<Instance(p[1].left, p[2], p[3]), Instance(p[1].right, p[2], p[3])>> :
     p \in rules \X exps \X exps}
RuleInstantiation(sides) == {<<AffineText(s[1]), AffineText(s[2])>> : s \in sides}
MapOf(sides, b) ==
  EnterCalls(FoldSet(LAMBDA s, map : EnterCalls(EnterCalls(map, s[1]), s[2]), <<>>, sides), b)
-----------------------------------------------------------------------------
(* isl_set_intersect and isl_set_complement.                               *)
IslMeet(s, t) == {es \in {p[1] \cup p[2] : p \in s \X t} : ~ IslEmpty(es)}
IslComplement(es) == {{Negated(e)} : e \in es}

(* Mutated form: the consequent is added without its antecedent.           *)
AddUseful_Always(s, inst) == IslMeet(s, {inst[2]})

(* The body of instantiationSet's loop: an instance whose antecedent       *)
(* follows adds its consequent; one whose consequent cannot be true adds   *)
(* the complement of its antecedent.                                       *)
AddUseful(s, inst) ==
  CASE \A es \in s : \A e \in inst[1] : IslImplies(es, e) -> IslMeet(s, {inst[2]})
    [] OTHER -> IF \A es \in s : IslEmpty(es \cup inst[2])
                  THEN IslMeet(s, IslComplement(inst[1])) ELSE s

(* instantiationSet: at most two rounds over the instances, in the order   *)
(* of their texts, which is some order here.                               *)
Round(s, insts) == FoldSet(LAMBDA i, acc : AddUseful(acc, i), s, insts)
SecondRound(s, before, insts) == IF s = {} \/ s = before THEN s ELSE Round(s, insts)
InstantiationSet(s, insts) == SecondRound(Round(s, insts), s, insts)

(* isl_set_affine_hull: the inequalities that are equalities.              *)
AffineHull(s) ==
  {e \in UNION s : \A es \in s : IslImplies(es, e) /\ IslImplies(es, MultiplyBy(e, -1))}

(* Mutated form: inequalities count too.                                   *)
AffineEqs_All(s, n) == MkConj(VarDecl(n), 0, Listed(UNION s), <<>>)
AffineEqs(s, n) == MkConj(VarDecl(n), 0, Listed(AffineHull(s)), <<>>)

(* VisitorGetUsefulEqs: equalities with a variable outside of calls.       *)
UsefulEqs(o) ==
  [o EXCEPT !.conjs = Map(LAMBDA c : MkConj(c.decl, 0,
     SelectSeq(c.eqs, LAMBDA e : \E i \in DOMAIN e : e[i].fac.type = TupleVar), <<>>), @)]

(* checkIslSet.                                                            *)
CheckIslSet(s, map, o) ==
  IF s = {} THEN NullResult
  ELSE IntersectOf(o, UsefulEqs(
         ReverseAffine(Object("set", 0, o.out, <<AffineEqs(s, o.out)>>), map).val))

(* Relation::detectUnsatOrFindEqualities works on a set made from the text *)
(* of the relation, of which the first conjunction is read, and back.      *)
AsSet(o) ==
  IF o.kind = "set" THEN o
  ELSE Object("set", 0, o.in + o.out,
              <<MkConj(o.conjs[1].decl, 0, o.conjs[1].eqs, o.conjs[1].ineqs)>>)
Back(o, x) ==
  IF o.kind = "set" \/ x.ret # "obj" THEN x
  ELSE Returned(NewRelation(o.in, o.out),
         Map(LAMBDA c : MkConj(c.decl, o.in, c.eqs, c.ineqs), x.val.conjs))

(* detectUnsatOrFindEqualities: set is the set, b its bounded copy.        *)
DetectIn(set, b, sides) ==
  CheckIslSet(InstantiationSet(IslMeet({AffineText(b)}, {{}}), RuleInstantiation(sides)),
              MapOf(sides, b), set)
DetectUnsatOrFindEqualities(o, behind) ==
  Back(o, DetectIn(AsSet(o), BoundDomainRange(AsSet(o)).val,
                   Sides(Used(behind), Parameters(o))))
-----------------------------------------------------------------------------
(* islSetProjectOut of a set, parsed again.                                *)
IslSetProjectOut(s, tv) ==
  Object("set", 0, s.out - 1,
         FlattenSeq(Map(LAMBDA c : IslProjectOut(PushConstToConstraints(c), tv), s.conjs)))

(* Mutated form: from the first variable, as if the others kept their      *)
(* places.                                                                 *)
IslSetProjectOutAll_Ascending(s, eigen) ==
  FoldLeft(LAMBDA acc, j : IF j - 1 \in eigen \/ j > acc.out THEN acc
                           ELSE IslSetProjectOut(acc, j - 1), s, [j \in 1 .. s.out |-> j])

(* islSetProjectOutAll: from the last variable, so that those still to     *)
(* come keep their places.                                                 *)
IslSetProjectOutAll(s, eigen) ==
  FoldLeft(LAMBDA acc, j : IF j - 1 \in eigen THEN acc ELSE IslSetProjectOut(acc, j - 1),
           s, Reverse([j \in 1 .. s.out |-> j]))

(* strISLSetRelationship.  Of its answers SubSetEqual and SuperSetEqual    *)
(* are never reached: a subset is equal or strict.                         *)
IslSubset(es, fs) == \A e \in fs : IslImplies(es, e)
Relationship(sub, super) ==
  CASE sub /\ super -> "SetEqual"
    [] sub /\ ~ super -> "SubSet"
    [] super /\ ~ sub -> "SuperSet"
    [] OTHER -> "UnKnown"
StrISLSetRelationship(es, fs) == Relationship(IslSubset(es, fs), IslSubset(fs, es))

(* iegenSetRelationship: the calls become symbols, of the same name when   *)
(* they have the same text, and all variables but some are projected out.  *)
Reduced(s, eigen) ==
  TextOf(IslSetProjectOutAll(SuperAffine(Bounded(CopyOf(s).val, FALSE)).val, eigen))
IegenSetRelationship(s, eigen1, t, eigen2) ==
  StrISLSetRelationship(Reduced(s, eigen1), Reduced(t, eigen2))

(* dataDependenceRelationship: the two iterators of a loop level stay.     *)
Eigen(o, level) == {level, o.in + level}
DataDependenceRelationship(o, r, level) ==
  IegenSetRelationship(AsSet(o), Eigen(o, level), AsSet(r), Eigen(r, level))
-----------------------------------------------------------------------------
DInit == AInit /\ orig = obj /\ kept = [l \in 1 .. obj.in + obj.out |-> l - 1]

(* getTupleDecl takes the first conjunction, which there must be.          *)
DoDetect(behind) ==
  /\ NoneSubstituted /\ obj.conjs # <<>>
  /\ Call("detect", behind, DetectUnsatOrFindEqualities(obj, behind))
  /\ UNCHANGED <<ufcmap, orig, kept>>

(* A client compares two relations in which the level is a loop.           *)
HasLevel(o, level) == o.kind = "rel" /\ o.conjs # <<>> /\ level < o.in /\ level < o.out
DoRelate(r, level) ==
  /\ NoneSubstituted /\ HasLevel(obj, level) /\ HasLevel(r, level)
  /\ Call("relate", [right |-> r, level |-> level],
          [ret |-> DataDependenceRelationship(obj, r, level), val |-> obj, handed |-> <<>>])
  /\ UNCHANGED <<ufcmap, orig, kept>>

(* The passes of Affine; history follows the variables projected out.      *)
Without(locs, gone) ==
  LET left == {l \in DOMAIN locs : l - 1 \notin gone}
  IN  [i \in 1 .. Cardinality(left) |->
         locs[CHOOSE l \in left : Cardinality({m \in left : m <= l}) = i]]
Gone == CASE op'.ret # "obj" -> {}
          [] op'.name = "project" -> {op'.arg}
          [] op'.name = "simplify" -> op'.arg.gone
          [] OTHER -> {}
DoPass == ANext /\ kept' = Without(kept, Gone) /\ UNCHANGED orig

DNext == \/ \E behind \in BOOLEAN : DoDetect(behind)
         \/ \E r \in Operands, level \in Levels : DoRelate(r, level)
         \/ DoPass

DSpec == DInit /\ [][DNext]_dvars
-----------------------------------------------------------------------------
(* The interpretations in which the rules hold, over Middle.               *)
Obeys(k) == \A r \in Rules : \A v \in Tuples(2, Middle) : Has(r.left, k, v) => Has(r.right, k, v)
Lawful == {k \in Interps : Obeys(k)}

(* The tuples a set can have: calls within bounds, rules obeyed.           *)
Possible(map, o) == {kp \in BoundedMeant(map, o) : kp[1] \in Lawful}

(* detectUnsatOrFindEqualities of one conjunction returns NULL only when   *)
(* no tuple is possible, and else adds equalities that every possible      *)
(* tuple satisfies, whether or not the rules of type TheOthers are used.   *)
DetectSound == op'.ret = "null" => Possible(ufcmap, obj) = {}
DetectKeeps == op'.ret = "obj" => /\ Possible(ufcmap, obj) \subseteq Meant(obj')
                                  /\ Meant(obj') \subseteq Meant(obj)
DetectRight ==
  [][ op'.name = "detect" /\ Len(obj.conjs) = 1 /\ SingleBounds(obj) => DetectSound /\ DetectKeeps ]_dvars

(* No pass, in any order, loses a possible dependence: every possible      *)
(* tuple of the set the session started with is, in the variables that are *)
(* left, one of the set it has now (symbols meaning their calls), and NULL *)
(* from the passes that mean "no dependence" is never wrong.               *)
Says == {"detect"} \cup (IF orig.kind = "rel" THEN {"simplify"} ELSE {})
NoDependenceLost ==
  Len(orig.conjs) = 1 /\ SingleBounds(orig) /\ Shallow(orig) =>
    /\ {<<kp[1], [i \in DOMAIN kept |-> kp[2][kept[i] + 1]]>> : kp \in Possible(<<>>, orig)}
         \subseteq MappedMeant(ufcmap, obj)
    /\ op.ret = "null" /\ op.name \in Says => Possible(<<>>, orig) = {}

(* What dataDependenceRelationship says of two relations is true of their  *)
(* projections, under every interpretation, when no variable that is       *)
(* projected out is in a call (its symbol would mean one value for all),   *)
(* and the relations have as many inputs (or else the same symbol means    *)
(* calls of different variables).                                          *)
ParamsStay(o, level) ==
  \A tv \in 0 .. o.in + o.out - 1 : IsParam(o, tv) => tv \in Eigen(o, level)
Others(o, level) == (0 .. o.in + o.out - 1) \ Eigen(o, level)
SaysRight(ret, mine, theirs) ==
  /\ ret \in {"SetEqual", "SubSet"} => mine \subseteq theirs
  /\ ret \in {"SetEqual", "SuperSet"} => theirs \subseteq mine
RelatesRight ==
  [][ /\ op'.name = "relate" /\ obj.in = op'.arg.right.in
      /\ ParamsStay(obj, op'.arg.level) /\ ParamsStay(op'.arg.right, op'.arg.level)
      /\ Len(obj.conjs) = 1
      => SaysRight(op'.ret, InWindow(Forget(obj, Others(obj, op'.arg.level))),
                   InWindow(Forget(op'.arg.right, Others(op'.arg.right, op'.arg.level)))) ]_dvars
=============================================================================
