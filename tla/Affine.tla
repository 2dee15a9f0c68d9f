------------------------------- MODULE Affine -------------------------------
(***************************************************************************)
(* The passes of set_relation.cc that make a set or relation affine, hand  *)
(* it to ISL and turn it back: boundDomainRange, superAffineSet and        *)
(* superAffineRelation, reverseAffineSubstitution, projectOut,             *)
(* simplifyForPartialParallel and removeExpensiveConstraints.              *)
(*                                                                         *)
(* They are visitors: a conjunction's equalities are visited, then its     *)
(* inequalities, term by term and into the arguments of calls.  The state  *)
(* is SetRelation's object and the UFCallMap that the passes share.        *)
(***************************************************************************)
EXTENDS SetRelation, Isl

CONSTANTS
  Domain,      \* Domain[f]: queryDomainCurrEnv
  RangeOf,     \* RangeOf[f]: queryRangeCurrEnv
  Symbol(_),   \* the symbolic constant UFCallMap makes from a call's text;
               \* no two calls of an instance share one (see UFCallMap)
  Parallel,    \* the sets of variables a client wants to parallelize
  Budgets,     \* the numbers of constraints it lets go
  Ignored      \* constraints that do not count (they bound calls)

VARIABLE ufcmap   \* the call of each symbolic constant handed out

avars == <<obj, op, ops, ufcmap>>

(* Conjunction::setInArity throws when there would be no output.           *)
ArityThrows(n, inArity) == inArity > n - 1
-----------------------------------------------------------------------------
(* The calls of an expression, nested ones too.                            *)
CallsIn(e) == UNION {{x[i].fac : i \in {j \in DOMAIN x : x[j].fac.type = UFCall}} : x \in Parts(e)}
Constraints(c) == Range(c.eqs) \cup Range(c.ineqs)
CallsOf(c) == UNION {CallsIn(e) : e \in Constraints(c)}

(* Set::boundTupleExp: the constraints of s with exps for its variables.   *)
BoundConj(c, exps) ==
  [SubstituteInConstraints(PushConstToConstraints(c),
     [F \in {Tv(i - 1) : i \in DOMAIN exps} |-> exps[F.id + 1]])
   EXCEPT !.decl = <<>>]
BoundTupleExp(s, exps) ==
  AddConjunctions(NewSet(0), Map(LAMBDA c : BoundConj(c, exps), s.conjs))

(* setTupleDecl, for the constraints to line up with the tuple.            *)
WithDecl(s, decl) == [s EXCEPT !.out = Len(decl),
                               !.conjs = [i \in DOMAIN @ |-> [@[i] EXCEPT !.decl = decl]]]

(* Mutated form: the arguments are not bounded.                            *)
CallBounds_RangeOnly(F) == <<BoundTupleExp(RangeOf[F.id], <<<<Term(1, F)>>>>)>>

(* VisitorBoundDomainRange::preVisitUFCallTerm: the bounds of one call, of *)
(* its arguments and of its value (functions return one value here).       *)
CallBounds(F) == << BoundTupleExp(Domain[F.id], F.args),
                    BoundTupleExp(RangeOf[F.id], <<<<Term(1, F)>>>>) >>

(* The constraint set of a conjunction: intersected call by call.          *)
AddedConstSet(c) ==
  FoldSet(LAMBDA F, s : FoldLeft(LAMBDA r, b : IntersectOf(r, WithDecl(b, c.decl)).val,
                                 s, CallBounds(F)),
          [NewSet(ArityOf(c)) EXCEPT !.conjs[1].decl = c.decl], CallsOf(c))

(* boundDomainRange, on a copy: each conjunction is intersected with the   *)
(* first conjunction of its constraint set.  Nothing is sorted again.      *)
WithConjs(o, conjs) == [ret |-> "obj", val |-> [o EXCEPT !.conjs = conjs], handed |-> conjs]
BoundConjs(copy) ==
  IF copy.conjs # <<>> /\ ArityThrows(copy.in + copy.out, copy.in) THEN Raised
  ELSE WithConjs(copy, Map(LAMBDA c : IntersectConj(c, AddedConstSet(c).conjs[1]), copy.conjs))
BoundDomainRange(o) == BoundConjs(CopyOf(o).val)
-----------------------------------------------------------------------------
(* Every constraint of a conjunction built again, term by term.            *)
RebuildConj(c, Of(_)) ==
  MkConj(c.decl, c.inArity, Map(LAMBDA e : MkExp(Map(Of, e)), c.eqs),
                            Map(LAMBDA e : MkExp(Map(Of, e)), c.ineqs))
Fresh(o) == IF o.kind = "set" THEN NewSet(o.out) ELSE NewRelation(o.in, o.out)
RebuildObject(o, Of(_)) ==
  IF o.conjs # <<>> /\ ArityThrows(o.in + o.out, o.in) THEN Raised
  ELSE Returned(Fresh(o), Map(LAMBDA c : RebuildConj(c, Of), o.conjs))

(* Mutated form: the symbol gets coefficient 1.                            *)
AffineTerm_LosesCoefficient(t) ==
  IF t.fac.type = UFCall THEN Term(1, Sym(Symbol(t.fac))) ELSE t

(* VisitorSuperAffineSet: an outermost call becomes its symbol, with the   *)
(* coefficient of the call; arguments are not visited.                     *)
AffineTerm(t) == IF t.fac.type = UFCall THEN [t EXCEPT !.fac = Sym(Symbol(@))] ELSE t

OuterCalls(c) == {F \in UNION {{e[i].fac : i \in DOMAIN e} : e \in Constraints(c)} :
                    F.type = UFCall}
(* UFCallMap::find enters the calls met.                                   *)
EnterCalls(map, o) ==
  LET calls == UNION {OuterCalls(o.conjs[i]) : i \in DOMAIN o.conjs}
  IN  [s \in DOMAIN map \cup {Symbol(F) : F \in calls} |->
         IF s \in DOMAIN map THEN map[s] ELSE CHOOSE F \in calls : Symbol(F) = s]

(* superAffineSet and superAffineRelation.  Without conjunctions, a copy.  *)
(* b is what boundDomainRange or the copy constructor returned.            *)
Bounded(o, boundUFCs) == IF boundUFCs THEN BoundConjs(o) ELSE WithConjs(o, o.conjs)
SuperAffine(b) == IF b.ret = "throw" \/ b.val.conjs = <<>> THEN b
                  ELSE RebuildObject(b.val, AffineTerm)
MapAfter(map, b) == IF b.ret = "throw" THEN map ELSE EnterCalls(map, b.val)

(* reverseAffineSubstitution: a symbol that is in the map becomes its call *)
(* again.  A call in the affine set throws.                                *)
NonAffineTerm(map, t) ==
  IF t.fac.type = SymConst /\ t.fac.id \in DOMAIN map THEN [t EXCEPT !.fac = map[@.id]] ELSE t
ReverseAffine(o, map) ==
  IF \E i \in DOMAIN o.conjs : OuterCalls(o.conjs[i]) # {} THEN Raised
  ELSE RebuildObject(o, LAMBDA t : NonAffineTerm(map, t))
-----------------------------------------------------------------------------
(* VisitorIsUFCallParam: seen is the flag of the expression being visited, *)
(* prev the saved flag of the enclosing one (one for all levels).          *)
RECURSIVE VisitExp(_, _, _, _)
VisitTerm(tv, st, t) ==
  IF t.fac.type = TupleVar THEN [st EXCEPT !.seen = @ \/ t.fac.id = tv]
  ELSE FoldLeft(LAMBDA s, e : VisitExp(tv, s, e, TRUE), st, t.fac.args)
PostVisit(st, isArg) ==
  [st EXCEPT !.result = @ \/ (isArg /\ st.seen), !.seen = st.prev]
VisitExp(tv, st, e, isArg) ==
  PostVisit(FoldLeft(LAMBDA s, t : VisitTerm(tv, s, t),
                     [st EXCEPT !.prev = st.seen, !.seen = FALSE], e), isArg)

(* Mutated form: the flag is not cleared for an argument.                  *)
IsUFCallParam_TopLevel(o, tv) ==
  \E i \in DOMAIN o.conjs : \E e \in Constraints(o.conjs[i]) :
    CallsIn(e) # {} /\ DependsOn(e, Tv(tv))

IsUFCallParam(o, tv) ==
  LET visitConj(st, c) == FoldLeft(LAMBDA s, e : VisitExp(tv, s, e, FALSE), st, c.eqs \o c.ineqs)
  IN  FoldLeft(visitConj, [seen |-> FALSE, prev |-> FALSE, result |-> FALSE], o.conjs).result

(* The arities after tv is gone.                                           *)
ProjectedArity(o, tv) == IF tv < o.in THEN [in |-> o.in - 1, out |-> o.out]
                         ELSE [in |-> o.in, out |-> o.out - 1]

(* VisitorProjectOut: each conjunction through ISL; of the result only the *)
(* first conjunction is used, and none is added when there is none.        *)
Projection(o, tv, ar) ==
  LET results == Map(LAMBDA c : IslProjectOut(PushConstToConstraints([c EXCEPT !.inArity = 0]), tv),
                     o.conjs)
      new == Map(LAMBDA r : [r[1] EXCEPT !.inArity = ar.in],
                 SelectSeq(results, LAMBDA r : r # <<>>))
  IN  IF new # <<>> /\ ArityThrows(ar.in + ar.out, ar.in) THEN Raised
      ELSE Returned(Fresh(Object(o.kind, ar.in, ar.out, <<>>)), new)

(* Mutated form: the arguments keep the old numbers.                       *)
CleanUpCalls_None(o, tv) == o

(* VisitorProjectOutCleanUp: variables above tv that are in the arguments  *)
(* of calls move down; lists stay as they are.                             *)
CleanUpTerm(t, locs) ==
  IF t.fac.type = UFCall
    THEN [t EXCEPT !.fac.args = [a \in DOMAIN @ |-> RemapTupleVars(@[a], locs)]] ELSE t
CleanUpCalls(o, tv) ==
  LET exps(es) == Map(LAMBDA e : Map(LAMBDA t : CleanUpTerm(t, Down(o.in + o.out + 1, tv)), e), es)
  IN  [o EXCEPT !.conjs = Map(LAMBDA c : [c EXCEPT !.eqs = exps(@), !.ineqs = exps(@)], @)]

(* projectOut, with a new UFCallMap.                                       *)
CleanedCalls(x, tv) == IF x.ret = "obj" THEN [x EXCEPT !.val = CleanUpCalls(@, tv)] ELSE x
Reversed(x, map) ==
  IF x.ret = "obj" THEN [ReverseAffine(x.val, map) EXCEPT !.handed = x.handed] ELSE x
Projected(x, tv) == IF x.ret = "obj" THEN Projection(x.val, tv, ProjectedArity(x.val, tv)) ELSE x
NullResult == [ret |-> "null", val |-> NewRelation(0, 0), handed |-> <<>>]
ProjectCopy(b, tv) ==
  CleanedCalls(Reversed(Projected(SuperAffine(b), tv), MapAfter(<<>>, b)), tv)
ProjectOut(o, tv) ==
  IF IsUFCallParam(o, tv) THEN NullResult ELSE ProjectCopy(CopyOf(o), tv)

(* isDefault: the object a new Set or Relation is.                         *)
IsDefault(o) == o = Fresh(o)

(* One round of simplifyForPartialParallel: r is what projectOut returned  *)
(* for variable i.  gone (history) are the variables projected out.        *)
OrNull(x) == IF x.ret = "obj" /\ IsDefault(x.val) THEN [x EXCEPT !.ret = "null"] ELSE x
SimplifyRound(x, i, r) ==
  IF r.ret = "null" THEN OrNull(x)
  ELSE OrNull([ret |-> r.ret, val |-> r.val, gone |-> x.gone \cup {i}])

(* Mutated form: variables to be kept are projected out too.               *)
SimplifyStep_Parallel(x, i, par) ==
  IF x.ret # "obj" THEN x ELSE SimplifyRound(x, i, ProjectOut(x.val, i))

SimplifyStep(x, i, par) ==
  IF x.ret # "obj" \/ i \in par THEN x ELSE SimplifyRound(x, i, ProjectOut(x.val, i))
SimplifyForPartialParallel(o, par) ==
  FoldLeft(LAMBDA x, j : SimplifyStep(x, j - 1, par),
           [ret |-> "obj", val |-> CopyOf(o).val, gone |-> {}],
           Reverse([j \in 1 .. o.in + o.out |-> j]))
-----------------------------------------------------------------------------
(* The constraints in which tv is in an argument of a call.                *)
InArgument(e, tv) ==
  \E F \in CallsIn(e) : \E a \in DOMAIN F.args :
    \E i \in DOMAIN F.args[a] : F.args[a][i].fac = Tv(tv)
NumUFCallConstsMustRemove(o, tv, ignore) ==
  FoldLeft(LAMBDA n, c : n + Len(SelectSeq(c.eqs \o c.ineqs,
                           LAMBDA e : InArgument(e, tv) /\ e \notin ignore)),
           0, o.conjs)

(* removeUFCallConsts, ignored constraints too, and the assignment that    *)
(* cleans the result up.                                                   *)
RemoveUFCallConsts(o, tv) ==
  LET keep(es) == SelectSeq(es, LAMBDA e : ~ InArgument(e, tv))
      reduced(c) == MkConj(c.decl, c.inArity, keep(c.eqs), keep(c.ineqs))
  IN  CopyOf(AddConjunctions([o EXCEPT !.conjs = <<>>], Map(reduced, o.conjs))).val

(* Mutated form: the budget is not used up.                                *)
RemoveStep_FreeBudget(x, i, par, ignore) ==
  LET n == NumUFCallConstsMustRemove(x.val, i, ignore)
  IN  IF i \in par \/ n > x.left THEN x
      ELSE [val |-> RemoveUFCallConsts(x.val, i), left |-> x.left]

(* One round of removeExpensiveConstraints.                                *)
RemoveStep(x, i, par, ignore) ==
  LET n == NumUFCallConstsMustRemove(x.val, i, ignore)
  IN  IF i \in par \/ n > x.left THEN x
      ELSE [val |-> RemoveUFCallConsts(x.val, i), left |-> x.left - n]
RemoveExpensive(o, par, budget) ==
  FoldLeft(LAMBDA x, j : RemoveStep(x, j - 1, par, Ignored), [val |-> o, left |-> budget],
           Reverse([j \in 1 .. o.in + o.out |-> j])).val
RemoveThrows(o, par, budget) ==
  /\ o.conjs # <<>> /\ ArityThrows(o.in + o.out, o.in)
  /\ \E i \in (0 .. o.in + o.out - 1) \ par : NumUFCallConstsMustRemove(o, i, Ignored) <= budget
-----------------------------------------------------------------------------
AInit == Init /\ ufcmap = <<>>

DoBound == /\ Call("bound", 0, BoundDomainRange(obj))
           /\ UNCHANGED ufcmap
Substituted(boundUFCs, b) == /\ Call("affine", boundUFCs, SuperAffine(b))
                             /\ ufcmap' = MapAfter(ufcmap, b)
DoSuperAffine(boundUFCs) == Substituted(boundUFCs, Bounded(CopyOf(obj).val, boundUFCs))
DoReverse == /\ Call("reverse", 0, ReverseAffine(obj, ufcmap))
             /\ UNCHANGED ufcmap

(* A client projects variables out of objects without symbols for calls:   *)
(* the map it has would not follow.                                        *)
Symbols(o) == UNION {{e[i].fac.id : i \in {j \in DOMAIN e : e[j].fac.type = SymConst}} :
                     e \in UNION {Constraints(o.conjs[n]) : n \in DOMAIN o.conjs}}
NoneSubstituted == Symbols(obj) \cap DOMAIN ufcmap = {}

DoProjectOut(tv) == /\ NoneSubstituted
                    /\ Call("project", tv, ProjectOut(obj, tv))
                    /\ UNCHANGED ufcmap
Simplified(par, x) == Call("simplify", [par |-> par, gone |-> x.gone],
                           [ret |-> x.ret, val |-> x.val, handed |-> <<>>])
DoSimplify(par) == /\ NoneSubstituted
                   /\ Simplified(par, SimplifyForPartialParallel(obj, par))
                   /\ UNCHANGED ufcmap
DoRemove(par, budget) ==
  /\ Call("remove", budget,
          IF RemoveThrows(obj, par, budget) THEN Raised
          ELSE [ret |-> "obj", val |-> RemoveExpensive(obj, par, budget), handed |-> <<>>])
  /\ UNCHANGED ufcmap

ANext == \/ DoBound
         \/ \E b \in BOOLEAN : DoSuperAffine(b)
         \/ DoReverse
         \/ \E tv \in 0 .. obj.in + obj.out - 1 : DoProjectOut(tv)
         \/ \E par \in Parallel : DoSimplify(par) \/ \E n \in Budgets : DoRemove(par, n)

ASpec == AInit /\ [][ANext]_avars
-----------------------------------------------------------------------------
(* The points of an object in which the symbols of map mean their calls.   *)
Unmapped(map, F) == IF F.type = SymConst /\ F.id \in DOMAIN map THEN map[F.id] ELSE F
MappedValue(map, e, k, p) ==
  FoldLeft(LAMBDA n, t : n + t.coef * Value(<<Term(1, Unmapped(map, t.fac))>>, k, p), 0, e)
MappedHolds(map, c, k, p) ==
  /\ \A l \in DOMAIN c.decl : c.decl[l].isConst => p[l] = c.decl[l].val
  /\ \A i \in DOMAIN c.eqs : MappedValue(map, c.eqs[i], k, p) = 0
  /\ \A i \in DOMAIN c.ineqs : MappedValue(map, c.ineqs[i], k, p) >= 0
MappedMeant(map, o) ==
  {kp \in Interps \X Tuples(o.in + o.out, Window) :
     \E i \in DOMAIN o.conjs : MappedHolds(map, o.conjs[i], kp[1], kp[2])}

(* Every call of c has its arguments in the domain and its value in the    *)
(* range declared for the function.                                        *)
InBounds(c, k, p) ==
  \A F \in CallsOf(c) :
    LET vs == [a \in DOMAIN F.args |-> Value(F.args[a], k, p)]
    IN  Has(Domain[F.id], k, vs) /\ Has(RangeOf[F.id], k, <<Meaning(k, Bare(F), vs)>>)
BoundedMeant(map, o) ==
  {kp \in Interps \X Tuples(o.in + o.out, Window) :
     \E i \in DOMAIN o.conjs : MappedHolds(map, o.conjs[i], kp[1], kp[2])
                               /\ InBounds(o.conjs[i], kp[1], kp[2])}
SingleBounds(o) == \A i \in DOMAIN o.conjs : \A F \in CallsOf(o.conjs[i]) :
                     Len(Domain[F.id].conjs) = 1 /\ Len(RangeOf[F.id].conjs) = 1

(* The points left when the variables in gone are forgotten.               *)
Kept(n, gone) == SetToSortSeq((1 .. n) \ {g + 1 : g \in gone}, <)
At(o, locs) ==
  {<<kp[1], [i \in DOMAIN locs |-> kp[2][locs[i]]]>> :
     kp \in {kq \in Interps \X Tuples(o.in + o.out, Middle) : Has(o, kq[1], kq[2])}}
Forget(o, gone) == At(o, Kept(o.in + o.out, gone))
InWindow(kps) == {kp \in kps : \A i \in DOMAIN kp[2] : kp[2][i] \in Window}

(* How deep calls are nested.                                              *)
RECURSIVE Depth(_)
Depth(e) == LET calls == {j \in DOMAIN e : e[j].fac.type = UFCall}
            IN  IF calls = {} THEN 0
                ELSE 1 + Max({0} \cup UNION {{Depth(e[i].fac.args[a]) : a \in DOMAIN e[i].fac.args} :
                                            i \in calls})
Shallow(o) == \A i \in DOMAIN o.conjs : \A e \in Constraints(o.conjs[i]) : Depth(e) <= 2
IsParam(o, tv) == \E i \in DOMAIN o.conjs : \E e \in Constraints(o.conjs[i]) : InArgument(e, tv)
-----------------------------------------------------------------------------
(* boundDomainRange keeps the tuples whose calls are within the declared   *)
(* domains and ranges, nested calls included, and no others, when each of  *)
(* those is one conjunction (of a union only the first is used).           *)
BoundRight ==
  [][ Did({"bound"}) /\ SingleBounds(obj) =>
        MappedMeant(ufcmap', obj') = BoundedMeant(ufcmap, obj) ]_avars

(* superAffineSet is a superset, exact when the symbols mean their calls,  *)
(* and reverseAffineSubstitution undoes it, although the map is shared by  *)
(* several substitutions and constraints are merged and sorted anew.       *)
TranslationExact ==
  [][ /\ Did({"affine"}) /\ NoneMistaken /\ (op'.arg => SingleBounds(obj)) =>
           MappedMeant(ufcmap', obj') =
             IF op'.arg THEN BoundedMeant(ufcmap, obj) ELSE MappedMeant(ufcmap, obj)
      /\ Did({"reverse"}) /\ NoneMistaken => Meant(obj') = MappedMeant(ufcmap, obj) ]_avars

(* projectOut returns NULL just when the variable is in an argument of a   *)
(* call, throws at most when the last variable of a set or the last output *)
(* of a relation would go, and otherwise returns the projection: no tuple  *)
(* is lost or added, and what is in the calls refers to the variables it   *)
(* referred to.                                                            *)
ProjectRight ==
  [][ op'.name = "project" /\ Shallow(obj) =>
        /\ op'.ret = "null" <=> IsParam(obj, op'.arg)
        /\ op'.ret = "throw" => ProjectedArity(obj, op'.arg).out = 0
        /\ op'.ret = "obj" /\ NoneMistaken =>
             Meant(obj') = InWindow(Forget(obj, {op'.arg})) ]_avars

(* simplifyForPartialParallel of a relation: the variables to parallelize  *)
(* stay, inputs stay inputs and outputs outputs, the result is the         *)
(* projection on what stays, and NULL means there is no dependence.  It    *)
(* throws at most when none of the outputs is to be parallelized.          *)
SimplifyRight ==
  [][ op'.name = "simplify" /\ obj.kind = "rel" /\ Len(obj.conjs) <= 1 /\ Shallow(obj) =>
        /\ op'.arg.gone \cap op'.arg.par = {}
        /\ op'.ret = "obj" => /\ Meant(obj') = InWindow(Forget(obj, op'.arg.gone))
                              /\ obj'.in = Cardinality((0 .. obj.in - 1) \ op'.arg.gone)
        /\ op'.ret = "null" => Meant(obj) = {}
        /\ op'.ret = "throw" => op'.arg.par \cap (obj.in .. obj.in + obj.out - 1) = {} ]_avars

(* removeExpensiveConstraints loses no tuple, and removes no more          *)
(* constraints than it is given, those that bound calls aside.             *)
RemoveSound ==
  [][ Did({"remove"}) /\ Len(obj.conjs) <= 1 =>
        /\ MappedMeant(ufcmap, obj) \subseteq MappedMeant(ufcmap, obj')
        /\ \A i \in DOMAIN obj.conjs, j \in DOMAIN obj'.conjs :
             Cardinality(Constraints(obj.conjs[i]) \ (Constraints(obj'.conjs[j]) \cup Ignored))
               <= op'.arg ]_avars

(* "if tvar is argument some UFCall, then we cannot project it out and     *)
(* functions returns NULL", at every depth.                                *)
NullForEveryParam ==
  [][ op'.name = "project" /\ IsParam(obj, op'.arg) => op'.ret = "null" ]_avars

(* "Projects out tuple var No. tvar, if it is not an argument to a         *)
(* UFCall", the last output of a relation too.                             *)
ProjectsEveryOther ==
  [][ op'.name = "project" /\ ~ IsParam(obj, op'.arg) => op'.ret = "obj" ]_avars
=============================================================================
