---------------------------- MODULE Conjunction ----------------------------
(***************************************************************************)
(* class Conjunction of src/set_relation/set_relation.cc: the operations   *)
(* of ConstraintLists on lists of Expression's expressions, and those that *)
(* look into the expressions.                                              *)
(***************************************************************************)
EXTENDS Expression

INSTANCE ConstraintLists
-----------------------------------------------------------------------------
(* Conjunction::cleanUp: collapse and re-sort every constraint, drop the   *)
(* zero ones and the duplicates.  Inverses take one argument here, so that *)
(* no collapse throws.                                                     *)
CollapseAll(es) == [i \in DOMAIN es |-> Collapse(es[i])]
CleanUp(c) ==
  LET eqs == [i \in DOMAIN c.eqs |-> NormalizeForEquality(c.eqs[i])]
  IN  AddInequalities(AddEqualities([c EXCEPT !.eqs = <<>>, !.ineqs = <<>>],
                                    CollapseAll(eqs)),
                      CollapseAll(c.ineqs))

(* Mutated form: the inequalities are forgotten.                           *)
SubstituteInConstraints_Equalities(c, sub) ==
  CleanUp([c EXCEPT !.eqs = [i \in DOMAIN @ |-> Substitute(@[i], sub)]])

(* Conjunction::substituteInConstraints, which ends in cleanUp.            *)
SubstituteInConstraints(c, sub) ==
  CleanUp([c EXCEPT !.eqs = [i \in DOMAIN @ |-> Substitute(@[i], sub)],
                    !.ineqs = [i \in DOMAIN @ |-> Substitute(@[i], sub)]])

(* Conjunction::satisfiable: only equalities such as 2 = 0 are noticed.    *)
Satisfiable(c) == \A i \in DOMAIN c.eqs : ~ IsContradiction(c.eqs[i])
-----------------------------------------------------------------------------
(* Conjunction::findFunction: the first equality that solves for loc in    *)
(* terms of the locations in range only.  A throw of solveForFactor in an  *)
(* equality tried before it propagates.                                    *)
FirstUsable(sol, others) ==
  LET stops == {i \in DOMAIN sol :
                  \/ sol[i].ret = "throw"
                  \/ /\ sol[i].ret = "exp"
                     /\ \A l \in others : ~ DependsOn(sol[i].exp, Tv(l))}
  IN  IF stops = {} THEN Null ELSE sol[Min(stops)]
FindFunction(c, loc, range) ==
  IF c.decl[loc + 1].isConst
    THEN Solution(MkExp(<<Term(c.decl[loc + 1].val, One)>>))
    ELSE FirstUsable([i \in DOMAIN c.eqs |-> SolveForFactor(c.eqs[i], Tv(loc))],
                     (0 .. ArityOf(c) - 1) \ range)
FindFunctions(c, locs, range) == [l \in locs |-> FindFunction(c, l, range)]

(* isFunction and isFunctionInverse: a function is found for every         *)
(* location; "throw" if the search for one throws before one is missed.    *)
AllFound(found) ==
  LET fails == {l \in DOMAIN found : found[l].ret # "exp"}
  IN  IF fails = {} THEN "yes"
      ELSE IF found[Min(fails)].ret = "throw" THEN "throw" ELSE "no"

IsFunction(c, inArity) ==
  AllFound(FindFunctions(c, inArity .. ArityOf(c) - 1, 0 .. inArity - 1))
IsFunctionInverse(c, inArity) ==
  AllFound(FindFunctions(c, 0 .. inArity - 1, inArity .. ArityOf(c) - 1))

(* Conjunction::pushConstToConstraints: [3] becomes [x] with x - 3 = 0.    *)
PushConstToConstraints(c) ==
  LET consts == SetToSortSeq({l \in DOMAIN c.decl : c.decl[l].isConst}, <)
  IN  AddEqualities([c EXCEPT !.decl = VarDecl(Len(@))],
        [i \in DOMAIN consts |->
           MkExp(<<Term(1, Tv(consts[i] - 1)), Term(-c.decl[consts[i]].val, One)>>)])

(* Conjunction::remapTupleVars, locs a permutation of the locations or an  *)
(* injection into more of them; gaps are declared as variables.            *)
RemapConj(c, locs) ==
  LET size == Max({locs[i] + 1 : i \in DOMAIN locs} \cup {0})
      from(l) == {i \in DOMAIN locs : locs[i] = l - 1}
  IN  [c EXCEPT !.eqs = [i \in DOMAIN @ |-> NormalizeForEquality(RemapTupleVars(@[i], locs))],
                !.ineqs = [i \in DOMAIN @ |-> RemapTupleVars(@[i], locs)],
                !.decl = [l \in 1 .. size |-> IF from(l) = {} THEN Var
                                              ELSE @[CHOOSE i \in from(l) : TRUE]]]
-----------------------------------------------------------------------------
(* What Compose and Apply of two conjunctions return.                      *)
Done(c) == [ret |-> "conj", conj |-> c]
Thrown == [ret |-> "throw", conj |-> TRUEConj(0, 0)]

(* Conjunction::pushConstConstraintsToTupleDecl, sol[i][l] the solution of *)
(* equality i for location l: an equality that solves to a constant moves  *)
(* into the declaration; the last one for a location wins, and all of them *)
(* are removed.                                                            *)
PushSolved(c, sol) ==
  LET isConst(s) == /\ s.ret = "exp"
                    /\ \/ EqualsZero(s.exp)
                       \/ Len(s.exp) = 1 /\ s.exp[1].fac.type = ConstVal
      value(s) == IF EqualsZero(s.exp) THEN 0 ELSE s.exp[1].coef
      defs(l) == {i \in DOMAIN sol : l \in DOMAIN sol[i] /\ isConst(sol[i][l])}
      pushed == {c.eqs[i] : i \in {j \in DOMAIN sol :
                                     \E l \in DOMAIN sol[j] : isConst(sol[j][l])}}
  IN  IF \E i \in DOMAIN sol : \E l \in DOMAIN sol[i] : sol[i][l].ret = "throw"
        THEN Thrown
        ELSE Done([c EXCEPT !.decl = [l \in DOMAIN @ |-> IF defs(l) = {} THEN @[l]
                                        ELSE Const(value(sol[Max(defs(l))][l]))],
                            !.eqs = SelectSeq(@, LAMBDA e : e \notin pushed)])
PushConstConstraintsToTupleDecl(c) ==
  PushSolved(c, [i \in DOMAIN c.eqs |->
    [l \in {k \in DOMAIN c.decl : ~ c.decl[k].isConst} |-> SolveForFactor(c.eqs[i], Tv(l - 1))]])

(* The end of both: substitute, for each inner location, the function      *)
(* found for it (a location for which none is found keeps its terms), cut  *)
(* the declaration to n elements, and move constants into it.              *)
Eliminate(c, found, n) ==
  LET keys == {Tv(l) : l \in {k \in DOMAIN found : found[k].ret = "exp"}}
      sub == [K \in keys |-> found[K.id].exp]
  IN  IF \E l \in DOMAIN found : found[l].ret = "throw" THEN Thrown
      ELSE PushConstConstraintsToTupleDecl(
             [SubstituteInConstraints(c, sub) EXCEPT !.decl = VarDecl(n)])

(* Conjunction::Compose, c after d.  The result is laid out x, z, v with   *)
(* x d's inputs, z c's outputs, and v the tuple in between.                *)
ComposeLayout(c, d, in, out, inner) ==
  LET lhs == RemapConj(PushConstToConstraints(c),
               [i \in DOMAIN c.decl |-> IF i <= inner THEN i - 1 + in + out
                                                     ELSE i - 1 - inner + in])
      rhs == RemapConj(PushConstToConstraints(d),
               [i \in DOMAIN d.decl |-> IF i <= in THEN i - 1 ELSE i - 1 + out])
  IN  CopyConstraintsFrom(CopyConstraintsFrom(TRUEConj(in + out + inner, in), rhs), lhs)

(* kinds: whether c and d are functions, and function inverses.            *)
ComposeBy(kinds, both, in, out, inner) ==
  LET functions == kinds[1] = "yes" /\ kinds[2] = "yes"
      inverses == kinds[3] = "yes" /\ kinds[4] = "yes"
      v == in + out .. in + out + inner - 1
      range == IF functions THEN 0 .. in - 1 ELSE in .. in + out - 1
  IN  IF (\E i \in 1 .. 4 : kinds[i] = "throw") \/ ~ (functions \/ inverses) THEN Thrown
      ELSE Eliminate(both, FindFunctions(both, v, range), in + out)

ComposeConj(c, d, inner) ==
  LET out == ArityOf(c) - inner
      in == ArityOf(d) - inner
  IN  ComposeBy(<< IsFunction(c, inner), IsFunction(d, in),
                   IsFunctionInverse(c, inner), IsFunctionInverse(d, in) >>,
                ComposeLayout(c, d, in, out, inner), in, out, inner)

(* Conjunction::Apply of the relation c to the set d.  The result is laid  *)
(* out y, x with y c's outputs and x its inputs.                           *)
ApplyLayout(c, d, in, out) ==
  LET lhs == RemapConj(PushConstToConstraints(c),
               [i \in DOMAIN c.decl |-> IF i <= in THEN i - 1 + out ELSE i - 1 - in])
      rhs == RemapConj(PushConstToConstraints(d), [i \in 1 .. in |-> i - 1 + out])
  IN  [CopyConstraintsFrom(lhs, rhs) EXCEPT !.inArity = 0]

ApplyBy(both, in, out) ==
  Eliminate(both, FindFunctions(both, out .. out + in - 1, 0 .. out - 1), out)

ApplyConj(c, d) ==
  IF IsFunctionInverse(c, ArityOf(d)) # "yes" THEN Thrown
  ELSE ApplyBy(ApplyLayout(c, d, ArityOf(d), ArityOf(c) - ArityOf(d)),
               ArityOf(d), ArityOf(c) - ArityOf(d))

(* Mutated form: the variables keep their locations.                       *)
InverseConj_NoRemap(c) == [c EXCEPT !.inArity = ArityOf(c) - @]

(* Conjunction::Inverse.                                                   *)
InverseConj(c) ==
  LET out == ArityOf(c) - c.inArity
  IN  [RemapConj(c, [i \in DOMAIN c.decl |-> IF i <= c.inArity THEN i - 1 + out
                                                             ELSE i - 1 - c.inArity])
        EXCEPT !.inArity = out]
=============================================================================
