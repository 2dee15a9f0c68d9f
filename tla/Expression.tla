---------------------------- MODULE Expression ----------------------------
(***************************************************************************)
(* src/set_relation/expression.cc: the order of terms and the operations   *)
(* that go into the arguments of calls, on top of those of TermLists.      *)
(* Each is written as the step it takes at one level of an expression;     *)
(* what it does to the arguments of calls is the operation itself, a       *)
(* parameter here, which module Recursion defines by the step.             *)
(*                                                                         *)
(* Names are numbers, ordered as strings are, and argument lists, which    *)
(* the code compares as strings, are ordered term by term: any total order *)
(* that tells different lists apart will do.  Tuple expressions            *)
(* (TupleExpTerm) are left out.                                            *)
(***************************************************************************)
EXTENDS TermLists

CONSTANTS
  InverseOf,        \* InverseOf[f] is queryInverseCurrEnv(f); NoName if none
  NoName,           \* the empty function name
  Meaning(_, _, _)  \* Meaning(k, H, vs): the value of a symbol H, or of a
                    \* call H, its arguments taken out, on the arguments
                    \* vs, under interpretation k

CONSTANTS           \* the operations on the arguments of calls, and TermLess
  Parts(_), Substitute(_, _), RemapTupleVars(_, _), Collapse(_),
  CollapseThrows(_), Value(_, _, _)
-----------------------------------------------------------------------------
(* Term::operator< and its overrides: by type, name or location, index,    *)
(* arguments, and last by coefficient.  Lists are compared at the first    *)
(* position where they differ; a prefix is less.                           *)
LexLess(s, t) ==
  \E n \in 0 .. Len(t) - 1 : /\ n <= Len(s) /\ \A i \in 1 .. n : s[i] = t[i]
                             /\ n < Len(s) => TermLess(s[n + 1], t[n + 1])
ArgsLess(s, t) ==
  \E n \in 0 .. Len(t) - 1 : /\ n <= Len(s) /\ \A i \in 1 .. n : s[i] = t[i]
                             /\ n < Len(s) => LexLess(s[n + 1], t[n + 1])
TermLessStep(t, u) ==
  LET F == t.fac  G == u.fac
  IN  \/ F.type < G.type
      \/ F.type = G.type /\ F.id < G.id
      \/ F.type = G.type /\ F.id = G.id /\ F.idx < G.idx
      \/ /\ F.type = G.type /\ F.id = G.id /\ F.idx = G.idx
         /\ \/ ArgsLess(F.args, G.args)
            \/ F.args = G.args /\ t.coef < u.coef

(* Exp::operator<: fewer terms first, then term by term.                   *)
ExpLess(d, e) == \/ Len(d) < Len(e)
                 \/ Len(d) = Len(e) /\ LexLess(d, e)

(* Exp::operator==: neither is less.                                       *)
ExpEqual(d, e) == ~ ExpLess(d, e) /\ ~ ExpLess(e, d)
-----------------------------------------------------------------------------
(* The argument lists of the calls in e, and e with the expressions in     *)
(* them, at any depth.                                                     *)
ArgsIn(e) == UNION {Range(e[i].fac.args) : i \in DOMAIN e}
PartsStep(e) == {e} \cup UNION {Parts(x) : x \in ArgsIn(e)}

(* Mutated form: in the arguments of the outermost calls only.             *)
DependsOn_Outermost(e, F) ==
  \E x \in {e} \cup ArgsIn(e) : \E i \in DOMAIN x : FactorMatches(x[i].fac, F)

(* Exp::dependsOn: the factor occurs, in an argument at any depth too.     *)
DependsOn(e, F) == \E x \in Parts(e) : \E i \in DOMAIN x : FactorMatches(x[i].fac, F)

(* The second half of invertFuncToExposeFactor: e = 0 solved for the call  *)
(* ufc and inverted, relevant_arg - inv(...); the last argument that       *)
(* depends on F is the relevant one.                                       *)
InvertCall(rest, ufc, F, inverseFuncName) ==
  LET nargs == Len(ufc.fac.args)
      arg == Max({a \in 1 .. nargs : DependsOn(ufc.fac.args[a], F)})
      invCall(x) == Term(-1, Factor(UFCall, inverseFuncName,
                                    IF nargs = 1 THEN -1 ELSE arg - 1, <<x>>))
  IN  IF IsDivisible(rest, ufc.coef)
        THEN Solution(AddExp(<<invCall(DivideBy(rest, -ufc.coef))>>, ufc.fac.args[arg]))
        ELSE Throw

(* Exp::invertFuncToExposeFactor, for a tuple variable F.  The name of the *)
(* inverse is the one looked up last, for the last call that depends on F. *)
InvertFuncToExposeFactor(e, F) ==
  LET calls == {i \in DOMAIN e : e[i].fac.type = UFCall /\ DependsOn(<<e[i]>>, F)}
      found == {i \in calls : InverseOf[e[i].fac.id] # NoName}
      invert(ufc) == InvertCall(AddTerm(e, [ufc EXCEPT !.coef = -@]), ufc, F,
                                InverseOf[e[Max(calls)].fac.id])
  IN  CASE found = {} -> Null
        [] Cardinality(found) > 1 -> Throw
        [] OTHER -> invert(e[Min(found)])

(* The end of solveForFactor when the factor had to be exposed.            *)
SolveExposed(e, F, x) ==
  IF x.ret = "exp" THEN Isolate(e, F, x.exp, FindMatchingFactor(x.exp, F)) ELSE x

(* Exp::solveForFactor.                                                    *)
SolveForFactor(e, F) ==
  LET direct == FindMatchingFactor(e, F)
  IN  IF direct # 0 THEN Isolate(e, F, e, direct)
      ELSE SolveExposed(e, F, InvertFuncToExposeFactor(e, F))
-----------------------------------------------------------------------------
(* Mutated form: not in the arguments of calls.                            *)
SubstituteStep_Shallow(e, sub) ==
  LET with(t) == IF \E F \in DOMAIN sub : FactorMatches(t.fac, F)
                   THEN MultiplyBy(sub[t.fac], t.coef) ELSE <<t>>
  IN  Rebuild([i \in DOMAIN e |-> with(e[i])])

(* Exp::substitute: sub maps factors to expressions.  Terms are taken out  *)
(* one by one and added to a new list.                                     *)
SubstituteStep(e, sub) ==
  LET keys(t) == {F \in DOMAIN sub : FactorMatches(t.fac, F)}
      with(t) == IF keys(t) # {}
                   THEN MultiplyBy(sub[CHOOSE F \in keys(t) : TRUE], t.coef)
                   ELSE <<[t EXCEPT !.fac.args =
                            [a \in DOMAIN @ |-> Substitute(@[a], sub)]]>>
  IN  Rebuild([i \in DOMAIN e |-> with(e[i])])

(* Exp::remapTupleVars: locations change in place, the list is not sorted  *)
(* again.  locs[l + 1] is the new location of l.                           *)
RemapStep(e, locs) ==
  [i \in DOMAIN e |->
     IF e[i].fac.type = TupleVar
       THEN [e[i] EXCEPT !.fac.id = locs[@ + 1]]
       ELSE [e[i] EXCEPT !.fac.args = [a \in DOMAIN @ |-> RemapTupleVars(@[a], locs)]]]

(* The one factor of each argument of a call.                              *)
InnerCalls(F) == [a \in DOMAIN F.args |-> F.args[a][1].fac]

(* Mutated form: any one-argument call of a call.                          *)
Collapses_AnyCall(F) ==
  /\ F.type = UFCall /\ F.args # <<>>
  /\ \A a \in DOMAIN F.args : Len(F.args[a]) = 1 /\ InnerCalls(F)[a].type = UFCall

(* Argument a of the call F is one call of F's inverse, the first for the  *)
(* first component and so on; and on the same x as the first argument is.  *)
Inverts(F, a) ==
  LET G == InnerCalls(F)[a]
  IN  Len(F.args[a]) = 1 /\ G.type = UFCall /\ G.id = InverseOf[F.id] /\ TupleIndex(G) = a - 1
SameArg(F, a) == ExpEqual(InnerCalls(F)[a].args[1], InnerCalls(F)[1].args[1])

(* A call f(f_inv(x)).                                                     *)
Collapses(F) ==
  /\ F.type = UFCall /\ F.args # <<>>
  /\ \A a \in DOMAIN F.args : Inverts(F, a) /\ SameArg(F, a)

(* The scan of the arguments meets a call of the inverse that takes        *)
(* several: the code throws.                                               *)
InverseTakesSeveral(F) ==
  LET single(a) == Len(InnerCalls(F)[a].args) = 1
  IN  F.type = UFCall /\ \E a \in DOMAIN F.args :
        /\ Inverts(F, a) /\ ~ single(a)
        /\ \A b \in 1 .. a - 1 : Inverts(F, b) /\ single(b) /\ SameArg(F, b)

(* Exp::collapseNestedInvertibleFunctions: f(f_inv(x)) becomes x; every    *)
(* list is built again by addTerm.                                         *)
CollapseStep(e) ==
  LET term(t) == IF Collapses(t.fac)
                   THEN MultiplyBy(Collapse(InnerCalls(t.fac)[1].args[1]), t.coef)
                   ELSE <<[t EXCEPT !.fac.args = [a \in DOMAIN @ |-> Collapse(@[a])]]>>
  IN  Rebuild([i \in DOMAIN e |-> term(e[i])])
CollapseThrowsStep(e) ==
  \E i \in DOMAIN e :
    LET F == e[i].fac
    IN  \/ InverseTakesSeveral(F)
        \/ Collapses(F) /\ CollapseThrows(InnerCalls(F)[1].args[1])
        \/ ~ Collapses(F) /\ \E a \in DOMAIN F.args : CollapseThrows(F.args[a])
-----------------------------------------------------------------------------
(* The value of an expression at the tuple p under interpretation k: what  *)
(* the operations above are checked against.                               *)
Bare(F) == [F EXCEPT !.args = <<>>]
FactorValue(F, k, p) ==
  CASE F.type = TupleVar -> p[F.id + 1]
    [] F.type = ConstVal -> 1
    [] OTHER -> Meaning(k, Bare(F), [a \in DOMAIN F.args |-> Value(F.args[a], k, p)])
ValueStep(e, k, p) ==
  Total([i \in DOMAIN e |-> e[i].coef * FactorValue(e[i].fac, k, p)], Len(e))
=============================================================================
