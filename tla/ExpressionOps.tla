--------------------------- MODULE ExpressionOps ---------------------------
(***************************************************************************)
(* One Exp object and the calls its clients make on it, in any order: what *)
(* the parser (addTerm), Conjunction (remapTupleVars, substitute, cleanUp) *)
(* and the composition operations (solveForFactor) do to an expression.    *)
(***************************************************************************)
EXTENDS Expression

CONSTANTS
  Terms,      \* the terms a client adds
  Subs,       \* the substitutions a client makes: functions factor -> Exp
  Remaps,     \* the location vectors of remapTupleVars
  Window,     \* the integers a tuple variable ranges over in the checks
  Arity,      \* the number of tuple variables
  NumArgs,    \* NumArgs[f]: the number of arguments of the function f
  Indexed,    \* the functions that return tuples, whose calls are indexed
  Interps,    \* the interpretations of symbols and functions
  MaxLen,     \* bound: terms in the list
  MaxCoef,    \* bound: absolute value of a coefficient
  MaxOps,     \* bound: calls in a session
  MaxDepth    \* bound: nesting of calls in what a client passes

VARIABLES
  exp,      \* mTerms
  op,       \* history: the last call and its argument
  ops       \* history: number of calls made

vars == <<exp, op, ops>>

Points == [1 .. Arity -> Window]
-----------------------------------------------------------------------------
(* The factors and expressions that the parser and the calls below build:  *)
(* a location is one of the tuple's, only calls have arguments, as many as *)
(* their function takes, and only calls of functions that return tuples    *)
(* are indexed.                                                            *)
WellFormed(F) ==
  /\ F.type = TupleVar => F.id \in 0 .. Arity - 1
  /\ F.type = UFCall => F.id \in DOMAIN NumArgs
  /\ Len(F.args) = IF F.type = UFCall THEN NumArgs[F.id] ELSE 0
  /\ IF F.type = UFCall /\ F.id \in Indexed THEN F.idx >= 0 ELSE F.idx = -1
FactorsOver(Args) ==
  {F \in [type : TupleVar .. ConstVal, id : Int, idx : Int, args : Seq(Args)] : WellFormed(F)}

(* Nested[n]: no coefficient is zero and calls are nested less than n deep.*)
Nested[n \in Nat] ==
  IF n = 0 THEN {} ELSE Seq([coef : Int \ {0}, fac : FactorsOver(Nested[n - 1])])

(* No zero coefficient, no factor twice, and the terms in Term order, at   *)
(* every depth: what Exp::operator== and the scan of addTerm rely on.      *)
Canonical(e) == \A x \in Parts(e) : CanonicalList(x)

(* What clients pass is well formed, and is built by the parser: calls     *)
(* have arguments, terms have canonical ones, substitutes for tuple        *)
(* variables are canonical.  remapTupleVars throws, and changes nothing,   *)
(* when two locations become one.                                          *)
ASSUME ClientAssumption ==
  /\ Arity \in Nat /\ MaxOps \in Nat /\ MaxDepth \in Nat /\ Window \subseteq Int
  /\ \A g \in DOMAIN NumArgs : NumArgs[g] \in Nat \ {0}
  /\ \A t \in Terms : /\ t \in [coef : Int, fac : FactorsOver(Nested[MaxDepth])]
                      /\ \A x \in Range(t.fac.args) : Canonical(x)
  /\ \A s \in Subs : /\ DOMAIN s \subseteq {Tv(l) : l \in 0 .. Arity - 1}
                     /\ \A F \in DOMAIN s : s[F] \in Nested[MaxDepth] /\ Canonical(s[F])
  /\ Remaps \subseteq [1 .. Arity -> 0 .. Arity - 1]
  /\ \A locs \in Remaps : \A i, j \in 1 .. Arity : locs[i] = locs[j] => i = j

(* The operations are what their steps say, on the expressions es, at the  *)
(* tuples ps: what module Recursion makes of them.                         *)
Unfolds(es, ps) ==
  \A e \in es :
    /\ Parts(e) = PartsStep(e)
    /\ Collapse(e) = CollapseStep(e)
    /\ CollapseThrows(e) <=> CollapseThrowsStep(e)
    /\ \A s \in Subs : Substitute(e, s) = SubstituteStep(e, s)
    /\ \A locs \in Remaps : RemapTupleVars(e, locs) = RemapStep(e, locs)
    /\ \A k \in Interps, p \in ps : Value(e, k, p) = ValueStep(e, k, p)
    /\ \A d \in es : \A i \in DOMAIN d, j \in DOMAIN e :
         TermLess(d[i], e[j]) <=> TermLessStep(d[i], e[j])

(* Symbols and calls of integers are integers.                             *)
IntegerMeaning(Fs, vss) ==
  \A k \in Interps, F \in Fs, vs \in vss :
    F.type \in {SymConst, UFCall} /\ Len(vs) = Len(F.args) => Meaning(k, Bare(F), vs) \in Int

(* A function takes the components of its inverse, indexed from 0, back to *)
(* what the inverse, of one argument, was applied to.                      *)
InverseMeaning(Fs, vs) ==
  \A F \in Fs : F.type = UFCall /\ F.args # <<>> =>
    \A Gs \in [DOMAIN F.args -> {G \in Fs : G.type = UFCall /\ G.id = InverseOf[F.id]}] :
      (\A a \in DOMAIN Gs : TupleIndex(Gs[a]) = a - 1 /\ Len(Gs[a].args) = 1) =>
        \A k \in Interps, v \in vs :
          Meaning(k, Bare(F), [a \in DOMAIN Gs |-> Meaning(k, Bare(Gs[a]), <<v>>)]) = v

(* And the other way, for a function that returns one value: component a   *)
(* of its inverse, called as invertFuncToExposeFactor does, takes the      *)
(* value back to argument a.                                               *)
LeftInverse(vs) ==
  \A g \in {h \in DOMAIN NumArgs \ Indexed : InverseOf[h] # NoName} :
    LET inv == InverseOf[g]
        component(a) == Factor(UFCall, inv, IF NumArgs[g] = 1 THEN -1 ELSE a - 1, <<>>)
    IN  /\ inv \in DOMAIN NumArgs \cap Int /\ NumArgs[inv] = 1
        /\ inv \in Indexed <=> NumArgs[g] # 1
        /\ \A k \in Interps, v \in [1 .. NumArgs[g] -> vs], a \in 1 .. NumArgs[g] :
             Meaning(k, component(a), <<Meaning(k, Uf(g, <<>>), v)>>) = v[a]
-----------------------------------------------------------------------------
Did(name, a) == op' = [name |-> name, arg |-> a]

(* A client's call turns the list into e, if that stays within the bounds. *)
Becomes(e) == /\ ops < MaxOps /\ Len(e) <= MaxLen
              /\ \A i \in DOMAIN e : Abs(e[i].coef) <= MaxCoef
              /\ exp' = e /\ ops' = ops + 1

Init == exp = <<>> /\ op = [name |-> "new", arg |-> <<>>] /\ ops = 0

DoAddTerm(t) == Becomes(AddTerm(exp, t)) /\ Did("addTerm", t)
DoSubstitute(s) == Becomes(Substitute(exp, s)) /\ Did("substitute", s)
DoRemap(locs) == Becomes(RemapTupleVars(exp, locs)) /\ Did("remap", locs)
DoCollapse == ~ CollapseThrows(exp) /\ Becomes(Collapse(exp)) /\ Did("collapse", <<>>)
DoNegate == Becomes(MultiplyBy(exp, -1)) /\ Did("multiplyBy", -1)
DoNormalize == Becomes(NormalizeForEquality(exp)) /\ Did("normalize", <<>>)

Next == \/ \E t \in Terms : DoAddTerm(t)
        \/ \E s \in Subs : DoSubstitute(s)
        \/ \E locs \in Remaps : DoRemap(locs)
        \/ DoCollapse \/ DoNegate \/ DoNormalize

Spec == Init /\ [][Next]_vars
-----------------------------------------------------------------------------
(* Type invariant: at every depth, no coefficient is zero and the factors  *)
(* are well formed, whatever is substituted, renamed and collapsed.        *)
WellTyped(e) == \A x \in Parts(e) : \A i \in DOMAIN x : x[i].coef # 0 /\ WellFormed(x[i].fac)
TypeOK == WellTyped(exp) /\ ops \in 0 .. MaxOps

(* Whatever the calls before it, a substitution or a collapse (which is    *)
(* how Conjunction::cleanUp re-sorts after remapTupleVars) leaves the list *)
(* in canonical form, and no call but remapTupleVars takes it out of it.   *)
KeepsCanonical ==
  [][ \/ op'.name \in {"substitute", "collapse"}
      \/ Canonical(exp) /\ op'.name # "remap"
      => Canonical(exp') ]_vars

(* addTerm, even into a list remapTupleVars left unsorted, adds the term's *)
(* value; multiplyBy(-1) and normalizeForEquality keep the zeros.          *)
AddsValue ==
  [][ \A k \in Interps, p \in Points :
        /\ op'.name = "addTerm" =>
             Value(exp', k, p) = Value(exp, k, p) + Value(<<op'.arg>>, k, p)
        /\ op'.name \in {"multiplyBy", "normalize"} =>
             (Value(exp', k, p) = 0) = (Value(exp, k, p) = 0) ]_vars

(* substitute replaces every occurrence, inside calls too, simultaneously: *)
(* its value is the old one where the variables have the values of their   *)
(* substitutes.  remapTupleVars renames the same way: its value at p is    *)
(* the old one at p read through the location vector.                      *)
SubstitutesValue ==
  [][ \A k \in Interps, p \in Points :
        /\ op'.name = "substitute" =>
             Value(exp', k, p) =
             Value(exp, k, [l \in 1 .. Arity |->
               IF Tv(l - 1) \in DOMAIN op'.arg THEN Value(op'.arg[Tv(l - 1)], k, p) ELSE p[l]])
        /\ op'.name = "remap" =>
             Value(exp', k, p) = Value(exp, k, [l \in 1 .. Arity |-> p[op'.arg[l] + 1]])
    ]_vars

(* f(c f_inv(x)) with a coefficient c other than 1.                        *)
ScaledInverse(e) ==
  \E x \in Parts(e) : \E arg \in ArgsIn(x) :
    Len(arg) = 1 /\ arg[1].fac.type = UFCall /\ arg[1].coef # 1

(* "nested functions such as f(f_inv(i)) changed to i":                    *)
(* collapseNestedInvertibleFunctions keeps the value, at any depth and     *)
(* whatever else is in the expression, when the nested calls are not       *)
(* scaled.  (The code takes f(2 f_inv(x)) for x too.)                      *)
CollapseKeepsValue ==
  [][ op'.name = "collapse" /\ ~ ScaledInverse(exp) =>
        \A k \in Interps, p \in Points : Value(exp', k, p) = Value(exp, k, p) ]_vars

(* The calls around a variable, and whether the one that is inverted is    *)
(* the last of them, whose inverse's name the code takes, and returns one  *)
(* value.                                                                  *)
CallsWith(e, F) == {i \in DOMAIN e : e[i].fac.type = UFCall /\ DependsOn(<<e[i]>>, F)}
InvertsLast(e, F) ==
  LET last == e[Max(CallsWith(e, F))].fac
  IN  CallsWith(e, F) # {} /\ InverseOf[last.id] # NoName /\ last.id \notin Indexed

(* The variable is found: it is a term of the expression, or of the        *)
(* inverted one, with a coefficient that divides the others.               *)
Found(e, F) ==
  \/ FindMatchingFactor(e, F) # 0
  \/ InvertsLast(e, F) /\ FindMatchingFactor(InvertFuncToExposeFactor(e, F).exp, F) # 0

(* "returning a new expression which is equal to the given factor": so it  *)
(* is, at every zero of the expression, sorted or not, when the variable   *)
(* was found and the solution no longer mentions it (findFunction uses no  *)
(* other).  A variable that is not found, or that cancels in the inverted  *)
(* expression, gets that expression for an answer: 2x + f(f_inv(-2x) + y)  *)
(* "solved" for x is y.                                                    *)
SolveSound ==
  \A l \in 0 .. Arity - 1 :
    LET s == SolveForFactor(exp, Tv(l))
    IN  Found(exp, Tv(l)) /\ s.ret = "exp" /\ ~ DependsOn(s.exp, Tv(l)) =>
          \A k \in Interps, p \in Points :
            Value(exp, k, p) = 0 => Value(s.exp, k, p) = p[l + 1]

(* When the last of several calls around the variable has no inverse, an   *)
(* earlier one is inverted with a name that is not its inverse's.  What    *)
(* solveForFactor returns then still mentions the variable, so it is never *)
(* used.                                                                   *)
WrongInverseUnused ==
  \A l \in 0 .. Arity - 1 :
    LET s == SolveForFactor(exp, Tv(l))
        calls == CallsWith(exp, Tv(l))
    IN  /\ FindMatchingFactor(exp, Tv(l)) = 0 /\ s.ret = "exp"
        /\ calls # {} /\ InverseOf[exp[Max(calls)].fac.id] = NoName
        => DependsOn(s.exp, Tv(l))

(* solveForFactor misses no simple solution: when the list is canonical, a *)
(* variable outside every call whose coefficient divides the others is     *)
(* solved for.                                                             *)
SolveComplete ==
  \A l \in 0 .. Arity - 1 :
    LET at == {i \in DOMAIN exp : exp[i].fac = Tv(l)}
    IN  /\ Canonical(exp) /\ at # {}
        /\ IsDivisible(exp, exp[Min(at)].coef)
        /\ ~ DependsOn(RemoveAt(exp, Min(at)), Tv(l))
        => LET s == SolveForFactor(exp, Tv(l))
           IN  s.ret = "exp" /\ ~ DependsOn(s.exp, Tv(l))
=============================================================================
