---------------------------- MODULE Environment ----------------------------
(***************************************************************************)
(* src/set_relation/environment.cc: the global table of uninterpreted      *)
(* functions (currentEnv).  funcs is mUninterpFuncMap, inverse is          *)
(* mInverseMap, rules is uniQuantRules.  Entries are only ever inserted    *)
(* one by one, and append throws from the middle of its work.              *)
(*                                                                         *)
(* A name is anything; InvName[f] is f with "_inv" appended, which may     *)
(* also be the name of a function a client declares.  Domains and ranges   *)
(* are identified by values, of which the code looks at the arity only.    *)
(***************************************************************************)
EXTENDS Integers, Sequences

CONSTANTS
  Names,       \* function names
  Declarable,  \* the names clients declare
  Decls,       \* the declarations clients make
  InvName,     \* name + "_inv"
  NoName,      \* "", what funcInverse returns when there is none
  Sets,        \* the domains and ranges
  Arity,       \* their arities
  UserRules,   \* the rules clients add themselves
  Points,      \* the integers over which rules are interpreted
  MaxRules     \* bound: rules in the environment

(* Appending a suffix never gives the name back.                           *)
ASSUME NamesAssumption ==
  /\ Declarable \subseteq Names /\ NoName \notin Names
  /\ InvName \in [Declarable -> Names]
  /\ \A f \in Declarable : InvName[f] # f
ASSUME SetsAssumption == Arity \in [Sets -> Nat] /\ NoName \notin Sets
ASSUME PointsAssumption == Points \subseteq Int /\ MaxRules \in Nat

(* MonotonicType.                                                          *)
MonotonicType == {"NONE", "Nondecreasing", "Increasing", "Nonincreasing", "Decreasing"}

(* A declaration as clients make it, and an UninterpFunc.                  *)
Decl == [name : Declarable, dom : Sets, rng : Sets, bij : BOOLEAN, mono : MonotonicType]
Func == [dom : Sets, rng : Sets, bij : BOOLEAN, mono : MonotonicType]
ASSUME DeclsAssumption == Decls \subseteq Decl
NoFunc == [dom |-> NoName, rng |-> NoName, bij |-> FALSE, mono |-> "NONE"]

(* A rule: forall e1, e2, lhs => rhs, each side a comparison of e1 with e2 *)
(* ("e") or of f(e1) with f(e2) ("f").                                     *)
Comparison == [of : {"e", "f", "user"}, by : {"<", "<=", ">", ">="}]
Rule == [func : Names, lhs : Comparison, rhs : Comparison]
ASSUME UserRulesAssumption ==
  \A r \in UserRules : r \in Rule /\ r.lhs.of = "user"

VARIABLES
  funcs, inverse, rules,
  failed,   \* history: an append threw since the last reset
  stale     \* history: a reset left rules behind

vars == <<funcs, inverse, rules, failed, stale>>

Declared(n) == funcs[n] # NoFunc

Init == /\ funcs = [n \in Names |-> NoFunc]
        /\ inverse = [n \in Names |-> NoName]
        /\ rules = <<>>
        /\ failed = FALSE /\ stale = FALSE
-----------------------------------------------------------------------------
(* The rules appendCurrEnv adds for a function of one argument.            *)
Compare(of, by) == [of |-> of, by |-> by]
RuleOf(f, l, r) == [func |-> f, lhs |-> l, rhs |-> r]
E(by) == Compare("e", by)
F(by) == Compare("f", by)

(* Mutated form: f is taken to be strict when it is not.                   *)
MonoRules_Strict(f, mono) ==
  CASE mono \in {"Increasing", "Nondecreasing"} -> <<RuleOf(f, E("<"), F("<"))>>
    [] mono \in {"Decreasing", "Nonincreasing"} -> <<RuleOf(f, E("<"), F(">"))>>
    [] mono = "NONE" -> <<>>

MonoRules(f, mono) ==
  CASE mono = "Increasing" -> <<RuleOf(f, E("<"), F("<")), RuleOf(f, F("<"), E("<"))>>
    [] mono = "Nondecreasing" -> <<RuleOf(f, E("<"), F("<="))>>
    [] mono = "Decreasing" -> <<RuleOf(f, E("<"), F(">")), RuleOf(f, F("<"), E(">"))>>
    [] mono = "Nonincreasing" -> <<RuleOf(f, E("<"), F(">="))>>
    [] mono = "NONE" -> <<>>

(* The UninterpFunc of a declaration, and the one the constructor of       *)
(* Environment makes for its inverse.                                      *)
FuncOf(d) == [dom |-> d.dom, rng |-> d.rng, bij |-> d.bij, mono |-> d.mono]

(* Mutated forms: the monotonicity is not set; the sets are not swapped.   *)
InverseFuncOf_MonoUnset(d) == [dom |-> d.rng, rng |-> d.dom, bij |-> TRUE, mono |-> NoName]
InverseFuncOf_SameSets(d) == [dom |-> d.dom, rng |-> d.rng, bij |-> TRUE, mono |-> "NONE"]

InverseFuncOf(d) == [dom |-> d.rng, rng |-> d.dom, bij |-> TRUE, mono |-> "NONE"]

(* Mutated form: f_inv does not name f.                                    *)
InsertInverse_OneWay(inv, d) ==
  [n \in Names |-> IF inv[n] = NoName /\ d.bij /\ n = d.name
                   THEN InvName[d.name] ELSE inv[n]]

(* mInverseMap.insert, which keeps the entries there are: the first thing  *)
(* append does.                                                            *)
InsertInverse(inv, d) ==
  [n \in Names |-> IF inv[n] # NoName \/ ~ d.bij THEN inv[n]
                   ELSE IF n = d.name THEN InvName[d.name]
                   ELSE IF n = InvName[d.name] THEN d.name ELSE NoName]

(* The function and, if it is bijective, its inverse are added.            *)
InsertFuncs(fs, d) ==
  [n \in Names |-> IF n = d.name THEN FuncOf(d)
                   ELSE IF d.bij /\ n = InvName[d.name] THEN InverseFuncOf(d) ELSE fs[n]]

(* append adopts and deletes the new environment, and with it the domain   *)
(* and range whose arity appendCurrEnv then reads: the read sees the arity *)
(* or what the allocator has put there, which is not 1.                    *)
AddMonoRules(d) ==
  /\ Len(rules) + 2 <= MaxRules
  /\ \/ Arity[d.dom] = 1 /\ Arity[d.rng] = 1 /\ rules' = rules \o MonoRules(d.name, d.mono)
     \/ rules' = rules

(* appendCurrEnv of a new function ...                                     *)
AppendNew(d) ==
  /\ ~ Declared(d.name)
  /\ d.bij => ~ Declared(InvName[d.name])
  /\ inverse' = InsertInverse(inverse, d)
  /\ funcs' = InsertFuncs(funcs, d)
  /\ AddMonoRules(d)
  /\ UNCHANGED <<failed, stale>>

(* ... which throws at the function itself if it is declared already ...   *)
AppendDuplicate(d) ==
  /\ Declared(d.name)
  /\ inverse' = InsertInverse(inverse, d)
  /\ failed' = TRUE
  /\ UNCHANGED <<funcs, rules, stale>>

(* ... or, after adding it, at its inverse ("f" sorts before "f_inv").     *)
AppendInverseTaken(d) ==
  /\ ~ Declared(d.name) /\ d.bij /\ Declared(InvName[d.name])
  /\ inverse' = InsertInverse(inverse, d)
  /\ funcs' = [funcs EXCEPT ![d.name] = FuncOf(d)]
  /\ failed' = TRUE
  /\ UNCHANGED <<rules, stale>>

NoFuncs == [n \in Names |-> NoFunc]
NoInverses == [n \in Names |-> NoName]

(* Environment::reset keeps the rules.  setCurrEnv() is only that ...      *)
Reset ==
  /\ funcs' = NoFuncs /\ inverse' = NoInverses
  /\ failed' = FALSE
  /\ stale' = (stale \/ rules # <<>>)
  /\ UNCHANGED rules

(* ... and setCurrEnv(funcName, ...) appends a function after it.          *)
SetCurrEnv(d) ==
  /\ inverse' = InsertInverse(NoInverses, d)
  /\ funcs' = InsertFuncs(NoFuncs, d)
  /\ AddMonoRules(d)
  /\ failed' = FALSE
  /\ stale' = (stale \/ rules # <<>>)

(* addUniQuantRule.                                                        *)
AddRule(r) ==
  /\ Len(rules) < MaxRules
  /\ rules' = Append(rules, r)
  /\ UNCHANGED <<funcs, inverse, failed, stale>>

Next == \/ \E d \in Decls : AppendNew(d) \/ AppendDuplicate(d)
                          \/ AppendInverseTaken(d) \/ SetCurrEnv(d)
        \/ Reset
        \/ \E r \in UserRules : AddRule(r)

Spec == Init /\ [][Next]_vars
-----------------------------------------------------------------------------
(* Type invariant.                                                         *)
TypeOK == /\ funcs \in [Names -> Func \cup {NoFunc}]
          /\ inverse \in [Names -> Names \cup {NoName}]
          /\ rules \in Seq(Rule)
          /\ failed \in BOOLEAN /\ stale \in BOOLEAN

(* As long as no append has thrown, the inverse map is what Exp uses it    *)
(* for: f and its inverse name each other, both are declared and bijective *)
(* and the domain of one is the range of the other.                        *)
InversePair(f, g) == /\ inverse[g] = f /\ f # g
                     /\ Declared(f) /\ Declared(g)
                     /\ funcs[f].bij /\ funcs[g].bij
                     /\ funcs[f].dom = funcs[g].rng /\ funcs[f].rng = funcs[g].dom
InverseConsistent ==
  ~ failed => \A f \in Names : inverse[f] # NoName => InversePair(f, inverse[f])

(* ... and no bijective function is without an inverse.                    *)
BijectiveHasInverse == \A f \in Names : Declared(f) /\ funcs[f].bij => inverse[f] # NoName

(* A comparison holds of the points a and b of the table T.                *)
Relates(by, x, y) == \/ by = "<" /\ x < y
                     \/ by = "<=" /\ x <= y
                     \/ by = ">" /\ x > y
                     \/ by = ">=" /\ x >= y
Holds(c, T, a, b) == IF c.of = "e" THEN Relates(c.by, a, b) ELSE Relates(c.by, T[a], T[b])

(* The functions over Points with a declared monotonicity.                 *)
IsMonotonic(T, mono) ==
  \A a, b \in Points : a < b =>
    /\ mono = "Nondecreasing" => T[a] <= T[b]
    /\ mono = "Increasing" => T[a] < T[b]
    /\ mono = "Nonincreasing" => T[a] >= T[b]
    /\ mono = "Decreasing" => T[a] > T[b]

(* The rule follows from what is declared of its function now.             *)
RuleSound(r) ==
  r.lhs.of # "user" =>
    \A T \in [Points -> Points] : IsMonotonic(T, funcs[r.func].mono) =>
      \A a, b \in Points : Holds(r.lhs, T, a, b) => Holds(r.rhs, T, a, b)

(* detectUnsatOrFindEqualities instantiates every rule: as long as no      *)
(* reset left rules behind, each is true of every function with the        *)
(* monotonicity declared for it, whatever appends failed in between.       *)
RulesSound == ~ stale => \A i \in DOMAIN rules : RuleSound(rules[i])

(* "Reset the Environment to empty": so no rule is of an earlier life of   *)
(* its function, and the rules are sound after a reset too.                *)
RulesAlwaysSound == \A i \in DOMAIN rules : RuleSound(rules[i])
=============================================================================
