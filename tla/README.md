# IEGenLib: a TLA+ verification project

IEGenLib manipulates sets and relations of integer tuples whose constraints are
affine expressions with *uninterpreted function calls*: `{[i] -> [j] : j =
f(i) && 0 <= i && i < n}`. It is a sequential C++ library. Nothing runs
concurrently; what is hard about it is that every operation works on sorted
lists that other operations leave unsorted, on a global table of functions that
changes between calls and that may be left half-updated by an exception, and
that the meaning of a result (which tuples it contains) is far from the text the
unit tests compare. The project models the core of the library in TLA+,
model-checks it against what the operations mean, and proves with TLAPS what can
be proved for every value of the parameters.

Paths are given from the root of the repository tree: `src/src/...`.

## 1. Inventory

| Component | State | Operations | Interacts with | What makes it correct |
|---|---|---|---|---|
| `UnionFindUniverse` (`util/`) | four arrays: parent, name, count, root | `Find` (recursive, compresses paths), `Union` | called by clients with names `Find` returned | sets are a partition, names identify them, `Find` returns and its recursion is shallow |
| `Term`, `Exp`, `SubMap` (`set_relation/expression.cc`) | a list of terms in term order | `addTerm`, `addExp`, `multiplyBy`, `substitute`, `remapTupleVars`, `collapseNestedInvertibleFunctions`, `normalizeForEquality`, `solveForFactor`, `invertFuncToExposeFactor` | asks the environment for inverses | the value of the expression changes as the operation says; the list is canonical where later operations rely on it; a solution solves |
| `TupleDecl` | elements, each a variable name or a constant | set, copy, compare | part of every conjunction | – |
| `Conjunction` (`set_relation.cc`) | a declaration, an input arity, sorted lists of equalities and inequalities | `addEquality`, `addInequality`, `cleanUp`, `Compose`, `Apply`, `Inverse`, `Intersect`, `Restrict`, `findFunction`, ... | built from `Exp`s | the tuples that satisfy it |
| `Set`, `Relation` (`set_relation.cc`) | a sorted list of conjunctions (a union) | `Union`, `Intersect`, `Restrict`, `Inverse`, `Compose`, `Apply`, copy | built from conjunctions | the set of tuples is the one the operation is named for |
| `Environment`, `UninterpFunc` | the function table, the inverse map, the list of quantified rules; one global instance `currentEnv` | `setCurrEnv`, `appendCurrEnv`, `addUniQuantRule`, queries | read by `Exp` (inverses), by `boundDomainRange` (domains), by rule instantiation | inverses are inverses; rules follow from the declarations |
| `UFCallMap` | two maps between calls and symbolic constants | `insert`, `find` (two) | used by `superAffineSet` and `reverseAffineSubstitution` | the maps are inverse; replacing calls by constants can be undone |
| Affine passes: `boundDomainRange`, `superAffineSet`, `reverseAffineSubstitution`, `isUFCallParam`, `projectOut`, `removeExpensiveConstraints`, `simplifyForPartialParallel` | flags that visitors keep between callbacks, a `UFCallMap` shared by several calls | traversals of one set or relation | `Environment`, `UFCallMap`, ISL | bounding and substituting lose no tuple and can be undone; a projection is the projection |
| Dependence detection: `detectUnsatOrFindEqualities`, `ruleInstantiation`, `instantiationSet` | – | passes over a relation that call ISL | rules of the environment, ISL, the affine passes | a dependence that is possible is never lost, in any order of passes |
| `setRelationship` | – | `dataDependenceRelationship` of two relations | the affine passes, ISL | what it says of two projections is true of them |
| `Computation`, `Stmt` | a vector of statements, data spaces; clients hold pointers into the vector | add, get, edit, copy, compare, `isComplete`, `clear` | `Set`, `Relation`, `std::vector` | Computations are values, copies equal their originals, pointers in use are live |
| `complexityForPartialParallel`, `reOrdTV_OmegaCodeGen`, `isl_str_manipulation` | – | string and ISL clients | ISL | – |
| Parser (bison/flex), `jsonHelper`, drivers, `iegenlib_calc` | – | input and output | – | – |

The behaviours that are hard to test, each at its line, are the `hazards` of
`PROJECT.json`.

## 2. Modules

| Module | Models | Kind |
|---|---|---|
| `Partition` | what `UnionFindUniverse.h` promises | abstract specification |
| `UnionFind` | `UnionFindUniverse.cc`, each frame of `do_FIND` a step | detailed specification, refines `Partition` |
| `UnionFind_proofs` | invariants and refinement, for every N | TLAPS |
| `TermLists` | what `expression.cc` does to the list of terms, the order of terms a parameter | pure operators |
| `Expression` | the rest of `expression.cc`: the order of terms and what looks into calls, each operation as its step at one level of an expression | pure operators, extends `TermLists` |
| `Recursion` | the same operations at every depth: each defined recursively by its step | pure operators, instantiates `Expression` |
| `ExpressionOps` | one `Exp` object and the calls on it | state machine |
| `TermLists_proofs` | `addTerm`, `addExp`, rebuilding, normalizing and solving, for lists of any length | TLAPS |
| `ExpressionOps_proofs` | the properties of `ExpressionOps`, for expressions of any length and depth | TLAPS |
| `ConstraintLists` | what `set_relation.cc` does to lists of constraints and of conjunctions, the constraints opaque | pure operators |
| `ConstraintLists_proofs` | `Union`, `Intersect`, `Restrict` and the order of the lists, for any number of constraints and conjunctions | TLAPS |
| `Conjunction` | the rest of `class Conjunction` | pure operators, `ConstraintLists` over `Expression` |
| `SetRelation` | `Set` and `Relation` and a session of calls on them | state machine, composes `Conjunction` and `Expression` |
| `Induction` | induction and recursion on the naturals, about sets and functions | TLAPS |
| `Environment` | `environment.cc` | state machine |
| `Environment_proofs` | its invariants, for all names and declarations | TLAPS |
| `UFCallMap` | `UFCallMap.cc` | state machine |
| `UFCallMap_proofs` | its invariants, for all terms | TLAPS |
| `StatementLists` | what `Computation.h` promises | abstract specification |
| `Computation` | `Computation.cc`, with the vector's buffers and the client's pointers | detailed specification, refines `StatementLists` |
| `Computation_proofs` | invariants, copies and refinement, for any objects and statements | TLAPS |
| `Isl` | ISL on affine conjunctions (external) | pure operators |
| `Affine` | the affine passes of `set_relation.cc` | state machine, extends `SetRelation` with the `UFCallMap` |
| `Dependence` | `detectUnsatOrFindEqualities`, `setRelationship.cc`, in any order with the passes of `Affine` | state machine, composes `Affine`, `Isl` and the rules |
| `MC...` | the constants of the runs | |

Operators whose names end in a suffix such as `Link_NoName` are mutated forms of
the definition they precede: plausible slips, kept to show that the properties
notice them. They are used by no specification.

### UnionFind and Partition

The variables `parent`, `name`, `count`, `root` are the fields of
`UnionFindElement`. `Find(v)` on a root is one step (`FindAtRoot`). Below a root
it is `FindCall`, then one `DoFindRecurse` per recursive call, `DoFindAtRoot`,
one `DoFindCompress` per return, and `FindReturn`; `path` is the call stack and
`cur` the argument or the result of the innermost call. So a `Find` that does
not return is a behaviour of the model. `Union` is one step. The client is the
one of the header's example: it passes `Union` names that `Find` gave it and
that no `Union` retired (`known`), and names the result with one of the two or
with a name no set has. `rep` is a history variable: the root of each element's
tree, updated by `Link` only. `MaxFrames` stands for the C stack.

`Partition` has a label per element and the two operations. The refinement maps
the label of `v` to `name[rep[v]]`; the steps of the recursion are stutters.

### TermLists, Expression and ExpressionOps

An expression is a sequence of terms, as in the code, and not a function from
factors to coefficients: where `addTerm` inserts, which term
`findMatchingFactor` returns and what `operator<` says depend on the order, and
`remapTupleVars` leaves lists that are out of order. Names are numbers in string
order; argument lists, which the code compares by their text, are compared term
by term. `solveForFactor` returns an expression, NULL or an exception.
`Value(e, k, p)` is the meaning the operations are checked against: the integer
value at a tuple p under an interpretation k of symbols and functions. It is
defined independently of the operations.

`TermLists` holds the operations that only move terms about: `addTerm`,
`addExp`, `multiplyBy`, the division and search of `solveForFactor`, and the
rebuilding of a list that `substitute` and `collapse` end in. The order of terms
is a parameter of it, and recursion over lists is a recursive function.

`Expression` has the operations that go into the arguments of calls: the order
of terms, `substitute`, `remapTupleVars`, `collapse`, what `dependsOn` looks at,
and `Value`. Each is written as a step, `SubstituteStep` for example, which says
what happens at one level and calls the operation itself, the parameter
`Substitute`, for the arguments. `Recursion` closes the circle:
`RecSubstitute(e, sub) == Level!SubstituteStep(e, sub)`, where `Level` is
`Expression` with `Substitute <- RecSubstitute`; the configurations give the
parameters these values. So nothing a theorem reaches is declared recursive,
and the theorems are about any operations that are what their steps say.

`ExpressionOps` calls the operations on one object in any order.
`solveForFactor` changes nothing and is checked in every state. A collapse that
throws (`CollapseThrows`: the inverse found inside takes several arguments)
changes nothing. `WellFormed` and `Nested` say what expressions the parser and
the calls can build, `ClientAssumption` what clients pass.

### ConstraintLists, Conjunction and SetRelation

`ConstraintLists` holds what only inserts into lists: declarations and their
order, `addEquality`, `addInequality`, `Conjunction::operator<`, `Intersect` and
`Restrict` of conjunctions, `addConjunction`, and `Union`, `Intersect` and
`Restrict` of sets and relations with their loops over conjunctions. The order
of expressions, the test for zero and `normalizeForEquality` are its parameters;
`Conjunction` instantiates it with those of `Expression`.

A conjunction is a record of declaration, input arity, equalities and
inequalities. The operators follow the code's steps: `ComposeConj` checks both
relations for being functions or function inverses, pushes constants into
constraints, shifts both operands to one layout, appends (without sorting) the
constraints, finds the function of each inner variable in the merged list,
substitutes, cleans up, truncates the declaration and pushes constants back. A
failing search leaves the inner variable in place, as the NULL in the code's
`SubMap` does.

A `SetRelation` session starts with an object of the library `Starts` and makes
up to `MaxOps` calls with operands of `Operands`. An exception leaves the object
as it was. The properties compare `Meant(obj')`, the set of
(interpretation, tuple) pairs over a window of integers, with the mathematical
operation on the operands' meanings.

### Environment

`funcs`, `inverse` and `rules` are the three members of `currentEnv`.
`appendCurrEnv` is three actions: it succeeds, throws at the function
(declared already) or throws at the inverse. The inverse entries are inserted
first in all three. `Reset` is `setCurrEnv()`. After `append` has deleted the
environment that owns the domain and the range, `appendCurrEnv` reads their
arity: the model lets that read see the arity or something else
(`AddMonoRules`). `failed` and `stale` are history variables: an append has
thrown since the last reset; a reset has left rules behind.

### UFCallMap

A call is its text, a sequence of characters, because the name of the constant
is made from that text character by character and the question is which texts
collide. `answers` is the history of the constants handed out.

### Computation and StatementLists

`stmts`, `spaces` are the two members of a `Computation`; `cap` and `buf` are the
capacity of its `std::vector<Stmt>` and which buffer it is in; `held` are the
pointers `addStmt` and `getStmt` gave the client. Buffers are in the model
because `Stmt::operator=` appends to the accesses there are: what an assignment
of Computations does depends on which elements the vector assigns and which it
constructs. An empty `Stmt` has null pointers, which a copy dereferences; and
both `operator=` end without a `return`, which an optimized build may turn into a
trap. Either ends the program (`crashed`). `MayOverwrite` and `MayKeep` say
whether the client assigns to objects that have contents, and whether it keeps
pointers when it changes the vector; `Optimized` whether the missing return may
trap.

`StatementLists` is a list and a set per Computation, and an assignment that
copies. The refinement maps `list` to `stmts` and `declared` to `spaces`;
`getStmt` and traps are stutters.

### Isl, Affine and Dependence

`Isl` says what the ISL library does with an affine conjunction, by
Fourier-Motzkin elimination on sets of inequalities: is it empty, does a
constraint follow, project a variable out. ISL is exact over the integers; the
elimination is exact when the coefficients are -1, 0 and 1, as they are in the
instances. Which of several equivalent forms ISL prints is abstracted: the
properties are about tuples.

`Affine` follows the visitors: `boundDomainRange` intersects a conjunction with
the first conjunction of what it collected; `superAffineSet` replaces outermost
calls by symbols and enters them in `ufcmap`; `reverseAffineSubstitution`
replaces the symbols of `ufcmap`; `projectOut` is all three around ISL, and the
renumbering of variables in calls. `VisitExp` keeps the two flags of
`VisitorIsUFCallParam` as the code does. The map is shared by the calls of a
session, as a client may share it. A client projects and detects only when no
symbol of the map is in the object (`NoneSubstituted`).

`Dependence` adds `detectUnsatOrFindEqualities`: rules instantiated with the
first arguments of all calls, the instances that apply added to the ISL set in
at most two rounds, and the equalities of its affine hull put back. The array of
enabled rule types is one too short: whether rules of type `TheOthers` are used
is a nondeterministic choice (`behind`). The order of the instances, that of
their texts in the code, is some order. `DoRelate` is
`dataDependenceRelationship`. `orig` and `kept` are history: the object the
session started with and which of its variables are left.

## 3. Runs

Passing runs:

* `unionfind`: 5 elements, all interleavings of calls (268,647 states). Five
  elements are the fewest for which a compressed path, a tie in the sizes, and a
  tree of depth two under a heavier root occur together. `FairSpec` assumes weak
  fairness of the steps of a `Find` that has started: C++ runs a call until it
  returns. Nothing is assumed of the client. It checks that no element changes
  class other than by `Union` (`TreeOfClass`), the sizes (`CountIsSize`), the
  recursion (`DepthIsLogarithmic`), that `Find` returns (`FindReturns`) and the
  refinement (`IsPartition`).
* `expression_ops`: an expression over two tuple variables, a symbol, a function
  with an inverse, one without and one of two arguments, whose inverse is indexed
  (40,779 states); several interpretations and a window of integers for the
  values. The bounds (terms, coefficients,
  calls) let an unsorted list arise and be used by each of the operations. The
  terms include `f(f_inv(-2x) + y)`, in which inverting the outer call makes the
  variable cancel, and calls whose last one around the variable has no inverse
  while an outer one has (`WrongInverseUnused`).
* `setrelation`: every sequence of two calls over sixteen objects: universe,
  empty set, point written in the tuple, half-lines, a symbolic bound, calls of
  an invertible and a non-invertible function, relations with one and two
  elements on either side. Two calls are enough for one call to receive what
  another one left unsorted or with constants in the tuple. The window of the
  eliminated tuple (`Middle`) is wide enough for every value that a composition
  of two of the relations reaches from `Window`.
* `environment`: three names clients declare, of which one is the inverse name of
  another, six declarations, up to `MaxRules` rules.
* `ufcallmap`: seven terms, among them two whose texts differ only in where the
  comma is and two that differ only in the coefficient.
* `computation`: two Computations, at most three statements in each and two reads
  and two writes in each statement, six calls (258,221 states). Three statements
  make a vector move twice; six calls fill one Computation beyond its capacity,
  copy it, edit a statement of the copy and clear or copy again.
* `dependence`: nineteen sets and relations and every sequence of two passes;
  functions of one and two arguments, one with a union for a domain, calls nested
  to depth three, two rules for a monotonic function and one of type
  `TheOthers`. Tuples are taken from -1..2 and the variables that are projected
  out from -2..3, which holds every witness the constraints of the instances
  need. One of the three interpretations disobeys the rules: the properties of
  detection must not claim anything for it. `NoDependenceLost` is the
  property the passes exist for; the others say what each pass does.

Runs that find a disagreement between the code and what is said of it (each is a
finding in `PROJECT.json`): `union_universe`, `rules_after_reset`,
`computation_assign`, `project_param`, `project_output`. The corresponding
passing property states the condition under which the operation is right
(`UnionRight`, `RulesSound`, `IsValue`, and `ProjectRight` for calls nested to
depth two, which allows an exception for the last output of a relation and for
the only variable of a set, and for nothing else).

Other conditions of passing properties stand for cases in which the code does
something else, and have no run of their own:

* `MayRename = FALSE`: `Union(i, i, k)` with k # i makes the root its own parent
  and the next `Find` does not return.
* `IntersectRight` excludes operands without a conjunction (the placeholder of
  the new object stays, so the result is the universe) and a right operand with
  constants in its tuple (`Intersect` and `Restrict` do not look at them).
* `ComposeRight`: no tuple is ever lost, and none is added when every pair of
  conjunctions has a tuple in common. The image of
  `{[x] : x = 1 and x = 2}` is a point: the last constant wins.
* `InverseConsistent` holds until an append has thrown: the inverse entries are
  inserted before the check.
* `TranslatesBack` is up to the text without commas and blanks: `f(1, 12)` and
  `f(11, 2)` share a constant.
* `CollapseKeepsValue` excludes a scaled inverse (`f(2 f_inv(x))` is collapsed to
  `x`).
* `SolveSound` is about solutions that were found: the variable is a term of the
  expression, or becomes one when the last call around it is inverted. When it
  does not, `solveForFactor` returns the inverted expression as it is. Mostly that
  still mentions the variable, and `findFunction` discards it; but for
  `2x + f(f_inv(-2x) + y) = 0` it is `y`, since `f_inv(-2x)` cancels, which is not
  a solution for `x`. `WrongInverseUnused` is about the other return of this kind:
  with the name of the wrong inverse, the result always mentions the variable.
* `BoundRight`, `TranslationExact` and `DetectRight` need domains and ranges of
  one conjunction: of a union only the first is added. `DetectRight` and
  `NoDependenceLost` need a set of one conjunction too: `getPartsFromStr` reads the
  text of the affine set up to its first closing brace (`set_relation.cc:3827`),
  so the first conjunction of a union answers for all of it, and a union of which
  only the second one has tuples is reported as unsatisfiable.
* `SimplifyRight` is about relations: for a `Set`, `isDefault` holds of the
  universe, and NULL does not mean that the set is empty. As in `ProjectRight`,
  an exception is allowed only when all the outputs may go.
* `RelatesRight` needs the same number of inputs and no projected variable in an
  argument of a call. Otherwise one symbol stands for several calls: the two
  relations `{[i] -> [f(m), m]}` and `{[i] -> [f(m), m] : m >= 1}` are said to
  be equal, as the symbol of `f(m)` stays when m goes.
* `EqualIsEqual` needs at most one write per statement: `operator==` skips every
  second one.

Deadlock is not checked in `expression_ops`, `setrelation`, `computation` and
`dependence`, where the session ends after `MaxOps` or `MaxCalls` calls.

## 4. Proofs

* **UnionFind** (`UnionFind_proofs`), for every N and every MaxFrames >= N, for a
  client that does not rename a set by `Union(i, i, k)` (`MayRename = FALSE`;
  with renaming they are false). The inductive
  invariant is the conjunction of the named invariants. None of them is
  inductive alone: that parents' counts at least double is needed for linking
  and compression to keep the walk's elements lighter than its head
  (`WalkInTree`), that the walk stays in one tree is needed for compression to
  keep `TreeOfClass`, that names and roots are inverse is needed for `Union` to
  link two different roots. `CountsCorrect` (sizes) is proved on top of it with
  the cardinality theorems, `RecursionBounded` follows, and
  `ImplementsPartition` maps each step to a step of `Partition` or a stutter.
* **Environment** (`Environment_proofs`), for any set of names, suffix map and
  set of declarations. The invariant adds to the checked ones that each rule is
  one of those `MonoRules` gives for the function's declared monotonicity
  (`RulesFollow`): `RulesSound` by itself says nothing about which rules there
  are, and an append changes the declaration a rule is judged by.
* **UFCallMap** (`UFCallMap_proofs`), for any set of terms. `MapsInverse` is not
  inductive without `FiledBySymbol` (a call is filed under the constant made from
  its own text).
* **Computation** (`Computation_proofs`), for any Computations, statements, data
  spaces and bounds. `TypeCorrect`, `NeverNull` and `PointersLive` are inductive
  with the type invariant; `PointersLive` needs that the pointer `addStmt`
  returns is taken in the buffer the vector is in afterwards.
  `EqualityExact` is about `operator==` in every state of the type invariant.
  `CopiesCorrect` and `ImplementsLists` assume `MayOverwrite = FALSE`: then a
  vector that is assigned to has no elements, every element is constructed, and
  the construction of a statement is the identity on it (run
  `computation_assign` shows that the assumption is needed).
* **The depth of `do_FIND`** (`DepthLogarithmic`, in `UnionFind_proofs`): the
  argument of the innermost call has a count of at least 2 to the number of
  frames (`WalkDoubles`, preserved by every step: a recursive call goes to a
  parent, which counts at least double), and no count exceeds N. The powers of
  two are a recursive function, its growth an induction.
* **Lists of terms** (`TermLists_proofs`), for any set of factors and lists of any
  length. Values are taken under any valuation of the factors by integers.
  `AddTermAdds`, `AddExpAdds` and `RebuildReplaces` say what the value of a
  result is, also of lists that `remapTupleVars` left unsorted;
  `AddTermCanonical` and `RebuildCanonical` that the result is sorted, without
  zeros and with one term for each factor; `NormalizeKeepsZeros` that
  normalizing an equality does not move its zeros; `DirectSolveExact` that
  `solveForFactor` never throws for a factor that is a term of the expression and
  that its solution is the factor's value where the expression is zero;
  `DirectSolveEliminates` that on a sorted list the factor is gone from it. The
  argument follows the code's loops: one lemma for the place at which `addTerm`
  stops (`AddTermCases`), then an induction over the added list with the partial
  sums of the values.
* **Lists of constraints** (`ConstraintLists_proofs`), for any constraints. A tuple
  under an interpretation is given by the set Z of the expressions that are zero
  at it, the set P of those that are not negative, and the set D of the
  declarations it fits. `IntersectConjMeans` says that adding constraints means
  conjunction although zeros and duplicates are dropped, `UnionMeans`,
  `IntersectMeans` and `RestrictMeans` that the results of these three calls have
  the right tuples, and `DuplicatesAreEqual`, on which the union rests, that two
  conjunctions of which neither is less are the same constraints.
  `InsertExpKeepsOrder` and `AddAllKeepsOrder` say that lists of constraints and
  of conjunctions stay strictly sorted. They have the conditions of the
  checked properties: no conjunction is taken for the placeholder of a new
  object (`Unmistakable`), an intersection of sets has some conjunction, and the
  right operand's declarations, which the code does not look at, are met.

* **Expressions** (`ExpressionOps_proofs`), for any terms, substitutions and
  renamings that clients pass, lists of any length and calls nested to any
  depth. The inductive invariant is `IsExp`: the expression is one of `Exps`, the
  union of the sets `Nested[n]` of well-formed expressions whose calls are nested
  less than n deep and that have no zero coefficient. `TypeOK` as it is checked
  follows from it; by itself it could not be used, as it does not say that
  expressions are finite trees, on which every other proof is an induction
  (`ExpInduction`: a set that has every expression whose arguments it has, has
  them all). On it rest
  * `TermLessOrders`: `operator<` is a strict order on the terms of any depth,
    total on different factors whatever their coefficients, and matching is
    equality. That is what `TermLists_proofs` assumes of the order. Arguments
    are compared as lists of lists, first difference first; the proof is an
    induction over the depth of two expressions at once;
  * `ExpTypeCorrect`, `ExpKeepsCanonical`: no zeros and well-formed factors, and
    the canonical form at every depth, in every session;
  * `ExpAddsValue`, `ExpSubstitutesValue`, `ExpCollapseKeepsValue`: what the
    calls do to the value, at any tuple of the window and under any
    interpretation. A substitution at one level is `RebuildReplaces` with the
    values of the substitutes; inside calls it is the induction hypothesis. For
    a collapse the induction goes down two levels at a time, as `f(f_inv(x))`
    becomes the collapsed `x`;
  * `ExpSolveComplete`: a variable outside the calls of a canonical expression,
    whose coefficient divides the others, is solved for;
  * `ExpSolveSound`: the invariant `SolveSound`. A solution that was found,
    directly or after inverting the last call that depends on the variable, is
    right, however many calls there are; `Found` is the condition of both.

The hypotheses of these theorems are about the parameters, not about states.
`Unfolding` says that the operations are what their steps say; it holds of
`Recursion` by definition, and well-founded recursion on the depth gives
operations of which it holds on all of `Exps`. `Meanings` says that symbols and
calls of integers are integers; `Inverses` that a function applied to the
components of its inverse is the identity, which is what the declaration of an
inverse means; `LeftInverses` the same the other way around, for functions that
return one value. `MCExpressionOps` has ASSUMEs by which TLC evaluates all four
for the operations of `Recursion` and the interpretations of the run.

What the theorems on lists assume of the parameters is stated as predicates too:
for terms `OrdersFactors` and `Exact`, which `TermLessOrders` proves of the
code's order; for constraints that the order is total and `==` is equality
(`OrdersExps`), that equal constraints have one value and zero is zero, and that
normalizing keeps the zeros (`TupleSees`). `MCSetRelation` has an ASSUME by which
TLC evaluates these for the constraints of its instance, at every tuple of the
window. For normalizing it is also the theorem `NormalizeKeepsZeros`.

Induction over data: the library's induction theorems have an operator for a
parameter, which the provers cannot instantiate. `Induction` derives from the
well-founded induction on sets the forms the proofs cite instead (a set with 0
and with every successor has all naturals; a function defined by recursion
exists), and operators of the two list modules are recursive functions over
indices.

Only model-checked:

* liveness (`FindReturns`), which needs fairness and ENABLED;
* `WrongInverseUnused`: the call made with the wrong inverse may not be well-formed
  (its number of arguments is that of another function), and the hypotheses of
  the theorems speak of well-formed expressions only;
* `SetRelation!TypeOK`. That no location beyond the tuple is left after `Compose`
  needs that the function found for a variable in one operand is found again in
  the merged conjunction, whose constraints were renamed and not sorted. In an
  unsorted list `addTerm` may fail to cancel two terms, so this depends on the
  constraints and not only on the order of the calls;
* `InverseRight`, `ComposeRight`, and `UnionRight` and `IntersectRight` as
  properties of every behaviour: `CleanUp` between two calls drops and re-sorts
  constraints. `UnionMeans`, `IntersectMeans` and `RestrictMeans` are the single
  calls;
* everything of `Affine` and `Dependence`, `NoDependenceLost` among it: its
  visitors (`VisitExp`, `Depth`) are recursive operators, and what ISL does is
  exact on the instances only.

## 5. Not modelled

* Vendored code: `src/lib` (gmp, isl, glog, gtest) and `src/src/parser/jsoncons`
  are third-party libraries and by far the largest part of the tree; they are
  modelled by how the library uses them, or not at all. Generated code: the
  bison and flex parser.
* Text: printing, parsing, the rewriting of strings for ISL and Omega
  (`isl_str_manipulation.cc`, `reOrdTV_OmegaCodeGen.cc`), and the names of tuple
  variables with `createUniqueName` (constraints use locations; the names matter
  for the text only).
* `complexityForPartialParallel.cc`: a heuristic estimate, without a statement of
  what a right one is.
* Tuple expressions (`TupleExpTerm`) other than as arguments, iteration over
  symbols, memory management (except where it changes what is computed), integer
  overflow of coefficients (`expression.cc:1015`).
* The copy operations of `UFCallMap` (no code of the library copies one), and the
  tuple declaration that decides how variables are named in its texts.
* The member `env` of `Computation`, which no operation touches.
* `Computation::printInfo`, which changes nothing. It prints the reads of a
  statement under the heading of its writes, and throws when there are fewer
  reads (`Computation.cc:105`).
* The drivers, which run the passes of `Dependence` in a fixed order.
* A rule instance with a set that has no conjunction reads the first element of
  an empty list; the instances have none.

## 6. Plan

1. Names: `createUniqueName` and the declarations `Compose` makes.
2. `TupleExpTerm` and `groupIndexedUFCalls`.
3. Proofs: `TupleSees` and `OrdersExps` of the expressions of
   `ExpressionOps_proofs` (the order and the values are there), which makes
   `UnionMeans` and `IntersectMeans` theorems about tuples; then `CleanUp`, and
   the calls of `SetRelation` one by one.
