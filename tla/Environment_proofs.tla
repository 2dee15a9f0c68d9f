------------------------ MODULE Environment_proofs -------------------------
(***************************************************************************)
(* Proofs about Environment, for every set of names and declarations.      *)
(***************************************************************************)
EXTENDS Environment, TLAPS

(* A rule the environment made itself is one of those of its function's    *)
(* declaration.  This is what RulesSound rests on: rules outlive appends,  *)
(* so a function must keep its monotonicity while it has rules.            *)
RulesFollow ==
  ~ stale => \A i \in DOMAIN rules : rules[i].lhs.of # "user" =>
    /\ Declared(rules[i].func)
    /\ \E j \in DOMAIN MonoRules(rules[i].func, funcs[rules[i].func].mono) :
         rules[i] = MonoRules(rules[i].func, funcs[rules[i].func].mono)[j]

IInv == TypeOK /\ InverseConsistent /\ BijectiveHasInverse /\ RulesFollow
-----------------------------------------------------------------------------
(* What a declaration adds has the types of the tables and is never taken  *)
(* for the absence of a function.                                          *)
LEMMA FuncsAdded ==
  ASSUME NEW d \in Decls
  PROVE  /\ FuncOf(d) \in Func /\ InverseFuncOf(d) \in Func
         /\ FuncOf(d) # NoFunc /\ InverseFuncOf(d) # NoFunc
         /\ FuncOf(d).dom = d.dom /\ FuncOf(d).rng = d.rng
         /\ InverseFuncOf(d).dom = d.rng /\ InverseFuncOf(d).rng = d.dom
         /\ FuncOf(d).mono = d.mono
         /\ d.name \in Declarable /\ d.name \in Names /\ d.bij \in BOOLEAN
         /\ InvName[d.name] \in Names /\ InvName[d.name] # d.name
         /\ InvName[d.name] # NoName /\ d.name # NoName
         /\ d.mono \in MonotonicType
  <1>1. /\ d \in Decl /\ d.dom \in Sets /\ d.rng \in Sets /\ d.dom # NoName
        /\ d.rng # NoName /\ d.bij \in BOOLEAN /\ d.mono \in MonotonicType
        /\ d.name \in Declarable
    BY DeclsAssumption, SetsAssumption DEF Decl
  <1>2. /\ d.name \in Names /\ InvName[d.name] \in Names /\ InvName[d.name] # d.name
        /\ InvName[d.name] # NoName /\ d.name # NoName
    BY <1>1, NamesAssumption
  <1>3. FuncOf(d) \in Func /\ InverseFuncOf(d) \in Func
    BY <1>1 DEF FuncOf, InverseFuncOf, Func, MonotonicType
  <1>4. FuncOf(d).dom # NoFunc.dom /\ InverseFuncOf(d).dom # NoFunc.dom
    BY <1>1 DEF FuncOf, InverseFuncOf, NoFunc
  <1> QED BY <1>1, <1>2, <1>3, <1>4 DEF FuncOf, InverseFuncOf

(* The inverse is bijective, the function is if it is declared so.         *)
LEMMA FuncsBijective ==
  ASSUME NEW d \in Decls
  PROVE  FuncOf(d).bij = d.bij /\ InverseFuncOf(d).bij = TRUE
  BY Zenon DEF FuncOf, InverseFuncOf

(* A rule in the environment has a rule's type.                            *)
LEMMA RuleType ==
  ASSUME TypeOK, NEW i \in DOMAIN rules
  PROVE  rules[i] \in Rule /\ rules[i].func \in Names
  <1>1. rules[i] \in Rule
    BY DEF TypeOK
  <1> QED BY <1>1 DEF Rule

(* The rules of a declaration are rules, of its function, and not a        *)
(* client's.                                                               *)
LEMMA MonoRulesType ==
  ASSUME NEW f \in Names, NEW mono \in MonotonicType
  PROVE  /\ MonoRules(f, mono) \in Seq(Rule)
         /\ \A j \in DOMAIN MonoRules(f, mono) :
              /\ MonoRules(f, mono)[j].func = f
              /\ MonoRules(f, mono)[j].lhs.of # "user"
  <1>1. \A b \in {"<", "<=", ">", ">="} : E(b) \in Comparison /\ F(b) \in Comparison
    BY DEF E, F, Compare, Comparison
  <1>2. \A l, r \in Comparison : RuleOf(f, l, r) \in Rule
    BY DEF RuleOf, Rule
  <1>3. CASE mono = "Increasing"
    BY <1>1, <1>2, <1>3 DEF MonoRules, RuleOf, E, F, Compare
  <1>4. CASE mono = "Nondecreasing"
    BY <1>1, <1>2, <1>4 DEF MonoRules, RuleOf, E, F, Compare
  <1>5. CASE mono = "Decreasing"
    BY <1>1, <1>2, <1>5 DEF MonoRules, RuleOf, E, F, Compare
  <1>6. CASE mono = "Nonincreasing"
    BY <1>1, <1>2, <1>6 DEF MonoRules, RuleOf, E, F, Compare
  <1>7. CASE mono = "NONE"
    BY <1>7 DEF MonoRules
  <1> QED BY <1>3, <1>4, <1>5, <1>6, <1>7 DEF MonotonicType

(* What the two kinds of comparison say.                                   *)
LEMMA HoldsMeans ==
  ASSUME NEW T, NEW a, NEW b
  PROVE  /\ Holds(E("<"), T, a, b) <=> a < b
         /\ Holds(E(">"), T, a, b) <=> a > b
         /\ Holds(F("<"), T, a, b) <=> T[a] < T[b]
         /\ Holds(F("<="), T, a, b) <=> T[a] <= T[b]
         /\ Holds(F(">"), T, a, b) <=> T[a] > T[b]
         /\ Holds(F(">="), T, a, b) <=> T[a] >= T[b]
  BY DEF Holds, E, F, Compare, Relates

(* Each rule is true of every function with the monotonicity it is for.    *)
LEMMA MonoRulesTrue ==
  ASSUME NEW f \in Names, NEW mono \in MonotonicType,
         NEW j \in DOMAIN MonoRules(f, mono),
         NEW T \in [Points -> Points], IsMonotonic(T, mono),
         NEW a \in Points, NEW b \in Points,
         Holds(MonoRules(f, mono)[j].lhs, T, a, b)
  PROVE  Holds(MonoRules(f, mono)[j].rhs, T, a, b)
  <1>1. /\ a \in Int /\ b \in Int /\ T[a] \in Int /\ T[b] \in Int
        /\ a < b \/ a = b \/ b < a
    <2>1. T[a] \in Points /\ T[b] \in Points
      OBVIOUS
    <2>2. a \in Int /\ b \in Int /\ T[a] \in Int /\ T[b] \in Int
      BY <2>1, PointsAssumption
    <2> QED BY <2>2
  <1>2. CASE mono = "Increasing"
    <2>1. MonoRules(f, mono) = <<RuleOf(f, E("<"), F("<")), RuleOf(f, F("<"), E("<"))>>
      BY <1>2 DEF MonoRules
    <2>2. (a < b => T[a] < T[b]) /\ (b < a => T[b] < T[a])
      BY <1>2 DEF IsMonotonic
    <2>3. CASE j = 1 BY <1>1, <2>1, <2>2, <2>3, HoldsMeans DEF RuleOf
    <2>4. CASE j = 2 BY <1>1, <2>1, <2>2, <2>4, HoldsMeans DEF RuleOf
    <2> QED BY <2>1, <2>3, <2>4
  <1>3. CASE mono = "Nondecreasing"
    <2>1. MonoRules(f, mono) = <<RuleOf(f, E("<"), F("<="))>>
      BY <1>3 DEF MonoRules
    <2>2. a < b => T[a] <= T[b]
      BY <1>3 DEF IsMonotonic
    <2> QED BY <1>1, <2>1, <2>2, HoldsMeans DEF RuleOf
  <1>4. CASE mono = "Decreasing"
    <2>1. MonoRules(f, mono) = <<RuleOf(f, E("<"), F(">")), RuleOf(f, F("<"), E(">"))>>
      BY <1>4 DEF MonoRules
    <2>2. (a < b => T[a] > T[b]) /\ (b < a => T[b] > T[a])
      BY <1>4 DEF IsMonotonic
    <2>3. CASE j = 1 BY <1>1, <2>1, <2>2, <2>3, HoldsMeans DEF RuleOf
    <2>4. CASE j = 2 BY <1>1, <2>1, <2>2, <2>4, HoldsMeans DEF RuleOf
    <2> QED BY <2>1, <2>3, <2>4
  <1>5. CASE mono = "Nonincreasing"
    <2>1. MonoRules(f, mono) = <<RuleOf(f, E("<"), F(">="))>>
      BY <1>5 DEF MonoRules
    <2>2. a < b => T[a] >= T[b]
      BY <1>5 DEF IsMonotonic
    <2> QED BY <1>1, <2>1, <2>2, HoldsMeans DEF RuleOf
  <1>6. CASE mono = "NONE"
    BY <1>6 DEF MonoRules
  <1> QED BY <1>2, <1>3, <1>4, <1>5, <1>6 DEF MonotonicType
-----------------------------------------------------------------------------
(* The empty environment satisfies the invariant.                          *)
LEMMA InitIInv == Init => IInv
  <1> SUFFICES ASSUME Init PROVE IInv
    OBVIOUS
  <1>1. TypeOK
    <2>1. failed \in BOOLEAN /\ stale \in BOOLEAN
      BY Zenon DEF Init
    <2>2. rules \in Seq(Rule)
      BY DEF Init
    <2> QED BY <2>1, <2>2 DEF Init, TypeOK
  <1>2. InverseConsistent
    BY DEF Init, InverseConsistent
  <1>3. BijectiveHasInverse
    BY DEF Init, BijectiveHasInverse, Declared
  <1>4. RulesFollow
    BY DEF Init, RulesFollow
  <1> QED BY <1>1, <1>2, <1>3, <1>4 DEF IInv

(* Inserting a declaration's names keeps the types of the tables.          *)
LEMMA InsertType ==
  ASSUME NEW d \in Decls,
         NEW inv \in [Names -> Names \cup {NoName}],
         NEW fs \in [Names -> Func \cup {NoFunc}]
  PROVE  /\ InsertInverse(inv, d) \in [Names -> Names \cup {NoName}]
         /\ InsertFuncs(fs, d) \in [Names -> Func \cup {NoFunc}]
  BY FuncsAdded DEF InsertInverse, InsertFuncs

(* Rules after an append: the old ones, then those of the declaration.     *)
LEMMA AddMonoRulesStep ==
  ASSUME NEW d \in Decls, rules \in Seq(Rule), AddMonoRules(d)
  PROVE  /\ rules' \in Seq(Rule)
         /\ \A i \in DOMAIN rules' :
              \/ i \in DOMAIN rules /\ rules'[i] = rules[i]
              \/ \E j \in DOMAIN MonoRules(d.name, d.mono) :
                   rules'[i] = MonoRules(d.name, d.mono)[j]
  <1>1. MonoRules(d.name, d.mono) \in Seq(Rule)
    BY MonoRulesType, FuncsAdded
  <1>2. CASE rules' = rules
    BY <1>2
  <1>3. CASE rules' = rules \o MonoRules(d.name, d.mono)
    BY <1>1, <1>3
  <1> QED BY <1>2, <1>3 DEF AddMonoRules

(* The two entries of a new bijective function make a pair, either way.    *)
LEMMA NewPair ==
  ASSUME NEW d \in Decls, d.bij = TRUE,
         inverse'[d.name] = InvName[d.name], inverse'[InvName[d.name]] = d.name,
         funcs'[d.name] = FuncOf(d), funcs'[InvName[d.name]] = InverseFuncOf(d)
  PROVE  /\ InversePair(d.name, inverse[d.name])'
         /\ InversePair(InvName[d.name], inverse[InvName[d.name]])'
  <1>1. /\ Declared(d.name)' /\ Declared(InvName[d.name])'
        /\ InvName[d.name] # d.name
        /\ funcs'[d.name].dom = funcs'[InvName[d.name]].rng
        /\ funcs'[d.name].rng = funcs'[InvName[d.name]].dom
    <2>1. /\ FuncOf(d) # NoFunc /\ InverseFuncOf(d) # NoFunc /\ InvName[d.name] # d.name
          /\ FuncOf(d).dom = InverseFuncOf(d).rng /\ FuncOf(d).rng = InverseFuncOf(d).dom
      BY FuncsAdded
    <2> QED BY <2>1 DEF Declared
  <1>2. FuncOf(d).bij = TRUE /\ InverseFuncOf(d).bij = TRUE
    BY FuncsBijective, Zenon
  <1>3. funcs'[d.name].bij = TRUE /\ funcs'[InvName[d.name]].bij = TRUE
    BY <1>2, Zenon
  <1> QED BY <1>1, <1>3 DEF InversePair

(* Every step keeps the inverse map consistent.  A pair there was keeps    *)
(* its entries, because both its functions are declared and a declared     *)
(* function is never declared again; a new pair finds both entries free,   *)
(* because an entry belongs to a declared function.                        *)
LEMMA InversesStep ==
  ASSUME IInv, Next
  PROVE  InverseConsistent' /\ BijectiveHasInverse'
  <1> USE DEF IInv, TypeOK
  <1>1. ASSUME NEW d \in Decls, AppendNew(d)
        PROVE  InverseConsistent' /\ BijectiveHasInverse'
    <2>1. BijectiveHasInverse'
      BY <1>1, FuncsAdded, FuncsBijective DEF AppendNew, InsertInverse, InsertFuncs,
         BijectiveHasInverse, Declared
    <2>2. SUFFICES ASSUME ~ failed', NEW f \in Names, inverse'[f] # NoName
                   PROVE  InversePair(f, inverse[f])'
      BY <2>1 DEF InverseConsistent
    <2>3. ~ failed
      BY <1>1, <2>2 DEF AppendNew
    <2>4. CASE inverse[f] # NoName
      <3>1. inverse[f] \in Names /\ InversePair(f, inverse[f])
        BY <2>3, <2>4 DEF InverseConsistent
      <3>2. inverse[inverse[f]] # NoName /\ inverse'[f] = inverse[f]
            /\ inverse'[inverse[f]] = f
        BY <1>1, <2>4, <3>1, NamesAssumption DEF AppendNew, InsertInverse, InversePair
      <3>3. funcs'[f] = funcs[f] /\ funcs'[inverse[f]] = funcs[inverse[f]]
        BY <1>1, <3>1 DEF AppendNew, InsertFuncs, InversePair, Declared
      <3> QED BY <3>1, <3>2, <3>3 DEF InversePair, Declared
    <2>5. CASE inverse[f] = NoName
      <3>1. d.bij /\ f \in {d.name, InvName[d.name]}
        BY <1>1, <2>2, <2>5 DEF AppendNew, InsertInverse
      <3>2. inverse[d.name] = NoName /\ inverse[InvName[d.name]] = NoName
        BY <1>1, <2>3, <3>1, FuncsAdded DEF AppendNew, InverseConsistent, InversePair
      <3>3. inverse'[d.name] = InvName[d.name] /\ inverse'[InvName[d.name]] = d.name
        BY <1>1, <3>1, <3>2, FuncsAdded DEF AppendNew, InsertInverse
      <3>4. funcs'[d.name] = FuncOf(d) /\ funcs'[InvName[d.name]] = InverseFuncOf(d)
        BY <1>1, <3>1, FuncsAdded DEF AppendNew, InsertFuncs
      <3>5. /\ InversePair(d.name, inverse[d.name])'
            /\ InversePair(InvName[d.name], inverse[InvName[d.name]])'
        BY <3>1, <3>3, <3>4, NewPair
      <3> QED BY <3>1, <3>5
    <2> QED BY <2>4, <2>5
  <1>2. ASSUME NEW d \in Decls, SetCurrEnv(d)
        PROVE  InverseConsistent' /\ BijectiveHasInverse'
    <2>1. BijectiveHasInverse'
      BY <1>2, FuncsAdded, FuncsBijective DEF SetCurrEnv, InsertInverse, InsertFuncs,
         NoFuncs, NoInverses, BijectiveHasInverse, Declared
    <2>2. SUFFICES ASSUME NEW f \in Names, inverse'[f] # NoName
                   PROVE  InversePair(f, inverse[f])'
      BY <2>1 DEF InverseConsistent
    <2>3. d.bij /\ f \in {d.name, InvName[d.name]}
      BY <1>2, <2>2 DEF SetCurrEnv, InsertInverse, NoInverses
    <2>4. inverse'[d.name] = InvName[d.name] /\ inverse'[InvName[d.name]] = d.name
      BY <1>2, <2>3, FuncsAdded DEF SetCurrEnv, InsertInverse, NoInverses
    <2>5. funcs'[d.name] = FuncOf(d) /\ funcs'[InvName[d.name]] = InverseFuncOf(d)
      BY <1>2, <2>3, FuncsAdded DEF SetCurrEnv, InsertFuncs, NoFuncs
    <2>6. /\ InversePair(d.name, inverse[d.name])'
          /\ InversePair(InvName[d.name], inverse[InvName[d.name]])'
      BY <2>3, <2>4, <2>5, NewPair
    <2> QED BY <2>3, <2>6
  <1>3. ASSUME NEW d \in Decls, AppendDuplicate(d)
        PROVE  InverseConsistent' /\ BijectiveHasInverse'
    BY <1>3, FuncsAdded DEF AppendDuplicate, InsertInverse, InverseConsistent,
       BijectiveHasInverse, Declared
  <1>4. ASSUME NEW d \in Decls, AppendInverseTaken(d)
        PROVE  InverseConsistent' /\ BijectiveHasInverse'
    BY <1>4, FuncsAdded, FuncsBijective DEF AppendInverseTaken, InsertInverse, InverseConsistent,
       BijectiveHasInverse, Declared
  <1>5. CASE Reset
    BY <1>5, NamesAssumption DEF Reset, NoFuncs, NoInverses, InverseConsistent,
       BijectiveHasInverse, Declared, NoFunc
  <1>6. ASSUME NEW r \in UserRules, AddRule(r)
        PROVE  InverseConsistent' /\ BijectiveHasInverse'
    BY <1>6 DEF AddRule, InverseConsistent, InversePair, BijectiveHasInverse, Declared
  <1> QED BY <1>1, <1>2, <1>3, <1>4, <1>5, <1>6 DEF Next

(* Every step keeps RulesFollow: a function that has rules is declared,    *)
(* and a declared function keeps its declaration until the next reset.     *)
LEMMA RulesStep ==
  ASSUME IInv, Next
  PROVE  RulesFollow'
  <1> USE DEF IInv, TypeOK
  <1>1. ASSUME NEW d \in Decls, AppendNew(d) PROVE RulesFollow'
    <2>1. SUFFICES ASSUME ~ stale', NEW i \in DOMAIN rules', rules'[i].lhs.of # "user"
                   PROVE  /\ Declared(rules[i].func)'
                          /\ \E j \in DOMAIN MonoRules(rules'[i].func, funcs'[rules'[i].func].mono) :
                               rules'[i] = MonoRules(rules'[i].func, funcs'[rules'[i].func].mono)[j]
      BY DEF RulesFollow
    <2>2. ~ stale /\ AddMonoRules(d)
      BY <1>1, <2>1 DEF AppendNew
    <2>3. CASE i \in DOMAIN rules /\ rules'[i] = rules[i]
      <3>1. Declared(rules[i].func) /\ rules[i].func \in Names
        BY <2>1, <2>2, <2>3, RuleType DEF RulesFollow
      <3>2. funcs'[rules[i].func] = funcs[rules[i].func]
        BY <1>1, <3>1 DEF AppendNew, InsertFuncs, Declared
      <3> QED BY <2>1, <2>2, <2>3, <3>1, <3>2 DEF RulesFollow, Declared
    <2>4. ASSUME NEW j \in DOMAIN MonoRules(d.name, d.mono),
                 rules'[i] = MonoRules(d.name, d.mono)[j]
          PROVE  /\ Declared(rules[i].func)'
                 /\ rules'[i] = MonoRules(rules'[i].func, funcs'[rules'[i].func].mono)[j]
                 /\ j \in DOMAIN MonoRules(rules'[i].func, funcs'[rules'[i].func].mono)
      <3>1. rules'[i].func = d.name
        <4>1. d.name \in Names /\ d.mono \in MonotonicType
          BY FuncsAdded
        <4> QED BY <2>4, <4>1, MonoRulesType
      <3>2. funcs'[d.name] = FuncOf(d)
        BY <1>1, FuncsAdded DEF AppendNew, InsertFuncs
      <3>3. FuncOf(d).mono = d.mono /\ FuncOf(d) # NoFunc
        BY FuncsAdded
      <3> QED BY <2>4, <3>1, <3>2, <3>3 DEF Declared
    <2> QED BY <2>1, <2>2, <2>3, <2>4, AddMonoRulesStep
  <1>2. ASSUME NEW d \in Decls, SetCurrEnv(d) PROVE RulesFollow'
    <2>1. SUFFICES ASSUME ~ stale', NEW i \in DOMAIN rules', rules'[i].lhs.of # "user"
                   PROVE  /\ Declared(rules[i].func)'
                          /\ \E j \in DOMAIN MonoRules(rules'[i].func, funcs'[rules'[i].func].mono) :
                               rules'[i] = MonoRules(rules'[i].func, funcs'[rules'[i].func].mono)[j]
      BY DEF RulesFollow
    <2>2. rules = <<>> /\ AddMonoRules(d)
      BY <1>2, <2>1 DEF SetCurrEnv
    <2>3. PICK j \in DOMAIN MonoRules(d.name, d.mono) :
                 rules'[i] = MonoRules(d.name, d.mono)[j]
      BY <2>1, <2>2, AddMonoRulesStep
    <2>4. rules'[i].func = d.name
      <3>1. d.name \in Names /\ d.mono \in MonotonicType
        BY FuncsAdded
      <3> QED BY <2>3, <3>1, MonoRulesType
    <2>5. funcs'[d.name] = FuncOf(d)
      BY <1>2, FuncsAdded DEF SetCurrEnv, InsertFuncs
    <2>6. FuncOf(d).mono = d.mono /\ FuncOf(d) # NoFunc
      BY FuncsAdded
    <2> QED BY <2>3, <2>4, <2>5, <2>6 DEF Declared
  <1>3. ASSUME NEW d \in Decls, AppendDuplicate(d) PROVE RulesFollow'
    BY <1>3 DEF AppendDuplicate, RulesFollow, Declared
  <1>4. ASSUME NEW d \in Decls, AppendInverseTaken(d) PROVE RulesFollow'
    <2>1. SUFFICES ASSUME ~ stale', NEW i \in DOMAIN rules', rules'[i].lhs.of # "user"
                   PROVE  /\ Declared(rules[i].func)'
                          /\ \E j \in DOMAIN MonoRules(rules'[i].func, funcs'[rules'[i].func].mono) :
                               rules'[i] = MonoRules(rules'[i].func, funcs'[rules'[i].func].mono)[j]
      BY DEF RulesFollow
    <2>2. ~ stale /\ rules' = rules
      BY <1>4, <2>1 DEF AppendInverseTaken
    <2>3. Declared(rules[i].func) /\ rules[i].func \in Names
      BY <2>1, <2>2, RuleType DEF RulesFollow
    <2>4. funcs'[rules[i].func] = funcs[rules[i].func]
      BY <1>4, <2>3 DEF AppendInverseTaken, Declared
    <2> QED BY <2>1, <2>2, <2>3, <2>4 DEF RulesFollow, Declared
  <1>5. CASE Reset
    <2>1. SUFFICES ASSUME ~ stale' PROVE DOMAIN rules' = {}
      BY DEF RulesFollow
    <2>2. rules' = <<>>
      BY <1>5, <2>1, Zenon DEF Reset
    <2> QED BY <2>2
  <1>6. ASSUME NEW r \in UserRules, AddRule(r) PROVE RulesFollow'
    <2>1. r \in Rule /\ r.lhs.of = "user"
      BY UserRulesAssumption
    <2>2. \A i \in DOMAIN rules' : rules'[i] = r \/ (i \in DOMAIN rules /\ rules'[i] = rules[i])
      <3>1. rules \in Seq(Rule) /\ rules' = Append(rules, r)
        BY <1>6 DEF AddRule
      <3>2. /\ DOMAIN rules' = 1 .. Len(rules) + 1 /\ DOMAIN rules = 1 .. Len(rules)
            /\ Len(rules) \in Nat
        BY <2>1, <3>1
      <3>3. TAKE i \in DOMAIN rules'
      <3>4. CASE i = Len(rules) + 1
        <4>1. Append(rules, r)[Len(rules) + 1] = r
          BY <2>1, <3>1, <3>2
        <4> QED BY <3>1, <3>4, <4>1
      <3>5. CASE i \in 1 .. Len(rules)
        BY <3>1, <3>2, <3>5
      <3> QED BY <3>2, <3>4, <3>5
    <2>3. funcs' = funcs /\ stale' = stale
      BY <1>6 DEF AddRule
    <2>4. SUFFICES ASSUME ~ stale', NEW i \in DOMAIN rules', rules'[i].lhs.of # "user"
                   PROVE  /\ Declared(rules[i].func)'
                          /\ \E j \in DOMAIN MonoRules(rules'[i].func, funcs'[rules'[i].func].mono) :
                               rules'[i] = MonoRules(rules'[i].func, funcs'[rules'[i].func].mono)[j]
      BY DEF RulesFollow
    <2>5. i \in DOMAIN rules /\ rules'[i] = rules[i]
      BY <2>1, <2>2, <2>4
    <2> QED BY <2>3, <2>4, <2>5 DEF RulesFollow, Declared
  <1> QED BY <1>1, <1>2, <1>3, <1>4, <1>5, <1>6 DEF Next

(* Every step keeps the types.                                             *)
LEMMA TypeStep ==
  ASSUME TypeOK, Next
  PROVE  TypeOK'
  <1> USE DEF TypeOK
  <1>1. ASSUME NEW d \in Decls, AppendNew(d) PROVE TypeOK'
    BY <1>1, InsertType, AddMonoRulesStep DEF AppendNew
  <1>2. ASSUME NEW d \in Decls, SetCurrEnv(d) PROVE TypeOK'
    <2>1. /\ NoFuncs \in [Names -> Func \cup {NoFunc}]
          /\ NoInverses \in [Names -> Names \cup {NoName}]
      BY DEF NoFuncs, NoInverses
    <2>2. funcs' \in [Names -> Func \cup {NoFunc}] /\ inverse' \in [Names -> Names \cup {NoName}]
      BY <1>2, <2>1, InsertType DEF SetCurrEnv
    <2>3. rules' \in Seq(Rule)
      BY <1>2, AddMonoRulesStep DEF SetCurrEnv
    <2>4. failed' \in BOOLEAN /\ stale' \in BOOLEAN
      BY <1>2, Zenon DEF SetCurrEnv
    <2> QED BY <2>2, <2>3, <2>4
  <1>3. ASSUME NEW d \in Decls, AppendDuplicate(d) PROVE TypeOK'
    BY <1>3, InsertType DEF AppendDuplicate
  <1>4. ASSUME NEW d \in Decls, AppendInverseTaken(d) PROVE TypeOK'
    BY <1>4, InsertType, FuncsAdded DEF AppendInverseTaken
  <1>5. CASE Reset
    <2>1. failed' \in BOOLEAN /\ stale' \in BOOLEAN
      BY <1>5, Zenon DEF Reset
    <2> QED BY <1>5, <2>1 DEF Reset, NoFuncs, NoInverses
  <1>6. ASSUME NEW r \in UserRules, AddRule(r) PROVE TypeOK'
    BY <1>6, UserRulesAssumption DEF AddRule
  <1> QED BY <1>1, <1>2, <1>3, <1>4, <1>5, <1>6 DEF Next
-----------------------------------------------------------------------------
(* The inductive invariant, of every environment a client can make.        *)
LEMMA EnvironmentInv == Spec => []IInv
  <1>1. IInv /\ [Next]_vars => IInv'
    <2>1. ASSUME IInv, Next PROVE IInv'
      BY <2>1, TypeStep, InversesStep, RulesStep DEF IInv
    <2>2. ASSUME IInv, UNCHANGED vars PROVE IInv'
      BY <2>2 DEF IInv, TypeOK, InverseConsistent, InversePair, BijectiveHasInverse,
         RulesFollow, Declared, vars
    <2> QED BY <2>1, <2>2
  <1> QED BY InitIInv, <1>1, PTL DEF Spec

(* The tables hold declared functions, names and rules only, whatever is   *)
(* declared, fails, or is reset in between.                                *)
THEOREM TypeCorrect == Spec => []TypeOK
  <1>1. IInv => TypeOK
    BY DEF IInv
  <1> QED BY <1>1, EnvironmentInv, PTL

(* Until an append throws, the inverse map pairs declared, bijective       *)
(* functions with swapped domain and range, whatever appendCurrEnv and     *)
(* setCurrEnv are called with.                                             *)
THEOREM InversesCorrect == Spec => []InverseConsistent
  <1>1. IInv => InverseConsistent
    BY DEF IInv
  <1> QED BY <1>1, EnvironmentInv, PTL

(* No bijective function is without an inverse, even after a failed        *)
(* append.                                                                 *)
THEOREM BijectionsInvertible == Spec => []BijectiveHasInverse
  <1>1. IInv => BijectiveHasInverse
    BY DEF IInv
  <1> QED BY <1>1, EnvironmentInv, PTL

(* Until a reset leaves rules behind, every monotonicity rule of           *)
(* appendCurrEnv is true of all functions with the declared monotonicity,  *)
(* over any set of integers.                                               *)
THEOREM RulesCorrect == Spec => []RulesSound
  <1>1. IInv => RulesSound
    <2>1. SUFFICES ASSUME IInv, ~ stale, NEW i \in DOMAIN rules, rules[i].lhs.of # "user",
                          NEW T \in [Points -> Points],
                          IsMonotonic(T, funcs[rules[i].func].mono),
                          NEW a \in Points, NEW b \in Points,
                          Holds(rules[i].lhs, T, a, b)
                   PROVE  Holds(rules[i].rhs, T, a, b)
      BY DEF RulesSound, RuleSound
    <2>2. rules[i].func \in Names /\ Declared(rules[i].func)
      BY <2>1, RuleType DEF IInv, RulesFollow
    <2>3. funcs[rules[i].func].mono \in MonotonicType
      BY <2>1, <2>2 DEF IInv, TypeOK, Declared, Func
    <2>4. PICK j \in DOMAIN MonoRules(rules[i].func, funcs[rules[i].func].mono) :
                 rules[i] = MonoRules(rules[i].func, funcs[rules[i].func].mono)[j]
      BY <2>1 DEF IInv, RulesFollow
    <2> QED BY <2>1, <2>2, <2>3, <2>4, MonoRulesTrue
  <1> QED BY <1>1, EnvironmentInv, PTL
=============================================================================
