-------------------------- MODULE MCExpressionOps --------------------------
(***************************************************************************)
(* ExpressionOps for TLC: two tuple variables, a symbolic constant n, a    *)
(* bijective function f with inverse f_inv, a function g without one, and  *)
(* a bijective function h of two arguments, whose inverse is indexed.      *)
(***************************************************************************)
EXTENDS ExpressionOps

INSTANCE Recursion

f == 1
f_inv == 2
g == 3
h == 4
h_inv == 5
n == 1

MCInverse == <<f_inv, f, 0, h_inv, h>>
MCNumArgs == <<1, 1, 1, 2, 1>>
MCIndexed == {h_inv}

(* An interpretation is <<the value of n, the shift of f>>.  h pairs its   *)
(* arguments as digits, one to one while the first is below Base / 2.      *)
Base == 1000
MCInterps == {<<2, 1>>, <<-1, 2>>}
MCMeaning(k, F, vs) ==
  CASE F.type = SymConst -> k[1]
    [] F.type = UFCall /\ F.id = f -> vs[1] + k[2]
    [] F.type = UFCall /\ F.id = f_inv -> vs[1] - k[2]
    [] F.type = UFCall /\ F.id = h -> vs[1] + Base * vs[2]
    [] F.type = UFCall /\ F.id = h_inv ->
         IF TupleIndex(F) = 0 THEN ((vs[1] + Base \div 2) % Base) - Base \div 2
                              ELSE (vs[1] + Base \div 2) \div Base
    [] OTHER -> vs[1] * vs[1]

x == <<Term(1, Tv(0))>>
y == <<Term(1, Tv(1))>>
hInv(i, e) == <<Term(1, Factor(UFCall, h_inv, i, <<e>>))>>
MCTerms ==
  {Term(1, Tv(0)), Term(-2, Tv(1)), Term(1, Tv(1)), Term(1, Sym(n)), Term(-2, One),
   Term(2, Uf(f, <<x>>)), Term(-1, Uf(f, <<y>>)), Term(1, Uf(g, <<y>>)),
   Term(1, Uf(f_inv, <<MkExp(<<Term(1, Tv(0)), Term(1, Tv(1))>>)>>)),
   Term(1, Uf(f, <<<<Term(1, Uf(f_inv, <<y>>))>>>>)),
   Term(1, Uf(f, <<MkExp(<<Term(1, Tv(1)), Term(1, Uf(f_inv, <<MultiplyBy(x, -2)>>))>>)>>)),
   Term(1, Uf(h, <<x, y>>)), Term(-1, Uf(h, <<hInv(0, x), hInv(1, x)>>)),
   hInv(1, <<Term(1, Uf(h, <<x, y>>))>>)[1]}

(* The substitutions: a swap, a shift, and calls for variables.            *)
MCSubs == { (Tv(0) :> y) @@ (Tv(1) :> x),
            (Tv(1) :> MkExp(<<Term(1, Tv(0)), Term(1, One)>>)),
            (Tv(0) :> <<Term(-1, Uf(f_inv, <<y>>))>>),
            (Tv(0) :> <<Term(1, Uf(f, <<y>>))>>) @@ (Tv(1) :> <<>>) }

MCRemaps == {<<1, 0>>}

(* What the theorems assume: that Recursion's operations are what their    *)
(* steps say, and that a call of an inverse is undone.                     *)
MCFactors == {t.fac : t \in MCTerms} \cup {hInv(i, x)[1].fac : i \in {0, 1}}
MCLists == {<<>>} \cup {<<Term(c, F)>> : c \in {-1, 2}, F \in MCFactors}
                 \cup {<<Term(1, F), Term(0, G)>> : F, G \in MCFactors}
ASSUME UnfoldsAssumption == Unfolds(MCLists, Points)
ASSUME MeaningAssumption ==
  /\ IntegerMeaning(MCFactors, {<<>>} \cup {<<v>> : v \in -3 .. 3} \cup {<<v, -1>> : v \in -3 .. 3})
  /\ InverseMeaning(MCFactors, -5 .. 5) /\ LeftInverse(-5 .. 5)
=============================================================================
