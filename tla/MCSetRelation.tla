--------------------------- MODULE MCSetRelation ---------------------------
(***************************************************************************)
(* SetRelation for TLC: a symbolic constant n, a bijective function f with *)
(* inverse f_inv, a function g without one; sets of one and two elements   *)
(* and relations between them.                                             *)
(***************************************************************************)
EXTENDS SetRelation

INSTANCE Recursion

f == 1
f_inv == 2
g == 3
n == 1

MCInverse == <<f_inv, f, 0>>

(* An interpretation is <<the value of n, the shift of f>>.                *)
MCInterps == {<<1, 1>>, <<0, -1>>}
MCMeaning(k, F, vs) ==
  CASE F.type = SymConst -> k[1]
    [] F.type = UFCall /\ F.id = f -> vs[1] + k[2]
    [] F.type = UFCall /\ F.id = f_inv -> vs[1] - k[2]
    [] OTHER -> vs[1] * vs[1]

(* Expressions: c a + d b + e over the locations a and b, and calls.       *)
Lin(c, a, d, b, e) == MkExp(<<Term(c, Tv(a)), Term(d, Tv(b)), Term(e, One)>>)
x(l) == MkExp(<<Term(1, Tv(l))>>)
Eq(e, d) == AddExp(e, MultiplyBy(d, -1))
call(h, e) == <<Term(1, Uf(h, <<e>>))>>
num(c) == MkExp(<<Term(c, One)>>)

(* Objects as the string constructors leave them: built by the parser and  *)
(* copied.                                                                 *)
MkSet(decls, eqs, ineqs) ==
  Object("set", 0, Len(decls), <<MkConj(decls, 0, eqs, ineqs)>>)
MkRel(decls, in, eqs, ineqs) ==
  Object("rel", in, Len(decls) - in, <<MkConj(decls, in, eqs, ineqs)>>)
Parsed(o) == CopyOf(o).val

Universe == MkSet(VarDecl(1), <<>>, <<>>)                    \* {[x]}
Empty == Object("set", 0, 1, <<>>)                           \* {[x] : 1 = 0}
Point == MkSet(<<Const(1)>>, <<>>, <<>>)                     \* {[1]}
FromZero == MkSet(VarDecl(1), <<>>, <<x(0)>>)                \* {[x] : x >= 0}
BelowN == MkSet(VarDecl(1), <<>>, <<Eq(<<Term(1, Sym(n))>>, x(0))>>)
AtOne == MkSet(VarDecl(1), <<Eq(x(0), num(1))>>, <<>>)       \* {[x] : x = 1}
AtTwo == MkSet(VarDecl(1), <<Eq(x(0), num(2))>>, <<>>)
Plane == MkSet(VarDecl(2), <<Eq(x(1), call(f, x(0)))>>, <<x(0)>>)

Ident == MkRel(VarDecl(2), 1, <<Eq(x(1), x(0))>>, <<>>)      \* {[x] -> [x]}
Shift == MkRel(VarDecl(2), 1, <<Lin(1, 1, -1, 0, -1)>>, <<>>)
CallF == MkRel(VarDecl(2), 1, <<Eq(x(1), call(f, x(0)))>>, <<x(0)>>)
CallG == MkRel(VarDecl(2), 1, <<Eq(x(1), call(g, x(0)))>>, <<>>)
Two == MkRel(VarDecl(2), 1, <<Lin(1, 1, -2, 0, 0)>>, <<>>)   \* {[x] -> [2x]}
ToConst == MkRel(<<Var, Const(2)>>, 1, <<Eq(x(0), num(1))>>, <<>>)
Dup == MkRel(VarDecl(3), 1, <<Eq(x(1), x(0)), Eq(x(2), call(f, x(0)))>>, <<>>)
Fold == MkRel(VarDecl(3), 2, <<Lin(1, 2, -1, 0, 0), Eq(x(1), call(f_inv, x(2)))>>, <<>>)

MCSets == {Universe, Empty, Point, FromZero, BelowN, AtOne, AtTwo, Plane}
MCRels == {Ident, Shift, CallF, CallG, Two, ToConst, Dup, Fold}
MCStarts == {Parsed(o) : o \in MCSets \cup MCRels}
MCOperands == MCStarts
MCWindow == -1 .. 2
MCMiddle == -5 .. 6

(* The constraints of these objects, normalized too, are as the proofs     *)
(* about ConstraintLists assume.                                           *)
MCExps ==
  LET used == UNION {UNION {Range(o.conjs[i].eqs) \cup Range(o.conjs[i].ineqs) :
                              i \in DOMAIN o.conjs} : o \in MCStarts}
  IN  used \cup {NormalizeForEquality(e) : e \in used} \cup {<<>>}
ASSUME ConstraintsAssumption ==
  /\ OrdersExps(MCExps)
  /\ \A k \in MCInterps, p \in Tuples(3, MCWindow) :
       TupleSees({e \in MCExps : Value(e, k, p) = 0}, {e \in MCExps : Value(e, k, p) >= 0}, MCExps)
=============================================================================
