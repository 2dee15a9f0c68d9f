---------------------------- MODULE MCDependence ----------------------------
(***************************************************************************)
(* Dependence for TLC: functions f and g of one argument, h of two; g's    *)
(* domain is a union; f is increasing and no less than x - 1, the latter a *)
(* rule of type TheOthers.  Sets of two elements, relations of two and     *)
(* three.                                                                  *)
(***************************************************************************)
EXTENDS Dependence

INSTANCE Recursion

f == 1
g == 2
h == 3
n == 1

MCInverse == <<0, 0, 0>>

(* An interpretation is <<the value of n, the shift of f>>; in the last    *)
(* f is decreasing.                                                        *)
MCInterps == {<<1, 1>>, <<2, -1>>, <<1, 0>>}
MCMeaning(k, F, vs) ==
  CASE F.type = SymConst -> k[1]
    [] F.type = UFCall /\ F.id = f -> IF k[2] = 0 THEN 1 - vs[1] ELSE vs[1] + k[2]
    [] F.type = UFCall /\ F.id = g -> vs[1] * vs[1]
    [] OTHER -> vs[1] - vs[2]

x(l) == MkExp(<<Term(1, Tv(l))>>)
num(c) == MkExp(<<Term(c, One)>>)
sym == <<Term(1, Sym(n))>>
call(F, e) == <<Term(1, Uf(F, <<e>>))>>
call2(d, e) == <<Term(1, Uf(h, <<d, e>>))>>
Plus(d, e) == AddExp(d, e)
Minus(d, e) == AddExp(d, MultiplyBy(e, -1))
Before(d, e) == AddTerm(Minus(e, d), Term(-1, One))

SetOf(arity, eqs, ineqs) == Object("set", 0, arity, <<MkConj(VarDecl(arity), 0, eqs, ineqs)>>)
RelOf(in, arity, eqs, ineqs) ==
  Object("rel", in, arity - in, <<MkConj(VarDecl(arity), in, eqs, ineqs)>>)
Union2(o, r) == AddConjunctions(o, r.conjs)

(* f : {[x] : 0 <= x && x <= n} -> {[y] : y >= 0}; g on a union; h where   *)
(* its arguments are in order.                                             *)
Half == SetOf(1, <<>>, <<x(0)>>)
MCDomain == << SetOf(1, <<>>, <<x(0), Minus(sym, x(0))>>),
               Union2(SetOf(1, <<>>, <<MultiplyBy(x(0), -1)>>), SetOf(1, <<>>, <<Minus(x(0), num(1))>>)),
               SetOf(2, <<>>, <<Minus(x(1), x(0))>>) >>
MCRangeOf == <<Half, Half, SetOf(1, <<>>, <<Minus(num(1), x(0))>>)>>

CallF == SetOf(2, <<Minus(x(1), call(f, x(0)))>>, <<x(0)>>)           \* y = f(x), x >= 0
Nested == SetOf(2, <<>>, <<Minus(call(f, call(f, x(0))), x(1)), x(1)>>) \* 0 <= y <= f(f(x))
CallG == SetOf(2, <<Minus(x(1), num(1))>>, <<Minus(call(g, x(0)), x(1))>>)
TwoArgs == SetOf(2, <<>>, <<Minus(call2(x(0), call(f, x(1))), num(0)), x(1)>>)
Cancels == SetOf(2, <<>>, <<Minus(Plus(call(f, x(0)), x(1)), call(f, x(0))), Minus(call(f, x(1)), call(f, x(0)))>>)
Unsat == SetOf(2, <<>>, <<Minus(x(0), Plus(x(1), num(1))), Minus(x(1), x(0))>>)
Either == Union2(CallF, SetOf(2, <<>>, <<Minus(sym, x(1)), Minus(x(1), x(0))>>))
Partly == Union2(Unsat, SetOf(2, <<>>, <<x(0), x(1), Minus(sym, x(1))>>))
Deep == SetOf(2, <<>>, <<Minus(call(f, Plus(x(0), call(f, call(f, sym)))), x(1))>>)
Chain == RelOf(1, 3, <<Minus(x(2), call(f, x(1)))>>, <<Minus(x(1), x(0)), Minus(sym, x(2))>>)
Inner == RelOf(1, 3, <<Minus(x(1), Plus(x(0), num(1)))>>, <<Minus(call(f, x(2)), x(1)), x(2), Minus(sym, x(2))>>)
Never == RelOf(2, 3, <<Minus(x(0), x(2))>>, <<Minus(x(1), Plus(x(2), num(1))), Minus(x(0), x(1))>>)
Pricey == RelOf(1, 3, <<>>, <<Minus(call(f, x(1)), x(0)), Minus(call(f, x(2)), x(0)), Minus(sym, x(2))>>)
Wrong == RelOf(1, 2, <<>>, <<Before(x(0), x(1)), Before(call(f, x(1)), call(f, x(0)))>>)
Same == RelOf(1, 2, <<>>, <<Minus(x(1), x(0)), Minus(call(f, x(0)), call(f, x(1)))>>)
Other == SetOf(2, <<>>, <<Before(x(0), x(1)), Before(call(f, x(1)), x(0)), Minus(sym, call(f, x(0)))>>)
Loose == RelOf(1, 3, <<>>, <<Minus(x(1), x(0)), Minus(x(2), x(1)), Minus(sym, x(2))>>)
Wide == RelOf(1, 3, <<>>, <<Minus(x(1), x(0)), Minus(x(2), x(0)), Minus(sym, x(2)), Minus(call(f, x(1)), x(0))>>)
Late == RelOf(1, 3, <<Minus(x(2), x(1))>>, <<Before(x(0), x(1))>>)
Nest == RelOf(3, 4, <<Minus(x(1), x(3))>>, <<Before(x(0), x(3)), Before(x(0), sym), Minus(x(2), x(0))>>)
Flow == RelOf(3, 4, <<Minus(x(2), x(1))>>, <<Before(x(0), x(3)), Minus(sym, x(3))>>)
Edge == RelOf(1, 2, <<Minus(x(1), call(f, x(0)))>>, <<>>)

MCStarts == {CopyOf(o).val : o \in {CallF, Nested, CallG, TwoArgs, Cancels, Unsat, Either, Partly, Deep,
                                    Chain, Inner, Never, Pricey, Loose, Wrong, Same, Other, Edge, Flow}}

(* f is increasing, both ways; TheOthers says x1 < x2 => x1 <= f(x2).      *)
RuleOf(type, left, right) == [type |-> type, left |-> SetOf(2, <<>>, <<left>>),
                              right |-> SetOf(2, <<>>, <<right>>)]
MCRules == {RuleOf(0, Before(x(0), x(1)), Before(call(f, x(0)), call(f, x(1)))),
            RuleOf(0, Before(call(f, x(0)), call(f, x(1))), Before(x(0), x(1))),
            RuleOf(5, Before(x(0), x(1)), Minus(call(f, x(1)), x(0)))}

(* A number for every call that the passes can meet.                       *)
RECURSIVE MCSymbol(_)
MCSymbol(F) ==
  LET digit(t) == CASE t.fac.type = UFCall -> MCSymbol(t.fac)
                    [] t.fac.type = SymConst -> 4
                    [] OTHER -> t.fac.id + 1
  IN  10 * FoldLeft(LAMBDA acc, t : acc * 10000 + digit(t), 0, FlattenSeq(F.args)) + F.id

MCWindow == -1 .. 2
MCMiddle == -2 .. 3
MCParallel == {{0}, {2}}
MCIgnored == {x(0)}
MCOperands == {CopyOf(o).val : o \in {Wide, Late, Same, Nest}}
=============================================================================
