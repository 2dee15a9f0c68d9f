-------------------------------- MODULE Isl --------------------------------
(***************************************************************************)
(* The ISL library as set_relation.cc uses it, on affine conjunctions: is  *)
(* there a tuple, does a constraint follow, project a variable out.        *)
(* External: modelled by what it does, by Fourier-Motzkin elimination over *)
(* sets of inequalities e >= 0.  ISL is exact over the integers; so is     *)
(* this when every coefficient is -1, 0 or 1, as in the instances checked. *)
(***************************************************************************)
EXTENDS Conjunction

(* The coefficient of a factor in an expression.                           *)
CoefOf(e, F) == LET at == {i \in DOMAIN e : e[i].fac = F}
                IN  IF at = {} THEN 0 ELSE e[Min(at)].coef

(* The elements of a set, in some order.                                   *)
Listed(S) == FoldSet(LAMBDA e, s : Append(s, e), <<>>, S)

FactorsOf(es) == {F \in UNION {{e[i].fac : i \in DOMAIN e} : e \in es} : F # One}

(* The row of coefficients of e, of the factors fs and last the constant,  *)
(* and the expression of a row.                                            *)
RowOf(e, fs) == Append([i \in DOMAIN fs |-> CoefOf(e, fs[i])], CoefOf(e, One))
ExpOf(row, fs) == MkExp([i \in DOMAIN row |-> Term(row[i], Append(fs, One)[i])])

(* Without what is weaker by a constant than another row.                  *)
Tightest(rows) ==
  {r \in rows : \A q \in rows : Front(q) = Front(r) => Last(q) >= Last(r)}

(* The rows that follow, with coefficient 0 at i.                          *)
EliminateAt(rows, i) ==
  LET lower == {r \in rows : r[i] > 0}
      upper == {r \in rows : r[i] < 0}
      sum(l, u) == [j \in DOMAIN l |-> l[j] * (-u[i]) + u[j] * l[i]]
  IN  Tightest((rows \ (lower \cup upper)) \cup {sum(p[1], p[2]) : p \in lower \X upper})

(* The constraints of a conjunction as inequalities.                       *)
AsInequalities(c) ==
  Range(c.ineqs) \cup Range(c.eqs) \cup {MultiplyBy(e, -1) : e \in Range(c.eqs)}

(* No assignment to variables and symbols satisfies es.                    *)
EmptyRows(rows, n) ==
  \E r \in FoldSet(LAMBDA i, acc : EliminateAt(acc, i), rows, 1 .. n) : Last(r) < 0
EmptyOver(es, fs) == EmptyRows({RowOf(e, fs) : e \in es}, Len(fs))
IslEmpty(es) == EmptyOver(es, Listed(FactorsOf(es)))

(* Every assignment that satisfies es satisfies e >= 0.                    *)
Negated(e) == AddTerm(MultiplyBy(e, -1), Term(-1, One))
IslImplies(es, e) == IslEmpty(es \cup {Negated(e)})

(* The inequalities without F that follow from es.                         *)
EliminateOver(es, fs) ==
  {ExpOf(r, fs) : r \in {q \in EliminateAt({RowOf(e, fs) : e \in es}, 1) :
                           \E i \in DOMAIN fs : q[i] # 0}}
EliminateFactor(es, F) == EliminateOver(es, <<F>> \o Listed(FactorsOf(es) \ {F}))

(* isl_set_project_out of one conjunction, printed, corrected and parsed   *)
(* again; the sequence of the conjunctions of the result.  An equality     *)
(* that has the variable defines it.                                       *)
Down(n, pos) == [i \in 1 .. n |-> IF i - 1 > pos THEN i - 2 ELSE i - 1]
ProjectWith(c, pos, defs) ==
  IF defs # {}
    THEN SubstituteInConstraints(c,
           [F \in {Tv(pos)} |-> SolveForFactor(c.eqs[Min(defs)], Tv(pos)).exp])
    ELSE [c EXCEPT !.ineqs = Listed(EliminateFactor(Range(@), Tv(pos)))]
Renumbered(c, n, pos) ==
  MkConj(VarDecl(n - 1), 0,
         [i \in DOMAIN c.eqs |-> RemapTupleVars(c.eqs[i], Down(n, pos))],
         [i \in DOMAIN c.ineqs |-> RemapTupleVars(c.ineqs[i], Down(n, pos))])
ProjectVar(c, pos) ==
  Renumbered(ProjectWith(c, pos, {i \in DOMAIN c.eqs : CoefOf(c.eqs[i], Tv(pos)) \in {-1, 1}}),
             ArityOf(c), pos)
IslProjectOut(c, pos) ==
  IF IslEmpty(AsInequalities(c)) THEN <<>> ELSE <<ProjectVar(c, pos)>>
=============================================================================
