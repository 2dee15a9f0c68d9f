----------------------------- MODULE Recursion -----------------------------
(***************************************************************************)
(* The operations of Expression that go into the arguments of calls,       *)
(* defined by recursion: the order of terms, and what class Exp does at    *)
(* every depth.                                                            *)
(***************************************************************************)
EXTENDS Integers, Sequences

CONSTANTS InverseOf, NoName, Meaning(_, _, _)

RECURSIVE RecTermLess(_, _), RecParts(_), RecSubstitute(_, _),
          RecRemapTupleVars(_, _), RecCollapse(_), RecCollapseThrows(_), RecValue(_, _, _)

Level == INSTANCE Expression
  WITH TermLess <- RecTermLess, Parts <- RecParts, Substitute <- RecSubstitute,
       RemapTupleVars <- RecRemapTupleVars, Collapse <- RecCollapse,
       CollapseThrows <- RecCollapseThrows, Value <- RecValue

RecTermLess(t, u) == Level!TermLessStep(t, u)
RecParts(e) == Level!PartsStep(e)
RecSubstitute(e, sub) == Level!SubstituteStep(e, sub)
RecRemapTupleVars(e, locs) == Level!RemapStep(e, locs)
RecCollapse(e) == Level!CollapseStep(e)
RecCollapseThrows(e) == Level!CollapseThrowsStep(e)
RecValue(e, k, p) == Level!ValueStep(e, k, p)
=============================================================================
