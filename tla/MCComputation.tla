--------------------------- MODULE MCComputation ---------------------------
(***************************************************************************)
(* Computation for TLC: two Computations, statements with and without      *)
(* accesses, and the empty Stmt.                                           *)
(***************************************************************************)
EXTENDS Computation

CONSTANTS A, B, code, iters, sched, X, Y

Plain == [code |-> code, space |-> iters, sched |-> sched, reads |-> <<>>, writes |-> <<>>]
Copying == [Plain EXCEPT !.reads = <<<<X, sched>>>>, !.writes = <<<<Y, sched>>>>]
MCMade == {EmptyStmt, Plain, Copying}
MCSpaces == {X, Y}
=============================================================================
