--------------------------- MODULE MCEnvironment ---------------------------
(***************************************************************************)
(* Environment for TLC: a client declares f, f_inv and g, so that a name   *)
(* can be declared twice and an inverse can be taken already.              *)
(***************************************************************************)
EXTENDS Environment

MCNames == {"f", "f_inv", "f_inv_inv", "g", "g_inv"}
MCDeclarable == {"f", "f_inv", "g"}
MCInvName == [n \in MCDeclarable |->
  CASE n = "f" -> "f_inv" [] n = "f_inv" -> "f_inv_inv" [] OTHER -> "g_inv"]
MCArity == [s \in {"I", "J", "IJ"} |-> IF s = "IJ" THEN 2 ELSE 1]
Declare(n, dom, rng, bij, mono) ==
  [name |-> n, dom |-> dom, rng |-> rng, bij |-> bij, mono |-> mono]
MCDecls == { Declare("f", "I", "J", TRUE, "Increasing"),
             Declare("f", "I", "J", FALSE, "Decreasing"),
             Declare("f_inv", "I", "J", TRUE, "NONE"),
             Declare("f_inv", "J", "I", FALSE, "Nondecreasing"),
             Declare("g", "I", "I", FALSE, "Nonincreasing"),
             Declare("g", "IJ", "I", TRUE, "Increasing") }
MCUserRules == {[func |-> "g", lhs |-> Compare("user", "<"), rhs |-> Compare("e", "<")]}
=============================================================================
