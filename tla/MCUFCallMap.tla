---------------------------- MODULE MCUFCallMap ----------------------------
(***************************************************************************)
(* UFCallMap for TLC: calls of a binary f, f(1,12) and f(11,2) among them, *)
(* whose texts differ in the place of the comma only, a nested call, and   *)
(* two terms with the same call.                                           *)
(***************************************************************************)
EXTENDS UFCallMap

MCTerms ==
  { [coef |-> 1, call |-> <<"f", "(", "1", ",", " ", "1", "2", ")">>],
    [coef |-> 2, call |-> <<"f", "(", "1", "1", ",", " ", "2", ")">>],
    [coef |-> 1, call |-> <<"f", "(", "i", "+", "1", ",", " ", "j", ")">>],
    [coef |-> -1, call |-> <<"f", "(", "i", "+", "1", ",", " ", "j", ")">>],
    [coef |-> 1, call |-> <<"f", "(", "i", "-", "1", ",", " ", "j", ")">>],
    [coef |-> 3, call |-> <<"f", "(", "f", "(", "i", ",", " ", "j", ")", ",", " ", "1", ")">>],
    [coef |-> 1, call |-> <<"f", "(", "i", ",", " ", "f", "(", "j", ",", " ", "1", ")", ")">>] }
=============================================================================
