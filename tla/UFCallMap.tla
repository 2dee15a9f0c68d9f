----------------------------- MODULE UFCallMap -----------------------------
(***************************************************************************)
(* src/set_relation/UFCallMap.cc: the map between uninterpreted function   *)
(* calls and the symbolic constants that stand for them while a set is     *)
(* affine.  superAffineSet asks for the constant of each call (find of a   *)
(* UFCallTerm, which inserts), and reverseAffineSubstitution for the call  *)
(* of each constant (find of a VarTerm).                                   *)
(*                                                                         *)
(* A term is [coef, call], call being the text of the call as a sequence   *)
(* of characters.  A symbolic constant is a text too.                      *)
(***************************************************************************)
EXTENDS Sequences, Integers

CONSTANT Terms   \* the UFCallTerms a client asks about

ASSUME TermsAssumption == \A t \in Terms : DOMAIN t = {"coef", "call"}

VARIABLES
  ufc2var,   \* mUFC2VarParam
  var2ufc,   \* mVarParam2UFC
  answers    \* history: <<term, constant>> for every constant handed out

vars == <<ufc2var, var2ufc, answers>>

Init == ufc2var = <<>> /\ var2ufc = <<>> /\ answers = {}
-----------------------------------------------------------------------------
(* symUFC: the text with blanks and commas dropped and the characters      *)
(* that a symbol cannot have replaced.                                     *)
SymChar(c) == CASE c \in {"(", ")"} -> "_"
                [] c \in {"[", "]"} -> "B"
                [] c = "+" -> "P"
                [] c = "-" -> "M"
                [] OTHER -> c
SymUFC(text) ==
  LET kept == SelectSeq(text, LAMBDA c : c \notin {" ", ","})
  IN  [i \in 1 .. Len(kept) |-> SymChar(kept[i])]

(* Mutated form: the coefficient stays.                                    *)
Key_KeepsCoefficient(t) == t

(* The copy of a term, with coefficient 1, that is looked up and stored.   *)
Key(t) == [coef |-> 1, call |-> t.call]

(* map::insert: a key there is keeps its value.                            *)
Put(map, key, val) == [x \in DOMAIN map \cup {key} |-> IF x \in DOMAIN map THEN map[x] ELSE val]

(* Mutated form: the second map is forgotten.                              *)
Enter_OneWay(k, v) == /\ ufc2var' = Put(ufc2var, k, v)
                      /\ UNCHANGED var2ufc

(* UFCallMap::insert of a term whose constant is v.                        *)
Enter(k, v) == IF v \in DOMAIN var2ufc
                 THEN UNCHANGED <<ufc2var, var2ufc>>
                 ELSE ufc2var' = Put(ufc2var, k, v) /\ var2ufc' = Put(var2ufc, v, k)

(* Mutated form: the text has the coefficient in it.                       *)
SymCons_WithCoefficient(t) ==
  (IF t.coef = 1 THEN <<>> ELSE <<"2">>) \o SymUFC(t.call)

(* The constant of a term: made from the text of its copy.                 *)
SymCons(t) == SymUFC(t.call)

(* UFCallMap::insert returns the constant, whether it entered it or not.   *)
Insert(t) ==
  /\ Enter(Key(t), SymCons(t))
  /\ answers' = answers \cup {<<t, SymCons(t)>>}

(* UFCallMap::find of a UFCallTerm: insert it if it is not there.          *)
FindCall(t) ==
  \/ /\ Key(t) \in DOMAIN ufc2var
     /\ answers' = answers \cup {<<t, ufc2var[Key(t)]>>}
     /\ UNCHANGED <<ufc2var, var2ufc>>
  \/ /\ Key(t) \notin DOMAIN ufc2var
     /\ Insert(Key(t))

Next == \E t \in Terms : Insert(t) \/ FindCall(t)

Spec == Init /\ [][Next]_vars
-----------------------------------------------------------------------------
(* The two maps are inverse to each other, although insert puts nothing in *)
(* either when another call has taken the constant.                        *)
MapsInverse ==
  /\ \A v \in DOMAIN var2ufc : /\ var2ufc[v] \in DOMAIN ufc2var
                               /\ ufc2var[var2ufc[v]] = v
  /\ \A k \in DOMAIN ufc2var : /\ ufc2var[k] \in DOMAIN var2ufc
                               /\ var2ufc[ufc2var[k]] = k

(* Reverse substitution: every constant handed out translates back, to a   *)
(* call it was handed out for; so to the right one unless two calls asked  *)
(* about share it.                                                         *)
TranslatesBack ==
  \A a \in answers :
    /\ a[2] \in DOMAIN var2ufc
    /\ \E b \in answers : b[2] = a[2] /\ var2ufc[a[2]] = [coef |-> 1, call |-> b[1].call]

(* A call always gets the same constant: what was substituted before and   *)
(* after other insertions agrees.                                          *)
SameConstant == \A a, b \in answers : a[1].call = b[1].call => a[2] = b[2]
=============================================================================
