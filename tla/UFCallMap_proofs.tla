-------------------------- MODULE UFCallMap_proofs --------------------------
(***************************************************************************)
(* Proofs about UFCallMap, for every set of terms: the two maps stay       *)
(* inverse to each other, a call has one constant, and a constant handed   *)
(* out can be translated back.                                             *)
(***************************************************************************)
EXTENDS UFCallMap, TLAPS

(* What the maps hold: a call of coefficient 1 is filed under the constant *)
(* made from its own text.  MapsInverse is not inductive without it: a     *)
(* call filed under another constant would keep that one when it is        *)
(* entered again, and the second map would get an entry without a match.   *)
FiledBySymbol ==
  \A k \in DOMAIN ufc2var : k = Key(k) /\ ufc2var[k] = SymUFC(k.call)

(* Every constant handed out was made from the text of the call, and is    *)
(* in the map.                                                             *)
HandedOut == \A a \in answers : a[2] = SymUFC(a[1].call) /\ a[2] \in DOMAIN var2ufc

(* Every call that is filed was asked about.                               *)
FiledWasAsked ==
  \A k \in DOMAIN ufc2var : \E b \in answers : b[2] = ufc2var[k] /\ Key(b[1]) = k

(* The inductive invariant.                                                *)
IInv == MapsInverse /\ FiledBySymbol /\ HandedOut /\ FiledWasAsked

(* The empty maps.                                                         *)
LEMMA InitIInv == Init => IInv
  BY DEF Init, IInv, MapsInverse, FiledBySymbol, HandedOut, FiledWasAsked

(* The copy has the same call, and copying it again changes nothing.       *)
LEMMA KeyCall == \A t : Key(t).call = t.call /\ Key(Key(t)) = Key(t)
  BY DEF Key

(* insert, of any term: a new call takes a free constant, and a constant   *)
(* that is taken leaves both maps as they are.                             *)
LEMMA InsertIInv ==
  ASSUME IInv, NEW t, Insert(t)
  PROVE  IInv'
<1> DEFINE k == Key(t)
           v == SymUFC(t.call)
<1>0. k.call = t.call /\ Key(k) = k /\ SymCons(t) = v
  BY KeyCall DEF SymCons
<1>a. answers' = answers \cup {<<t, v>>}
  BY <1>0 DEF Insert
<1>1. CASE v \in DOMAIN var2ufc
  <2>1. UNCHANGED <<ufc2var, var2ufc>>
    BY <1>0, <1>1 DEF Insert, Enter
  <2> QED
    BY <1>a, <1>1, <2>1 DEF IInv, MapsInverse, FiledBySymbol, HandedOut, FiledWasAsked
<1>2. CASE v \notin DOMAIN var2ufc
  <2>1. ufc2var' = Put(ufc2var, k, v) /\ var2ufc' = Put(var2ufc, v, k)
    BY <1>0, <1>2 DEF Insert, Enter
  <2>2. k \notin DOMAIN ufc2var
    BY <1>0, <1>2 DEF IInv, MapsInverse, FiledBySymbol
  <2> HIDE DEF k, v
  <2>3. /\ DOMAIN ufc2var' = DOMAIN ufc2var \cup {k}
        /\ ufc2var'[k] = v
        /\ \A x \in DOMAIN ufc2var : ufc2var'[x] = ufc2var[x]
    BY <2>1, <2>2 DEF Put
  <2>4. /\ DOMAIN var2ufc' = DOMAIN var2ufc \cup {v}
        /\ var2ufc'[v] = k
        /\ \A x \in DOMAIN var2ufc : var2ufc'[x] = var2ufc[x]
    BY <1>2, <2>1 DEF Put
  <2>5. MapsInverse'
    BY <1>2, <2>2, <2>3, <2>4 DEF IInv, MapsInverse
  <2>6. FiledBySymbol'
    <3>1. v = SymUFC(k.call)
      BY <1>0 DEF v
    <3> QED BY <1>0, <2>3, <3>1 DEF IInv, FiledBySymbol
  <2>7. HandedOut'
    <3>1. v = SymUFC(t.call)
      BY DEF v
    <3> QED BY <1>a, <2>4, <3>1 DEF IInv, HandedOut
  <2>8. FiledWasAsked'
    <3> SUFFICES ASSUME NEW x \in DOMAIN ufc2var'
                 PROVE  \E b \in answers' : b[2] = ufc2var'[x] /\ Key(b[1]) = x
      BY DEF FiledWasAsked, Key
    <3>1. CASE x = k
      <4>1. <<t, v>>[2] = ufc2var'[x] /\ Key(<<t, v>>[1]) = x
        BY <2>3, <3>1 DEF k
      <4> QED BY <1>a, <4>1
    <3>2. CASE x # k
      <4>1. PICK b \in answers : b[2] = ufc2var[x] /\ Key(b[1]) = x
        BY <2>3, <3>2 DEF IInv, FiledWasAsked
      <4> QED BY <1>a, <2>3, <3>2, <4>1
    <3> QED BY <3>1, <3>2
  <2> QED BY <2>5, <2>6, <2>7, <2>8 DEF IInv
<1> QED BY <1>1, <1>2

(* find of a call: it is in the map under its own constant, or inserted.   *)
LEMMA FindCallIInv ==
  ASSUME IInv, NEW t, FindCall(t)
  PROVE  IInv'
<1>1. CASE Key(t) \in DOMAIN ufc2var
  <2>1. /\ answers' = answers \cup {<<t, ufc2var[Key(t)]>>}
        /\ UNCHANGED <<ufc2var, var2ufc>>
    BY <1>1 DEF FindCall
  <2>2. ufc2var[Key(t)] = SymUFC(t.call) /\ ufc2var[Key(t)] \in DOMAIN var2ufc
    BY <1>1, KeyCall DEF IInv, FiledBySymbol, MapsInverse
  <2> QED
    BY <2>1, <2>2 DEF IInv, MapsInverse, FiledBySymbol, HandedOut, FiledWasAsked
<1>2. CASE Key(t) \notin DOMAIN ufc2var
  BY <1>2, InsertIInv DEF FindCall
<1> QED BY <1>1, <1>2

(* Every behaviour keeps the inductive invariant.                          *)
LEMMA Inductive == Spec => []IInv
<1>1. IInv /\ [Next]_vars => IInv'
  <2> SUFFICES ASSUME IInv, [Next]_vars PROVE IInv'
    OBVIOUS
  <2>1. CASE Next
    BY <2>1, InsertIInv, FindCallIInv DEF Next
  <2>2. CASE UNCHANGED vars
    BY <2>2 DEF vars, IInv, MapsInverse, FiledBySymbol, HandedOut, FiledWasAsked
  <2> QED BY <2>1, <2>2
<1> QED BY InitIInv, <1>1, PTL DEF Spec

(* mUFC2VarParam and mVarParam2UFC are inverse to each other whatever      *)
(* calls are inserted and found in whatever order.                         *)
THEOREM MapsCorrect == Spec => []MapsInverse
<1>1. IInv => MapsInverse
  BY DEF IInv
<1> QED BY Inductive, <1>1, PTL

(* The constant a call is replaced by does not depend on when it is asked  *)
(* for, nor on its coefficient.                                            *)
THEOREM ConstantsCorrect == Spec => []SameConstant
<1>1. IInv => SameConstant
  BY DEF IInv, HandedOut, SameConstant
<1> QED BY Inductive, <1>1, PTL

(* Every constant that replaced a call can be replaced back, by a call     *)
(* that was asked about.                                                   *)
THEOREM TranslationCorrect == Spec => []TranslatesBack
<1>1. ASSUME IInv, NEW a \in answers
      PROVE  /\ a[2] \in DOMAIN var2ufc
             /\ \E b \in answers : b[2] = a[2] /\ var2ufc[a[2]] = [coef |-> 1, call |-> b[1].call]
  <2>1. a[2] \in DOMAIN var2ufc
    BY <1>1 DEF IInv, HandedOut
  <2>2. var2ufc[a[2]] \in DOMAIN ufc2var /\ ufc2var[var2ufc[a[2]]] = a[2]
    BY <1>1, <2>1 DEF IInv, MapsInverse
  <2>3. PICK b \in answers : b[2] = a[2] /\ Key(b[1]) = var2ufc[a[2]]
    BY <1>1, <2>2 DEF IInv, FiledWasAsked
  <2> QED BY <2>1, <2>3 DEF Key
<1>2. IInv => TranslatesBack
  BY <1>1 DEF TranslatesBack
<1> QED BY Inductive, <1>2, PTL
=============================================================================
