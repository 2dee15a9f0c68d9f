------------------------- MODULE Computation_proofs -------------------------
(***************************************************************************)
(* Proofs about Computation, for any Computations, statements and bounds,  *)
(* and any capacities the vectors come to have.                            *)
(***************************************************************************)
EXTENDS Computation, TLAPS

(* A copied statement is the statement: the accesses are appended to none. *)
LEMMA CopyIsSame ==
  ASSUME NEW s \in Stmt
  PROVE  CopyStmt(s) = s
<1>1. /\ s.reads \in Seq(Access) /\ s.writes \in Seq(Access)
  BY DEF Stmt
<1>2. /\ <<>> \o s.reads = s.reads
      /\ <<>> \o s.writes = s.writes
  BY <1>1
<1>3. CopyStmt(s) = [s EXCEPT !.reads = <<>> \o s.reads, !.writes = <<>> \o s.writes]
  BY DEF CopyStmt, AssignStmt, EmptyStmt
<1>4. [s EXCEPT !.reads = s.reads, !.writes = s.writes] = s
  BY DEF Stmt
<1> QED BY <1>2, <1>3, <1>4

(* Copying every statement of a list changes nothing.                      *)
LEMMA CopiesAreSame ==
  ASSUME NEW l \in Seq(Stmt)
  PROVE  [i \in DOMAIN l |-> CopyStmt(l[i])] = l
<1>1. \A i \in DOMAIN l : l[i] \in Stmt /\ CopyStmt(l[i]) = l[i]
  BY CopyIsSame
<1> QED BY <1>1

LEMMA EmptyIsStmt == EmptyStmt \in Stmt
BY DEF EmptyStmt, Stmt

LEMMA AssignedIsStmt ==
  ASSUME NEW o \in Stmt, NEW s \in Stmt
  PROVE  AssignStmt(o, s) \in Stmt
<1>1. /\ o.reads \o s.reads \in Seq(Access)
      /\ o.writes \o s.writes \in Seq(Access)
  BY DEF Stmt
<1> QED BY <1>1 DEF AssignStmt, Stmt
-----------------------------------------------------------------------------
(* The step of each call, as the type and the invariants see it: a trap,   *)
(* or new lists of statements that come from the old ones.                 *)
LEMMA AssignedVector ==
  ASSUME NEW mine \in Seq(Stmt), NEW theirs \in Seq(Stmt), NEW room \in Nat
  PROVE  /\ AssignVector(mine, room, theirs) \in Seq(Stmt)
         /\ Len(AssignVector(mine, room, theirs)) = Len(theirs)
         /\ DOMAIN AssignVector(mine, room, theirs) = DOMAIN theirs
<1> DEFINE new(i) == IF Len(theirs) <= room /\ i <= Len(mine)
                       THEN AssignStmt(mine[i], theirs[i]) ELSE CopyStmt(theirs[i])
<1>1. ASSUME NEW i \in DOMAIN theirs
      PROVE  new(i) \in Stmt
  <2>1. theirs[i] \in Stmt /\ CopyStmt(theirs[i]) \in Stmt
    BY CopyIsSame
  <2>2. CASE Len(theirs) <= room /\ i <= Len(mine)
    <3>1. mine[i] \in Stmt
      BY <2>2
    <3> QED BY <2>1, <2>2, <3>1, AssignedIsStmt
  <2>3. CASE ~ (Len(theirs) <= room /\ i <= Len(mine))
    BY <2>1, <2>3
  <2> QED BY <2>2, <2>3
<1>2. AssignVector(mine, room, theirs) = [i \in DOMAIN theirs |-> new(i)]
  BY DEF AssignVector
<1> HIDE DEF new
<1>3. DOMAIN theirs = 1 .. Len(theirs) /\ Len(theirs) \in Nat
  OBVIOUS
<1>4. [i \in 1 .. Len(theirs) |-> new(i)] \in Seq(Stmt)
  BY <1>1, <1>3
<1> QED BY <1>2, <1>3, <1>4

(* What a call that changes a statement through a pointer leaves.          *)
LEMMA ThroughTyped ==
  ASSUME TypeOK, NEW c \in Comps, NEW p, NEW s,
         Live(c, p) => s \in Stmt, calls' \in Nat,
         Through(c, p, s)
  PROVE  TypeOK'
<1>1. CASE Trap
  BY <1>1 DEF TypeOK, Trap
<1>2. CASE /\ Live(c, p)
           /\ stmts' = [stmts EXCEPT ![c][p[2]] = s]
           /\ UNCHANGED <<spaces, cap, buf, held, crashed>>
  <2>1. stmts[c] \in Seq(Stmt) /\ p[2] \in DOMAIN stmts[c] /\ s \in Stmt
    BY <1>2 DEF TypeOK, Live
  <2>2. stmts'[c] = [stmts[c] EXCEPT ![p[2]] = s]
    BY <1>2 DEF TypeOK
  <2>3. stmts'[c] \in Seq(Stmt) /\ Len(stmts'[c]) = Len(stmts[c])
    BY <2>1, <2>2
  <2>4. \A d \in Comps : d # c => stmts'[d] = stmts[d]
    BY <1>2 DEF TypeOK
  <2>5. stmts' \in [Comps -> Seq(Stmt)]
    BY <1>2, <2>3, <2>4 DEF TypeOK
  <2> QED BY <1>2, <2>3, <2>4, <2>5 DEF TypeOK
<1> QED BY <1>1, <1>2 DEF Through

LEMMA PointeeTyped ==
  ASSUME TypeOK, NEW c \in Comps, NEW p
  PROVE  Pointee(c, p) \in Stmt
<1>1. CASE Live(c, p)
  BY <1>1 DEF Pointee, Live, TypeOK
<1>2. CASE ~ Live(c, p)
  BY <1>2, EmptyIsStmt DEF Pointee
<1> QED BY <1>1, <1>2

(* Every edit a client can make gives a statement.                         *)
LEMMA EditsAreStmts ==
  ASSUME NEW o \in Stmt
  PROVE  /\ \A code \in Codes \cup {NoCode}, space \in Sets, sched \in Relations :
              [o EXCEPT !.code = code, !.space = space, !.sched = sched] \in Stmt
         /\ \A a \in Access : /\ [o EXCEPT !.reads = Append(@, a)] \in Stmt
                              /\ [o EXCEPT !.writes = Append(@, a)] \in Stmt
<1>1. ASSUME NEW a \in Access
      PROVE  Append(o.reads, a) \in Seq(Access) /\ Append(o.writes, a) \in Seq(Access)
  BY DEF Stmt
<1> QED BY <1>1 DEF Stmt

(* The statements after addStmt, with or without a move to a new buffer.   *)
LEMMA AddedStmts ==
  ASSUME NEW l \in Seq(Stmt), NEW s \in Stmt, NEW full \in BOOLEAN
  PROVE  (IF full THEN Append([i \in DOMAIN l |-> CopyStmt(l[i])], CopyStmt(s))
          ELSE Append(l, CopyStmt(s))) = Append(l, s)
BY CopyIsSame, CopiesAreSame

(* addStmt that does not trap appends the statement.                       *)
LEMMA AddStmtAppends ==
  ASSUME TypeOK, NEW c \in Comps, NEW s \in Made, AddStmt(c, s), ~ Trap
  PROVE  /\ stmts' = [stmts EXCEPT ![c] = Append(@, s)]
         /\ Copyable(s) /\ s \in Stmt
<1>1. s \in Stmt
  BY ComputationAssumption
<1>2. stmts[c] \in Seq(Stmt)
  BY DEF TypeOK
<1>3. /\ Copyable(s)
      /\ stmts' = [stmts EXCEPT ![c] =
           IF Len(@) = cap[c] THEN Append([i \in DOMAIN @ |-> CopyStmt(@[i])], CopyStmt(s))
           ELSE Append(@, CopyStmt(s))]
  BY DEF AddStmt, MayTrap
<1> QED BY <1>1, <1>2, <1>3, AddedStmts
-----------------------------------------------------------------------------
(* Every call keeps the type invariant.                                    *)
LEMMA StepTyped ==
  ASSUME TypeOK, NEW c \in Comps, Step(c), calls' \in Nat
  PROVE  TypeOK'
<1>0. CASE Trap
  BY <1>0 DEF TypeOK, Trap
<1>1. ASSUME NEW s \in Made, AddStmt(c, s), ~ Trap
      PROVE  TypeOK'
  <2>1. /\ stmts' = [stmts EXCEPT ![c] = Append(@, s)]
        /\ s \in Stmt
    BY <1>1, AddStmtAppends
  <2>2. /\ cap' = [cap EXCEPT ![c] = IF Len(stmts[c]) = @ THEN Grown(@) ELSE @]
        /\ buf' = [buf EXCEPT ![c] = IF Len(stmts[c]) = cap[c] THEN @ + 1 ELSE @]
        /\ held' = [held EXCEPT ![c] = Kept(c) \cup {<<buf'[c], Len(stmts[c]) + 1>>}]
        /\ UNCHANGED <<spaces, crashed>>
    BY <1>1 DEF AddStmt, MayTrap
  <2>3. stmts[c] \in Seq(Stmt) /\ cap[c] \in Nat /\ Len(stmts[c]) <= cap[c] /\ buf[c] \in Nat
    BY DEF TypeOK
  <2>4. /\ Append(stmts[c], s) \in Seq(Stmt)
        /\ Len(Append(stmts[c], s)) = Len(stmts[c]) + 1
    BY <2>1, <2>3
  <2>5. stmts' \in [Comps -> Seq(Stmt)]
    BY <2>1, <2>4 DEF TypeOK
  <2>6. cap'[c] \in Nat /\ cap'[c] > Len(stmts[c])
    <3>1. cap'[c] = IF Len(stmts[c]) = cap[c] THEN Grown(cap[c]) ELSE cap[c]
      BY <2>2 DEF TypeOK
    <3> QED BY <2>3, <3>1 DEF Grown
  <2>7. \A d \in Comps : d # c => cap'[d] = cap[d]
    BY <2>2 DEF TypeOK
  <2>8. cap' \in [Comps -> Nat] /\ buf' \in [Comps -> Nat]
    <3>1. DOMAIN cap' = Comps /\ cap' = [d \in Comps |-> cap'[d]]
      BY <2>2 DEF TypeOK
    <3>2. \A d \in Comps : cap'[d] \in Nat
      BY <2>6, <2>7 DEF TypeOK
    <3>3. buf' \in [Comps -> Nat]
      BY <2>2, <2>3 DEF TypeOK
    <3> QED BY <3>1, <3>2, <3>3
  <2>9. held' \in [Comps -> SUBSET (Nat \X Nat)]
    <3>1. buf'[c] \in Nat /\ Len(stmts[c]) + 1 \in Nat
      BY <2>3, <2>8
    <3>2. Kept(c) \in SUBSET (Nat \X Nat)
      BY DEF Kept, TypeOK
    <3> QED BY <2>2, <3>1, <3>2 DEF TypeOK
  <2>10. \A d \in Comps : Len(stmts'[d]) <= cap'[d]
    BY <2>1, <2>3, <2>4, <2>6, <2>7 DEF TypeOK
  <2> QED BY <1>1, <2>2, <2>5, <2>8, <2>9, <2>10 DEF TypeOK
<1>2. ASSUME NEW i \in DOMAIN stmts[c], GetStmt(c, i)
      PROVE  TypeOK'
  <2>1. i \in Nat /\ buf[c] \in Nat
    BY DEF TypeOK
  <2> QED BY <1>2, <2>1 DEF TypeOK, GetStmt
<1>3. ASSUME NEW p \in held[c], NEW code \in Codes \cup {NoCode}, NEW space \in Sets,
             NEW sched \in Relations, SetStmt(c, p, code, space, sched)
      PROVE  TypeOK'
  BY <1>3, PointeeTyped, EditsAreStmts, ThroughTyped DEF SetStmt
<1>4. ASSUME NEW p \in held[c], NEW a \in Access, AddRead(c, p, a) \/ AddWrite(c, p, a)
      PROVE  TypeOK'
  BY <1>4, PointeeTyped, EditsAreStmts, ThroughTyped DEF AddRead, AddWrite
<1>5. ASSUME NEW p \in held[c], NEW s \in Made, Overwrite(c, p, s), ~ Trap
      PROVE  TypeOK'
  <2>1. s \in Stmt
    BY ComputationAssumption
  <2>2. AssignStmt(Pointee(c, p), s) \in Stmt
    BY <2>1, PointeeTyped, AssignedIsStmt
  <2> QED BY <1>5, <2>2, ThroughTyped DEF Overwrite, MayTrap
<1>6. ASSUME NEW d \in Spaces, AddDataSpace(c, d)
      PROVE  TypeOK'
  BY <1>6 DEF TypeOK, AddDataSpace
<1>7. ASSUME NEW d \in Comps, Assign(c, d), ~ Trap
      PROVE  TypeOK'
  <2>1. /\ spaces' = [spaces EXCEPT ![c] = spaces[d]]
        /\ stmts' = [stmts EXCEPT ![c] = AssignVector(@, cap[c], stmts[d])]
        /\ cap' = [cap EXCEPT ![c] = IF Len(stmts[d]) > @ THEN Len(stmts[d]) ELSE @]
        /\ buf' = [buf EXCEPT ![c] = IF Len(stmts[d]) > cap[c] THEN @ + 1 ELSE @]
        /\ held' = [held EXCEPT ![c] = Kept(c)]
        /\ UNCHANGED crashed
    BY <1>7 DEF Assign, MayTrap
  <2>2. /\ stmts[c] \in Seq(Stmt) /\ stmts[d] \in Seq(Stmt) /\ cap[c] \in Nat
        /\ Len(stmts[d]) \in Nat /\ buf[c] \in Nat
    BY DEF TypeOK
  <2>3. /\ AssignVector(stmts[c], cap[c], stmts[d]) \in Seq(Stmt)
        /\ Len(AssignVector(stmts[c], cap[c], stmts[d])) = Len(stmts[d])
    BY <2>2, AssignedVector
  <2>4. stmts' \in [Comps -> Seq(Stmt)]
    BY <2>1, <2>3 DEF TypeOK
  <2>5. cap' \in [Comps -> Nat] /\ buf' \in [Comps -> Nat]
    BY <2>1, <2>2 DEF TypeOK
  <2>6. held' \in [Comps -> SUBSET (Nat \X Nat)] /\ spaces' \in [Comps -> SUBSET Spaces]
    BY <2>1 DEF TypeOK, Kept
  <2>7. \A e \in Comps : Len(stmts'[e]) <= cap'[e]
    BY <2>1, <2>2, <2>3 DEF TypeOK
  <2> QED BY <2>1, <2>4, <2>5, <2>6, <2>7 DEF TypeOK
<1>8. ASSUME Clear(c)
      PROVE  TypeOK'
  <2>1. held' \in [Comps -> SUBSET (Nat \X Nat)]
    BY <1>8 DEF TypeOK, Kept, Clear
  <2>2. stmts' \in [Comps -> Seq(Stmt)] /\ Len(stmts'[c]) = 0
    BY <1>8 DEF TypeOK, Clear
  <2> QED BY <1>8, <2>1, <2>2 DEF TypeOK, Clear
<1> QED BY <1>0, <1>1, <1>2, <1>3, <1>4, <1>5, <1>6, <1>7, <1>8 DEF Step

(* TypeOK holds for every client: vectors never overflow their capacity.   *)
THEOREM TypeCorrect == Spec => []TypeOK
<1>1. Init => TypeOK
  <2> SUFFICES ASSUME Init PROVE TypeOK
    OBVIOUS
  <2>1. /\ spaces \in [Comps -> SUBSET Spaces]
        /\ cap \in [Comps -> Nat] /\ buf \in [Comps -> Nat]
        /\ held \in [Comps -> SUBSET (Nat \X Nat)]
        /\ crashed \in BOOLEAN /\ calls \in Nat
    BY DEF Init
  <2>2. \A c \in Comps : stmts[c] = <<>> /\ cap[c] = 0
    BY DEF Init
  <2>3. stmts \in [Comps -> Seq(Stmt)]
    BY DEF Init
  <2>4. ASSUME NEW c \in Comps PROVE Len(stmts[c]) <= cap[c]
    <3>1. stmts[c] = <<>> /\ cap[c] = 0 /\ Len(<<>>) = 0
      BY <2>2
    <3> QED BY <3>1
  <2> QED BY <2>1, <2>3, <2>4 DEF TypeOK
<1>2. TypeOK /\ [Next]_vars => TypeOK'
  <2>1. ASSUME TypeOK, Next
        PROVE  TypeOK'
    <3>1. calls' \in Nat
      BY <2>1 DEF Next, TypeOK
    <3> QED BY <2>1, <3>1, StepTyped DEF Next
  <2>2. ASSUME TypeOK, UNCHANGED vars
        PROVE  TypeOK'
    BY <2>2 DEF TypeOK, vars
  <2> QED BY <2>1, <2>2
<1> QED BY <1>1, <1>2, PTL DEF Spec
-----------------------------------------------------------------------------
(* What one call does to the lists of statements, for the invariants and   *)
(* the refinement below.                                                   *)
Edited(c, i, s) == /\ i \in DOMAIN stmts[c] /\ s \in Stmt
                   /\ stmts' = [stmts EXCEPT ![c][i] = s]
                   /\ UNCHANGED spaces

(* A call through a pointer either edits one statement or traps.           *)
LEMMA ThroughEdits ==
  ASSUME TypeOK, NEW c \in Comps, NEW p, NEW s \in Stmt, Through(c, p, s), ~ Trap
  PROVE  Edited(c, p[2], s) /\ Live(c, p)
BY DEF Through, Live, Edited

(* The statements of a Computation can be copied.                          *)
LEMMA NullStep ==
  ASSUME TypeOK, NothingNull, NEW c \in Comps, Step(c)
  PROVE  NothingNull'
<1>0. CASE UNCHANGED stmts
  BY <1>0 DEF NothingNull, Copyable
<1>1. ASSUME NEW i, NEW s \in Stmt, Edited(c, i, s), Copyable(s)
      PROVE  NothingNull'
  <2>1. stmts'[c] = [stmts[c] EXCEPT ![i] = s] /\ \A d \in Comps : d # c => stmts'[d] = stmts[d]
    BY <1>1 DEF Edited, TypeOK
  <2> QED BY <1>1, <2>1 DEF NothingNull, Edited, Copyable
<1>2. ASSUME NEW p, Live(c, p)
      PROVE  Copyable(Pointee(c, p)) /\ Pointee(c, p) \in Stmt
  BY <1>2, PointeeTyped DEF Pointee, Live, NothingNull, Copyable
<1>3. ASSUME NEW s \in Made, AddStmt(c, s), ~ Trap
      PROVE  NothingNull'
  <2>1. stmts' = [stmts EXCEPT ![c] = Append(@, s)] /\ Copyable(s) /\ s \in Stmt
    BY <1>3, AddStmtAppends
  <2>2. stmts[c] \in Seq(Stmt)
    BY DEF TypeOK
  <2>3. stmts'[c] = Append(stmts[c], s) /\ \A d \in Comps : d # c => stmts'[d] = stmts[d]
    BY <2>1 DEF TypeOK
  <2>4. \A i \in DOMAIN stmts'[c] : stmts'[c][i] = s \/ (i \in DOMAIN stmts[c] /\ stmts'[c][i] = stmts[c][i])
    BY <2>1, <2>2, <2>3
  <2> QED BY <2>1, <2>3, <2>4 DEF NothingNull, Copyable
<1>4. ASSUME NEW p \in held[c], NEW code \in Codes \cup {NoCode}, NEW space \in Sets,
             NEW sched \in Relations, SetStmt(c, p, code, space, sched), ~ Trap
      PROVE  NothingNull'
  <2> DEFINE new == [Pointee(c, p) EXCEPT !.code = code, !.space = space, !.sched = sched]
  <2>1. Pointee(c, p) \in Stmt /\ new \in Stmt
    BY PointeeTyped, EditsAreStmts
  <2>2. Copyable(new)
    <3>1. new.space = space /\ new.sched = sched
      BY <2>1 DEF Stmt
    <3> QED BY <3>1, ComputationAssumption DEF Copyable
  <2> HIDE DEF new
  <2>3. Through(c, p, new)
    BY <1>4 DEF SetStmt, new
  <2> QED BY <1>1, <1>4, <2>1, <2>2, <2>3, ThroughEdits
<1>5. ASSUME NEW p \in held[c], NEW a \in Access, AddRead(c, p, a) \/ AddWrite(c, p, a), ~ Trap
      PROVE  NothingNull'
  <2>1. PICK new \in { [Pointee(c, p) EXCEPT !.reads = Append(@, a)],
                       [Pointee(c, p) EXCEPT !.writes = Append(@, a)] } : Through(c, p, new)
    BY <1>5 DEF AddRead, AddWrite
  <2>2. Pointee(c, p) \in Stmt /\ new \in Stmt
    <3>1. Pointee(c, p) \in Stmt
      BY PointeeTyped
    <3>2. /\ [Pointee(c, p) EXCEPT !.reads = Append(@, a)] \in Stmt
          /\ [Pointee(c, p) EXCEPT !.writes = Append(@, a)] \in Stmt
      BY <3>1, EditsAreStmts
    <3> QED BY <2>1, <3>1, <3>2
  <2>3. Live(c, p) /\ Edited(c, p[2], new)
    BY <1>5, <2>1, <2>2, ThroughEdits
  <2>4. new.space = Pointee(c, p).space /\ new.sched = Pointee(c, p).sched
    BY <2>1, <2>2 DEF Stmt
  <2> QED BY <1>1, <1>2, <2>2, <2>3, <2>4 DEF Copyable
<1>6. ASSUME NEW p \in held[c], NEW s \in Made, Overwrite(c, p, s), ~ Trap
      PROVE  NothingNull'
  <2> DEFINE new == AssignStmt(Pointee(c, p), s)
  <2>1. s \in Stmt /\ Pointee(c, p) \in Stmt /\ new \in Stmt
    BY PointeeTyped, AssignedIsStmt, ComputationAssumption
  <2>2. new.space = s.space /\ new.sched = s.sched
    BY <2>1 DEF AssignStmt, Stmt
  <2> HIDE DEF new
  <2>3. Through(c, p, new) /\ Copyable(s)
    BY <1>6 DEF Overwrite, MayTrap, new
  <2> QED BY <1>1, <1>6, <2>1, <2>2, <2>3, ThroughEdits DEF Copyable
<1>7. ASSUME NEW d \in Comps, Assign(c, d), ~ Trap
      PROVE  NothingNull'
  <2>1. stmts' = [stmts EXCEPT ![c] = AssignVector(@, cap[c], stmts[d])]
    BY <1>7 DEF Assign, MayTrap
  <2>2. stmts[c] \in Seq(Stmt) /\ stmts[d] \in Seq(Stmt) /\ cap[c] \in Nat
    BY DEF TypeOK
  <2>3. /\ stmts'[c] = AssignVector(stmts[c], cap[c], stmts[d])
        /\ \A e \in Comps : e # c => stmts'[e] = stmts[e]
    BY <2>1 DEF TypeOK
  <2>4. ASSUME NEW i \in DOMAIN stmts'[c]
        PROVE  Copyable(stmts'[c][i])
    <3>1. i \in DOMAIN stmts[d] /\ stmts[d][i] \in Stmt /\ Copyable(stmts[d][i])
      BY <2>2, <2>3, <2>4, AssignedVector DEF NothingNull, Copyable
    <3>2. CASE Len(stmts[d]) <= cap[c] /\ i <= Len(stmts[c])
      <4>1. stmts'[c][i] = AssignStmt(stmts[c][i], stmts[d][i])
        BY <2>2, <2>3, <3>1, <3>2 DEF AssignVector
      <4>2. stmts[c][i] \in Stmt
        BY <2>2, <3>1, <3>2
      <4> QED BY <3>1, <4>1, <4>2 DEF AssignStmt, Stmt, Copyable
    <3>3. CASE ~ (Len(stmts[d]) <= cap[c] /\ i <= Len(stmts[c]))
      <4>1. stmts'[c][i] = CopyStmt(stmts[d][i])
        BY <2>2, <2>3, <3>1, <3>3 DEF AssignVector
      <4> QED BY <3>1, <4>1, CopyIsSame
    <3> QED BY <3>2, <3>3
  <2> QED BY <2>3, <2>4 DEF NothingNull, Copyable
<1>8. ASSUME Clear(c)
      PROVE  NothingNull'
  <2>1. stmts'[c] = <<>> /\ \A d \in Comps : d # c => stmts'[d] = stmts[d]
    BY <1>8 DEF Clear, TypeOK
  <2> QED BY <2>1 DEF NothingNull, Copyable
<1>9. (\E i \in DOMAIN stmts[c] : GetStmt(c, i)) \/ (\E d \in Spaces : AddDataSpace(c, d)) \/ Trap
      => UNCHANGED stmts
  BY DEF GetStmt, AddDataSpace, Trap
<1> QED BY <1>0, <1>3, <1>4, <1>5, <1>6, <1>7, <1>8, <1>9 DEF Step

(* No statement stored has a null set or schedule: after addStmt, copies,  *)
(* edits and moves, printInfo and operator== may dereference both.         *)
THEOREM NeverNull == Spec => []NothingNull
<1>1. Init => NothingNull
  BY DEF Init, NothingNull
<1>2. TypeOK /\ NothingNull /\ [Next]_vars => NothingNull'
  <2>1. ASSUME NothingNull, UNCHANGED vars
        PROVE  NothingNull'
    BY <2>1 DEF NothingNull, vars, Copyable
  <2> QED BY <2>1, NullStep DEF Next
<1> QED BY <1>1, <1>2, TypeCorrect, PTL DEF Spec
-----------------------------------------------------------------------------
(* A client that drops its pointers when it changes a vector.              *)
LEMMA LiveStep ==
  ASSUME TypeOK, HeldAreLive, MayKeep = FALSE, NEW c \in Comps, Step(c)
  PROVE  HeldAreLive'
<1> USE DEF HeldAreLive
<1>0. CASE UNCHANGED <<stmts, buf, held>>
  BY <1>0 DEF Live
<1>1. ASSUME NEW s \in Made, AddStmt(c, s), ~ Trap
      PROVE  HeldAreLive'
  <2>1. stmts' = [stmts EXCEPT ![c] = Append(@, s)]
    BY <1>1, AddStmtAppends
  <2>2. /\ buf' = [buf EXCEPT ![c] = IF Len(stmts[c]) = cap[c] THEN @ + 1 ELSE @]
        /\ held' = [held EXCEPT ![c] = Kept(c) \cup {<<buf'[c], Len(stmts[c]) + 1>>}]
    BY <1>1 DEF AddStmt, MayTrap
  <2>3. /\ held'[c] = {<<buf'[c], Len(stmts[c]) + 1>>}
        /\ \A d \in Comps : d # c => /\ held'[d] = held[d] /\ buf'[d] = buf[d]
                                     /\ stmts'[d] = stmts[d]
    BY <2>1, <2>2 DEF TypeOK, Kept
  <2>4. Len(stmts[c]) + 1 \in DOMAIN stmts'[c]
    <3>1. stmts[c] \in Seq(Stmt) /\ stmts'[c] = Append(stmts[c], s)
      BY <2>1 DEF TypeOK
    <3> QED BY <3>1
  <2> QED BY <2>3, <2>4 DEF Live
<1>2. ASSUME NEW i \in DOMAIN stmts[c], GetStmt(c, i)
      PROVE  HeldAreLive'
  <2>1. held'[c] = held[c] \cup {<<buf[c], i>>} /\ \A d \in Comps : d # c => held'[d] = held[d]
    BY <1>2 DEF GetStmt, TypeOK
  <2> QED BY <1>2, <2>1 DEF GetStmt, Live
<1>3. ASSUME NEW p, NEW s, Through(c, p, s), ~ Trap
      PROVE  HeldAreLive'
  <2>1. /\ UNCHANGED <<buf, held>>
        /\ \A d \in Comps : DOMAIN stmts'[d] = DOMAIN stmts[d]
    BY <1>3 DEF Through, TypeOK
  <2> QED BY <2>1 DEF Live
<1>4. ASSUME NEW d \in Comps, Assign(c, d), ~ Trap
      PROVE  HeldAreLive'
  <2>1. /\ held'[c] = {}
        /\ \A e \in Comps : e # c => /\ held'[e] = held[e] /\ buf'[e] = buf[e]
                                     /\ stmts'[e] = stmts[e]
    BY <1>4 DEF Assign, MayTrap, Kept, TypeOK
  <2> QED BY <2>1 DEF Live
<1>5. ASSUME Clear(c)
      PROVE  HeldAreLive'
  <2>1. /\ held'[c] = {} /\ UNCHANGED buf
        /\ \A e \in Comps : e # c => held'[e] = held[e] /\ stmts'[e] = stmts[e]
    BY <1>5 DEF Clear, Kept, TypeOK
  <2> QED BY <2>1 DEF Live
<1>6. Trap \/ (\E d \in Spaces : AddDataSpace(c, d)) => UNCHANGED <<stmts, buf, held>>
  BY DEF Trap, AddDataSpace
<1>7. ASSUME NEW p \in held[c], ~ Trap,
             \/ \E code \in Codes \cup {NoCode}, space \in Sets, sched \in Relations :
                  SetStmt(c, p, code, space, sched)
             \/ \E a \in Access : AddRead(c, p, a) \/ AddWrite(c, p, a)
             \/ \E s \in Made : Overwrite(c, p, s)
      PROVE  \E s : Through(c, p, s)
  BY <1>7 DEF SetStmt, AddRead, AddWrite, Overwrite, MayTrap
<1> QED BY <1>0, <1>1, <1>2, <1>3, <1>4, <1>5, <1>6, <1>7 DEF Step

(* The pointers that a client has are live if it drops those into a        *)
(* Computation at every addStmt, assignment and clear: a move to a new     *)
(* buffer leaves it none into the old one.                                 *)
THEOREM PointersLive == Spec => []HeldAreLive
<1>1. CASE MayKeep = TRUE
  <2>1. HeldAreLive
    BY <1>1 DEF HeldAreLive
  <2> QED BY <2>1, PTL
<1>2. CASE MayKeep = FALSE
  <2>1. Init => HeldAreLive
    BY DEF Init, HeldAreLive
  <2>2. TypeOK /\ HeldAreLive /\ [Next]_vars => HeldAreLive'
    <3>1. ASSUME HeldAreLive, UNCHANGED vars
          PROVE  HeldAreLive'
      BY <3>1 DEF HeldAreLive, Live, vars
    <3> QED BY <1>2, <3>1, LiveStep DEF Next
  <2> QED BY <2>1, <2>2, TypeCorrect, PTL DEF Spec
<1> QED BY <1>1, <1>2, ComputationAssumption
-----------------------------------------------------------------------------
(* Stmt::operator== is equality of statements that have at most one write. *)
LEMMA StmtEqualIsEqual ==
  ASSUME NEW s \in Stmt, NEW t \in Stmt, Len(s.writes) <= 1
  PROVE  StmtEqual(s, t) <=> s = t
<1>1. /\ s.reads \in Seq(Access) /\ t.reads \in Seq(Access)
      /\ s.writes \in Seq(Access) /\ t.writes \in Seq(Access)
  BY DEF Stmt
<1>2. ASSUME StmtEqual(s, t)
      PROVE  s = t
  <2>1. s.reads = t.reads
    BY <1>1, <1>2 DEF StmtEqual
  <2>2. s.writes = t.writes
    <3>1. Len(s.writes) = Len(t.writes) /\ \A i \in DOMAIN s.writes : i = 1
      BY <1>1, <1>2 DEF StmtEqual
    <3>2. \A i \in DOMAIN s.writes : s.writes[i] = t.writes[i]
      <4>1. 1 % 2 = 1
        OBVIOUS
      <4> QED BY <1>2, <3>1, <4>1 DEF StmtEqual
    <3> QED BY <1>1, <3>1, <3>2
  <2> QED BY <1>2, <2>1, <2>2 DEF StmtEqual, Stmt
<1>3. s = t => StmtEqual(s, t)
  BY DEF StmtEqual
<1> QED BY <1>2, <1>3

(* The loop of operator== that skips every other write cannot be noticed   *)
(* while statements have one write each: Computation::operator== is then   *)
(* equality of what the two Computations hold.                             *)
THEOREM EqualityExact == Spec => []EqualIsEqual
<1>1. TypeOK => EqualIsEqual
  <2> SUFFICES ASSUME TypeOK, NEW c \in Comps, NEW d \in Comps, OneWrite(c), OneWrite(d)
               PROVE  Equal(c, d) <=> spaces[c] = spaces[d] /\ stmts[c] = stmts[d]
    BY DEF EqualIsEqual
  <2>1. stmts[c] \in Seq(Stmt) /\ stmts[d] \in Seq(Stmt)
    BY DEF TypeOK
  <2>2. ASSUME Len(stmts[c]) = Len(stmts[d]), NEW i \in DOMAIN stmts[c]
        PROVE  StmtEqual(stmts[c][i], stmts[d][i]) <=> stmts[c][i] = stmts[d][i]
    <3>1. stmts[c][i] \in Stmt /\ stmts[d][i] \in Stmt /\ Len(stmts[c][i].writes) <= 1
      BY <2>1, <2>2 DEF OneWrite
    <3> QED BY <3>1, StmtEqualIsEqual
  <2> QED BY <2>1, <2>2 DEF Equal
<1> QED BY <1>1, TypeCorrect, PTL
-----------------------------------------------------------------------------
(* Assignment to a Computation without statements copies the list, for     *)
(* every capacity.                                                         *)
LEMMA AssignCopies ==
  ASSUME TypeOK, MayOverwrite = FALSE, NEW c \in Comps, NEW d \in Comps,
         Assign(c, d), ~ Trap
  PROVE  /\ stmts' = [stmts EXCEPT ![c] = stmts[d]]
         /\ spaces' = [spaces EXCEPT ![c] = spaces[d]]
         /\ UNCHANGED crashed /\ c # d
<1>1. /\ stmts' = [stmts EXCEPT ![c] = AssignVector(@, cap[c], stmts[d])]
      /\ stmts[c] = <<>>
      /\ spaces' = [spaces EXCEPT ![c] = spaces[d]]
      /\ UNCHANGED crashed /\ c # d
  BY DEF Assign, MayTrap
<1>2. stmts[d] \in Seq(Stmt)
  BY DEF TypeOK
<1>3. \A i \in DOMAIN stmts[d] : ~ i <= 0
  BY <1>2
<1>4. AssignVector(<<>>, cap[c], stmts[d]) = [i \in DOMAIN stmts[d] |-> CopyStmt(stmts[d][i])]
  <2>1. Len(<<>>) = 0
    OBVIOUS
  <2> QED BY <1>3, <2>1 DEF AssignVector
<1> QED BY <1>1, <1>2, <1>4, CopiesAreSame

(* A copy equals its original and is as complete, for a client that        *)
(* assigns to Computations without statements only.                        *)
THEOREM CopiesCorrect == MayOverwrite = FALSE => (Spec => CopiesAgree)
<1> SUFFICES ASSUME MayOverwrite = FALSE PROVE Spec => CopiesAgree
  OBVIOUS
<1>1. ASSUME TypeOK, NEW c \in Comps, NEW d \in Comps, Assign(c, d), ~ crashed'
      PROVE  Equal(c, d)' /\ IsComplete(c)' = IsComplete(d)
  <2>1. ~ Trap
    BY <1>1 DEF Trap
  <2>2. /\ stmts' = [stmts EXCEPT ![c] = stmts[d]]
        /\ spaces' = [spaces EXCEPT ![c] = spaces[d]] /\ c # d
    BY <1>1, <2>1, AssignCopies
  <2>3. /\ stmts'[c] = stmts[d] /\ stmts'[d] = stmts[d]
        /\ spaces'[c] = spaces[d] /\ spaces'[d] = spaces[d]
    BY <1>1, <2>2 DEF TypeOK
  <2>4. Equal(c, d)'
    BY <2>3 DEF Equal, StmtEqual
  <2>5. IsComplete(c)' = IsComplete(d)
    BY <2>3 DEF IsComplete
  <2> QED BY <2>4, <2>5
<1>2. TypeOK /\ [Next]_vars =>
        [\A c, d \in Comps : Assign(c, d) /\ ~ crashed' =>
           Equal(c, d)' /\ IsComplete(c)' = IsComplete(d)]_vars
  BY <1>1
<1> QED BY <1>2, TypeCorrect, PTL DEF Spec, CopiesAgree
-----------------------------------------------------------------------------
(* An edit of one statement is EditStmt of StatementLists.                 *)
LEMMA EditRefines ==
  ASSUME TypeOK, NEW c \in Comps, NEW i, NEW s, Edited(c, i, s)
  PROVE  Lists!Next
<1>1. i \in DOMAIN stmts[c] /\ stmts'[c] = [stmts[c] EXCEPT ![i] = s]
  BY DEF Edited, TypeOK
<1>2. i \in DOMAIN stmts'[c] /\ stmts'[c][i] = s
  BY <1>1
<1>3. s \in Lists!Found(c) /\ Lists!EditStmt(c, i, s)
  BY <1>1, <1>2 DEF Edited, Lists!Found, Lists!EditStmt
<1> QED BY <1>1, <1>3 DEF Lists!Next

(* Every call is an operation of StatementLists or changes nothing there.  *)
LEMMA StepRefines ==
  ASSUME TypeOK, MayOverwrite = FALSE, NEW c \in Comps, Step(c)
  PROVE  [Lists!Next]_(Lists!vars)
<1>0. CASE UNCHANGED <<stmts, spaces>>
  BY <1>0 DEF Lists!vars
<1>1. ASSUME NEW s \in Made, AddStmt(c, s), ~ Trap
      PROVE  Lists!Next
  <2>1. stmts' = [stmts EXCEPT ![c] = Append(@, s)] /\ s \in Stmt
    BY <1>1, AddStmtAppends
  <2>2. UNCHANGED spaces
    BY <1>1 DEF AddStmt, MayTrap
  <2>3. stmts[c] \in Seq(Stmt) /\ stmts'[c] = Append(stmts[c], s)
    BY <2>1 DEF TypeOK
  <2>4. Len(stmts[c]) + 1 \in DOMAIN stmts'[c] /\ stmts'[c][Len(stmts[c]) + 1] = s
    BY <2>1, <2>3
  <2>5. s \in Lists!Found(c) /\ Lists!AddStmt(c, s)
    BY <2>1, <2>2, <2>4 DEF Lists!Found, Lists!AddStmt
  <2> QED BY <2>5 DEF Lists!Next
<1>2. ASSUME NEW p \in held[c], NEW s \in Stmt, Through(c, p, s), ~ Trap
      PROVE  Lists!Next
  BY <1>2, ThroughEdits, EditRefines
<1>3. ASSUME NEW p \in held[c], ~ Trap,
             \/ \E code \in Codes \cup {NoCode}, space \in Sets, sched \in Relations :
                  SetStmt(c, p, code, space, sched)
             \/ \E a \in Access : AddRead(c, p, a) \/ AddWrite(c, p, a)
             \/ \E s \in Made : Overwrite(c, p, s)
      PROVE  \E s \in Stmt : Through(c, p, s)
  <2>1. Pointee(c, p) \in Stmt
    BY PointeeTyped
  <2>2. CASE \E code \in Codes \cup {NoCode}, space \in Sets, sched \in Relations :
               SetStmt(c, p, code, space, sched)
    BY <2>1, <2>2, EditsAreStmts DEF SetStmt
  <2>3. CASE \E a \in Access : AddRead(c, p, a) \/ AddWrite(c, p, a)
    BY <2>1, <2>3, EditsAreStmts DEF AddRead, AddWrite
  <2>4. CASE \E s \in Made : Overwrite(c, p, s)
    <3>1. PICK s \in Made : Overwrite(c, p, s)
      BY <2>4
    <3>2. s \in Stmt /\ AssignStmt(Pointee(c, p), s) \in Stmt
      BY <2>1, AssignedIsStmt, ComputationAssumption
    <3> QED BY <1>3, <3>1, <3>2 DEF Overwrite, MayTrap
  <2> QED BY <1>3, <2>2, <2>3, <2>4
<1>4. ASSUME NEW d \in Spaces, AddDataSpace(c, d)
      PROVE  Lists!Next
  <2>1. Lists!AddDataSpace(c, d)
    BY <1>4 DEF AddDataSpace, Lists!AddDataSpace
  <2> QED BY <2>1 DEF Lists!Next
<1>5. ASSUME NEW d \in Comps, Assign(c, d), ~ Trap
      PROVE  Lists!Next
  <2>1. Lists!Assign(c, d)
    BY <1>5, AssignCopies DEF Lists!Assign
  <2> QED BY <2>1 DEF Lists!Next
<1>6. ASSUME Clear(c)
      PROVE  Lists!Next
  <2>1. Lists!Clear(c)
    BY <1>6 DEF Clear, Lists!Clear
  <2> QED BY <2>1 DEF Lists!Next
<1>7. (\E i \in DOMAIN stmts[c] : GetStmt(c, i)) \/ Trap => UNCHANGED <<stmts, spaces>>
  BY DEF GetStmt, Trap
<1> QED BY <1>0, <1>1, <1>2, <1>3, <1>4, <1>5, <1>6, <1>7 DEF Step

(* Computations are values for every client that assigns only to what has  *)
(* no contents yet: whatever buffers are reused, moved to or left, and     *)
(* even if it traps, each call is the operation StatementLists says.       *)
THEOREM ImplementsLists == MayOverwrite = FALSE => (Spec => IsValue)
<1> SUFFICES ASSUME MayOverwrite = FALSE PROVE Spec => IsValue
  OBVIOUS
<1>1. Init => Lists!Init
  BY DEF Init, Lists!Init
<1>2. TypeOK /\ [Next]_vars => [Lists!Next]_(Lists!vars)
  <2>1. UNCHANGED vars => UNCHANGED Lists!vars
    BY DEF vars, Lists!vars
  <2> QED BY <2>1, StepRefines DEF Next
<1> QED BY <1>1, <1>2, TypeCorrect, PTL DEF Spec, IsValue, Lists!Spec
=============================================================================
