---------------------------- MODULE Computation ----------------------------
(***************************************************************************)
(* src/computation/Computation.cc: class Computation, a std::vector of     *)
(* Stmt and a set of data spaces, and class Stmt.  The state is several    *)
(* Computations that a client fills, copies and compares.                  *)
(*                                                                         *)
(* Stmt::operator= appends to the accesses there are, so what copying a    *)
(* Computation does depends on which elements std::vector assigns and      *)
(* which it constructs, that is on capacities; and addStmt hands out       *)
(* pointers that die when the vector moves to a new buffer.  Both are kept *)
(* in the model.  Sets and relations are opaque values; member env, which  *)
(* no operation of the class touches, is left out.                         *)
(***************************************************************************)
EXTENDS Sequences, Integers

CONSTANTS
  Comps,        \* the Computation objects
  Codes,        \* source codes of statements
  Sets,         \* iteration spaces
  Relations,    \* execution schedules and access relations
  Spaces,       \* names of data spaces
  NoCode,       \* the empty source code
  Null,         \* a null unique_ptr
  Made,         \* the Stmts that a client constructs and adds
  MaxStmts,     \* bound: statements in a Computation
  MaxAccesses,  \* bound: reads, and writes, of a statement
  MaxCalls,     \* bound: calls a client makes
  MayOverwrite, \* may a client assign to what already has contents?
  MayKeep,      \* may a client keep pointers when it changes the vector?
  Optimized     \* is it a build in which operator= without a return may trap?

Access == Spaces \X Relations
Stmt == [code : Codes \cup {NoCode}, space : Sets \cup {Null},
         sched : Relations \cup {Null}, reads : Seq(Access), writes : Seq(Access)]

ASSUME ComputationAssumption ==
  /\ MaxStmts \in Nat /\ MaxAccesses \in Nat /\ MaxCalls \in Nat
  /\ MayOverwrite \in BOOLEAN /\ MayKeep \in BOOLEAN /\ Optimized \in BOOLEAN
  /\ NoCode \notin Codes /\ Null \notin Sets /\ Null \notin Relations
  /\ \A s \in Made : s \in Stmt

VARIABLES
  spaces,   \* spaces[c]: dataSpaces
  stmts,    \* stmts[c]: the elements of the vector
  cap,      \* cap[c]: the vector's capacity
  buf,      \* buf[c]: which buffer the vector is in, counted as it moves
  held,     \* held[c]: pointers the client has, <<buffer, index>>
  crashed,  \* the program ended in a trap
  calls     \* history: the number of calls

vars == <<spaces, stmts, cap, buf, held, crashed, calls>>

Init == /\ spaces = [c \in Comps |-> {}]
        /\ stmts = [c \in Comps |-> <<>>]
        /\ cap = [c \in Comps |-> 0]
        /\ buf = [c \in Comps |-> 0]
        /\ held = [c \in Comps |-> {}]
        /\ crashed = FALSE
        /\ calls = 0
-----------------------------------------------------------------------------
(* Mutated form: a copy that skips null pointers.                          *)
Copyable_Tolerant(s) == TRUE

(* Copying a Stmt dereferences both pointers of the original.              *)
Copyable(s) == s.space # Null /\ s.sched # Null

(* Mutated form: the writes are not copied.                                *)
AssignStmt_LosesWrites(old, s) == [s EXCEPT !.reads = old.reads \o @, !.writes = old.writes]

(* Stmt::operator=: the accesses are pushed behind those there are.        *)
AssignStmt(old, s) == [s EXCEPT !.reads = old.reads \o @, !.writes = old.writes \o @]

(* The copy constructor assigns to a statement without accesses.           *)
EmptyStmt == [code |-> NoCode, space |-> Null, sched |-> Null,
              reads |-> <<>>, writes |-> <<>>]
CopyStmt(s) == AssignStmt(EmptyStmt, s)

(* vector::operator=, external: into a new buffer when the capacity is too *)
(* small, else the elements there are are assigned and the rest is         *)
(* constructed.                                                            *)
AssignVector(mine, room, theirs) ==
  [i \in DOMAIN theirs |->
     IF Len(theirs) <= room /\ i <= Len(mine) THEN AssignStmt(mine[i], theirs[i])
     ELSE CopyStmt(theirs[i])]

(* Mutated form: the capacity does not grow.                               *)
Grown_Same(n) == n

(* vector::push_back, external: a full vector moves to a buffer of twice   *)
(* the size.                                                               *)
Grown(n) == IF n = 0 THEN 1 ELSE 2 * n
-----------------------------------------------------------------------------
(* A trap ends the program.                                                *)
Trap == crashed' = TRUE /\ UNCHANGED <<spaces, stmts, cap, buf, held>>

(* Flowing off the end of an operator= that should return a reference.     *)
MayTrap == Optimized /\ Trap

(* What a client keeps of its pointers into c when c's vector changes.     *)
Kept(c) == IF MayKeep THEN held[c] ELSE {}

(* Mutated form: the pointer is taken before push_back.                    *)
AddStmt_EarlyPointer(c, s) ==
  /\ ~ crashed /\ Len(stmts[c]) < MaxStmts
  /\ \/ ~ Copyable(s) /\ Trap
     \/ MayTrap
     \/ /\ Copyable(s)
        /\ stmts' = [stmts EXCEPT ![c] = Append([i \in DOMAIN @ |-> CopyStmt(@[i])], CopyStmt(s))]
        /\ cap' = [cap EXCEPT ![c] = IF Len(stmts[c]) = @ THEN Grown(@) ELSE @]
        /\ buf' = [buf EXCEPT ![c] = IF Len(stmts[c]) = cap[c] THEN @ + 1 ELSE @]
        /\ held' = [held EXCEPT ![c] = {<<buf[c], Len(stmts[c]) + 1>>}]
        /\ UNCHANGED <<spaces, crashed>>

(* Computation::addStmt.  A move to a new buffer copies every statement.   *)
AddStmt(c, s) ==
  /\ ~ crashed /\ Len(stmts[c]) < MaxStmts
  /\ \/ ~ Copyable(s) /\ Trap
     \/ MayTrap
     \/ /\ Copyable(s)
        /\ stmts' = [stmts EXCEPT ![c] =
             IF Len(@) = cap[c] THEN Append([i \in DOMAIN @ |-> CopyStmt(@[i])], CopyStmt(s))
             ELSE Append(@, CopyStmt(s))]
        /\ cap' = [cap EXCEPT ![c] = IF Len(stmts[c]) = @ THEN Grown(@) ELSE @]
        /\ buf' = [buf EXCEPT ![c] = IF Len(stmts[c]) = cap[c] THEN @ + 1 ELSE @]
        /\ held' = [held EXCEPT ![c] = Kept(c) \cup {<<buf'[c], Len(stmts[c]) + 1>>}]
        /\ UNCHANGED <<spaces, crashed>>

(* Computation::getStmt, of an index there is (vector::at throws else).    *)
GetStmt(c, i) == /\ ~ crashed /\ i \in DOMAIN stmts[c]
                 /\ held' = [held EXCEPT ![c] = @ \cup {<<buf[c], i>>}]
                 /\ UNCHANGED <<spaces, stmts, cap, buf, crashed>>

(* A pointer is live while the vector is in its buffer and as long.        *)
Live(c, p) == p[1] = buf[c] /\ p[2] \in DOMAIN stmts[c]

(* A change of a statement through a pointer.                              *)
Through(c, p, s) ==
  /\ p \in held[c]
  /\ \/ /\ Live(c, p)
        /\ stmts' = [stmts EXCEPT ![c][p[2]] = s]
        /\ UNCHANGED <<spaces, cap, buf, held, crashed>>
     \/ ~ Live(c, p) /\ Trap

Pointee(c, p) == IF Live(c, p) THEN stmts[c][p[2]] ELSE EmptyStmt

(* Stmt's setters, addRead and addWrite, and its operator= from a Stmt the *)
(* client made, through a pointer.                                         *)
SetStmt(c, p, code, space, sched) ==
  /\ ~ crashed
  /\ Through(c, p, [Pointee(c, p) EXCEPT !.code = code, !.space = space, !.sched = sched])
AddRead(c, p, a) ==
  /\ ~ crashed /\ Len(Pointee(c, p).reads) < MaxAccesses
  /\ Through(c, p, [Pointee(c, p) EXCEPT !.reads = Append(@, a)])
AddWrite(c, p, a) ==
  /\ ~ crashed /\ Len(Pointee(c, p).writes) < MaxAccesses
  /\ Through(c, p, [Pointee(c, p) EXCEPT !.writes = Append(@, a)])
Overwrite(c, p, s) ==
  /\ ~ crashed
  /\ MayOverwrite \/ Pointee(c, p).reads \o Pointee(c, p).writes = <<>>
  /\ \/ Copyable(s) /\ Through(c, p, AssignStmt(Pointee(c, p), s))
     \/ ~ Copyable(s) /\ Trap
     \/ MayTrap

(* Computation::addDataSpace.                                              *)
AddDataSpace(c, d) == /\ ~ crashed
                      /\ spaces' = [spaces EXCEPT ![c] = @ \cup {d}]
                      /\ UNCHANGED <<stmts, cap, buf, held, crashed>>

(* Computation::operator= and the copy constructor, which assigns to a new *)
(* Computation.  Neither container is changed by self-assignment.          *)
Assign(c, d) ==
  /\ ~ crashed /\ c # d
  /\ MayOverwrite \/ stmts[c] = <<>>
  /\ \/ MayTrap
     \/ /\ spaces' = [spaces EXCEPT ![c] = spaces[d]]
        /\ stmts' = [stmts EXCEPT ![c] = AssignVector(@, cap[c], stmts[d])]
        /\ cap' = [cap EXCEPT ![c] = IF Len(stmts[d]) > @ THEN Len(stmts[d]) ELSE @]
        /\ buf' = [buf EXCEPT ![c] = IF Len(stmts[d]) > cap[c] THEN @ + 1 ELSE @]
        /\ held' = [held EXCEPT ![c] = Kept(c)]
        /\ UNCHANGED crashed

(* Computation::clear keeps the vector's buffer.                           *)
Clear(c) == /\ ~ crashed
            /\ spaces' = [spaces EXCEPT ![c] = {}]
            /\ stmts' = [stmts EXCEPT ![c] = <<>>]
            /\ held' = [held EXCEPT ![c] = Kept(c)]
            /\ UNCHANGED <<cap, buf, crashed>>

Step(c) ==
  \/ \E s \in Made : AddStmt(c, s)
  \/ \E i \in DOMAIN stmts[c] : GetStmt(c, i)
  \/ \E p \in held[c] :
       \/ \E code \in Codes \cup {NoCode}, space \in Sets, sched \in Relations :
            SetStmt(c, p, code, space, sched)
       \/ \E a \in Access : AddRead(c, p, a) \/ AddWrite(c, p, a)
       \/ \E s \in Made : Overwrite(c, p, s)
  \/ \E d \in Spaces : AddDataSpace(c, d)
  \/ \E d \in Comps : Assign(c, d)
  \/ Clear(c)

Next == /\ calls < MaxCalls /\ calls' = calls + 1
        /\ \E c \in Comps : Step(c)

Spec == Init /\ [][Next]_vars
-----------------------------------------------------------------------------
(* Mutated form: the accesses are only counted.                            *)
StmtEqual_Counts(s, t) ==
  /\ s.code = t.code /\ s.space = t.space /\ s.sched = t.sched
  /\ Len(s.reads) = Len(t.reads) /\ Len(s.writes) = Len(t.writes)

(* Stmt::operator==.  The loop over the writes increments its counter in   *)
(* its header and in its body: it looks at every other one.                *)
StmtEqual(s, t) ==
  /\ s.code = t.code /\ s.space = t.space /\ s.sched = t.sched
  /\ Len(s.reads) = Len(t.reads) /\ Len(s.writes) = Len(t.writes)
  /\ \A i \in DOMAIN s.reads : s.reads[i] = t.reads[i]
  /\ \A i \in DOMAIN s.writes : i % 2 = 1 => s.writes[i] = t.writes[i]

(* Computation::operator==.                                                *)
Equal(c, d) ==
  /\ spaces[c] = spaces[d] /\ Len(stmts[c]) = Len(stmts[d])
  /\ \A i \in DOMAIN stmts[c] : StmtEqual(stmts[c][i], stmts[d][i])

(* Stmt::isComplete.                                                       *)
StmtComplete(s) == s.code # NoCode /\ s.space # Null /\ s.sched # Null
SpacesOf(accesses) == {accesses[i][1] : i \in DOMAIN accesses}

(* Computation::isComplete: the data spaces are those that are accessed.   *)
IsComplete(c) ==
  /\ \A i \in DOMAIN stmts[c] : StmtComplete(stmts[c][i])
  /\ spaces[c] = UNION {SpacesOf(stmts[c][i].reads) \cup SpacesOf(stmts[c][i].writes) :
                        i \in DOMAIN stmts[c]}
-----------------------------------------------------------------------------
(* Type invariant; the elements fit in the vector's buffer.                *)
TypeOK == /\ spaces \in [Comps -> SUBSET Spaces]
          /\ stmts \in [Comps -> Seq(Stmt)]
          /\ cap \in [Comps -> Nat] /\ buf \in [Comps -> Nat]
          /\ held \in [Comps -> SUBSET (Nat \X Nat)]
          /\ crashed \in BOOLEAN /\ calls \in Nat
          /\ \A c \in Comps : Len(stmts[c]) <= cap[c]

(* No statement of a Computation has a null set or schedule, however it    *)
(* got there: what printInfo and operator== dereference without a check,   *)
(* and isComplete checks in vain.                                          *)
NothingNull == \A c \in Comps : \A i \in DOMAIN stmts[c] :
                 stmts[c][i].space # Null /\ stmts[c][i].sched # Null

(* A client that drops its pointers into a Computation when it calls       *)
(* addStmt, clear or assigns to it never has a dangling one.               *)
HeldAreLive == MayKeep \/ \A c \in Comps : \A p \in held[c] : Live(c, p)

(* operator== tells different Computations apart, and never tells equal    *)
(* ones apart, while no statement has a second write.                      *)
OneWrite(c) == \A i \in DOMAIN stmts[c] : Len(stmts[c][i].writes) <= 1
EqualIsEqual ==
  \A c, d \in Comps : OneWrite(c) /\ OneWrite(d) =>
    (Equal(c, d) <=> spaces[c] = spaces[d] /\ stmts[c] = stmts[d])

(* A copy is equal to its original and as complete as it: no access is     *)
(* lost or doubled when vectors move, are reused or are shortened.         *)
CopiesAgree ==
  [][ \A c, d \in Comps : Assign(c, d) /\ ~ crashed' =>
        Equal(c, d)' /\ IsComplete(c)' = IsComplete(d) ]_vars

(* Computations are values, as StatementLists says.                        *)
Lists == INSTANCE StatementLists WITH list <- stmts, declared <- spaces
IsValue == Lists!Spec
=============================================================================
