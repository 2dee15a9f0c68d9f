----------------------------- MODULE UnionFind -----------------------------
(***************************************************************************)
(* src/util/UnionFindUniverse.cc: union by size with path compression over *)
(* the elements 0 .. N-1.                                                  *)
(*                                                                         *)
(* Find is recursive in the code (do_FIND).  Here each call and each       *)
(* return of do_FIND is a step: "path" is the call stack (the frames whose *)
(* assignment to Parent is still to come), "cur" is the argument of the    *)
(* innermost call while pc = "descend" and its result while pc = "unwind". *)
(* So the model tells a Find that returns from one that recurses forever.  *)
(*                                                                         *)
(* The client follows UnionFindUniverse.h: it calls Union only with names  *)
(* Find returned to it ("known") that no later Union retired.              *)
(***************************************************************************)
EXTENDS Integers, Sequences, FiniteSets

CONSTANTS
  N,          \* highWaterMark, the number of elements
  MaxFrames,  \* bound: do_FIND frames before the C stack is exhausted
  MayRename   \* may a client Union(i, i, k) with k # i, to rename a set?

ASSUME NAssumption == N \in Nat \ {0}
ASSUME MaxFramesAssumption == MaxFrames \in Nat /\ MaxFrames >= N
ASSUME MayRenameAssumption == MayRename \in BOOLEAN

Elem == 0 .. N - 1
NIL == -1

VARIABLES
  parent, name, count, root,   \* the four fields of UnionFindElement
  pc, path, cur,               \* the Find in progress
  known,                       \* set names the client holds
  rep                          \* history: rep[v], the root of v's tree

elements == <<parent, name, count, root>>
call == <<pc, path, cur>>
vars == <<elements, call, known, rep>>

(* Mutated form: names from 1.                                             *)
Init_NamesFromOne ==
  /\ parent = [i \in Elem |-> NIL]
  /\ name = [i \in Elem |-> i + 1]
  /\ count = [i \in Elem |-> 1] /\ root = [i \in Elem |-> i]
  /\ pc = "idle" /\ path = <<>> /\ cur = NIL /\ known = {}
  /\ rep = [i \in Elem |-> i]

Init == /\ parent = [i \in Elem |-> NIL]
        /\ name = [i \in Elem |-> i]
        /\ count = [i \in Elem |-> 1]
        /\ root = [i \in Elem |-> i]
        /\ pc = "idle" /\ path = <<>> /\ cur = NIL
        /\ known = {}
        /\ rep = [i \in Elem |-> i]
-----------------------------------------------------------------------------
(* Find(v) on an element without a parent answers Name(v) at once.         *)
FindAtRoot(v) ==
  /\ pc = "idle" /\ parent[v] = NIL
  /\ known' = known \cup {name[v]}
  /\ UNCHANGED <<elements, call, rep>>

(* Find(v) below a root calls do_FIND(Parent(v)).                          *)
FindCall(v) ==
  /\ pc = "idle" /\ parent[v] # NIL
  /\ pc' = "descend" /\ path' = <<v>> /\ cur' = parent[v]
  /\ UNCHANGED <<elements, known, rep>>

(* do_FIND(cur) below a root: one more frame, if the stack has room.       *)
DoFindRecurse ==
  /\ pc = "descend" /\ parent[cur] # NIL
  /\ Len(path) < MaxFrames
  /\ path' = Append(path, cur) /\ cur' = parent[cur]
  /\ UNCHANGED <<elements, pc, known, rep>>

(* do_FIND(cur) at a root returns cur.                                     *)
DoFindAtRoot ==
  /\ pc = "descend" /\ parent[cur] = NIL
  /\ pc' = "unwind"
  /\ UNCHANGED <<elements, path, cur, known, rep>>

(* A do_FIND frame compresses: Parent(v) = <the result>, and returns it.   *)
DoFindCompress ==
  /\ pc = "unwind" /\ Len(path) > 1
  /\ parent' = [parent EXCEPT ![path[Len(path)]] = cur]
  /\ path' = SubSeq(path, 1, Len(path) - 1)
  /\ UNCHANGED <<name, count, root, pc, cur, known, rep>>

(* Find's own frame: Parent(v) = <the result>; return Name(Parent(v)).     *)
FindReturn ==
  /\ pc = "unwind" /\ Len(path) = 1
  /\ parent' = [parent EXCEPT ![path[1]] = cur]
  /\ known' = known \cup {name[cur]}
  /\ pc' = "idle" /\ path' = <<>> /\ cur' = NIL
  /\ UNCHANGED <<name, count, root, rep>>
-----------------------------------------------------------------------------
(* A name a client may pass as k: one of the two sets' own, or one no set  *)
(* has ("merge set i with set j and name it k").                           *)
MayName(i, j, k) ==
  k \in {i, j} \/ \A v \in Elem : parent[v] = NIL => name[v] # k

(* Mutated forms of Link: the name is not set, or one element is counted.  *)
Link_NoName(small, large, k) ==
  /\ parent' = [parent EXCEPT ![small] = large]
  /\ count' = [count EXCEPT ![large] = @ + count[small]]
  /\ root' = [root EXCEPT ![k] = large]
  /\ rep' = [v \in Elem |-> IF rep[v] = small THEN large ELSE rep[v]]
  /\ UNCHANGED name
Link_CountsOne(small, large, k) ==
  /\ parent' = [parent EXCEPT ![small] = large]
  /\ count' = [count EXCEPT ![large] = @ + 1]
  /\ name' = [name EXCEPT ![large] = k]
  /\ root' = [root EXCEPT ![k] = large]
  /\ rep' = [v \in Elem |-> IF rep[v] = small THEN large ELSE rep[v]]

(* Parent(small) = large and what follows it in Union.                     *)
Link(small, large, k) ==
  /\ parent' = [parent EXCEPT ![small] = large]
  /\ count' = [count EXCEPT ![large] = @ + count[small]]
  /\ name' = [name EXCEPT ![large] = k]
  /\ root' = [root EXCEPT ![k] = large]
  /\ rep' = [v \in Elem |-> IF rep[v] = small THEN large ELSE rep[v]]

(* Mutated forms: the counts are not compared, or the names are taken for  *)
(* the roots.                                                              *)
MergeSets_AlwaysUnderJ(i, j, k) == Link(root[i], root[j], k)
MergeSets_NamesAsRoots(i, j, k) ==
  IF count[i] > count[j] THEN Link(j, i, k) ELSE Link(i, j, k)

(* The set with the larger count absorbs the other; on a tie, j's does.    *)
MergeSets(i, j, k) ==
  IF count[root[i]] > count[root[j]]
    THEN Link(root[j], root[i], k)
    ELSE Link(root[i], root[j], k)

(* Mutated form: without the early return.                                 *)
Union_NoSelfCheck(i, j, k) ==
  /\ pc = "idle"
  /\ i \in known /\ j \in known /\ MayName(i, j, k)
  /\ i = j => k = i \/ MayRename
  /\ MergeSets(i, j, k)
  /\ known' = (known \ {i, j}) \cup {k}
  /\ UNCHANGED call

Union(i, j, k) ==
  /\ pc = "idle"
  /\ i \in known /\ j \in known /\ MayName(i, j, k)
  /\ i = j => k = i \/ MayRename
  /\ IF i = j /\ j = k
       THEN UNCHANGED <<elements, rep>>
       ELSE MergeSets(i, j, k)
  /\ known' = (known \ {i, j}) \cup {k}
  /\ UNCHANGED call
-----------------------------------------------------------------------------
(* What is left to run of a Find that has started.                         *)
FindStep == DoFindRecurse \/ DoFindAtRoot \/ DoFindCompress \/ FindReturn

Next == \/ \E v \in Elem : FindAtRoot(v) \/ FindCall(v)
        \/ FindStep
        \/ \E i, j, k \in Elem : Union(i, j, k)

Spec == Init /\ [][Next]_vars

(* A C++ call runs until it returns: a Find in progress keeps taking       *)
(* steps.  Nothing obliges the client to call.                             *)
FairSpec == Spec /\ WF_vars(FindStep)
-----------------------------------------------------------------------------
(* Type invariant.                                                         *)
TypeOK == /\ parent \in [Elem -> Elem \cup {NIL}]
          /\ name \in [Elem -> Elem]
          /\ count \in [Elem -> Nat \ {0}]
          /\ root \in [Elem -> Elem]
          /\ pc \in {"idle", "descend", "unwind"}
          /\ path \in Seq(Elem)
          /\ cur \in Elem \cup {NIL}
          /\ known \subseteq Elem
          /\ rep \in [Elem -> Elem]

(* Union by size: an element's count at least doubled when it was put      *)
(* under its parent, and compression only moves it under a heavier one.    *)
(* This is why the parent links never close a cycle.                       *)
CountsDouble == \A v \in Elem : parent[v] # NIL =>
                  count[parent[v]] >= 2 * count[v]

(* Every element is in the tree of its class: compression (Parent(v) =     *)
(* do_FIND(...)) and linking never move an element into another set.       *)
TreeOfClass == \A v \in Elem :
                 /\ parent[v] = NIL <=> rep[v] = v
                 /\ parent[v] # NIL => rep[parent[v]] = rep[v]
                 /\ parent[rep[v]] = NIL

(* Name and Root are inverse on the current sets, so distinct sets have    *)
(* distinct names and Union(Find(a), Find(b), k) gets at their roots.      *)
NamesAreRoots == \A v \in Elem : parent[v] = NIL => root[name[v]] = v

(* A name Find gave the client, and no Union retired, still names a set.   *)
KnownAreCurrent == \A n \in known : /\ parent[root[n]] = NIL
                                    /\ name[root[n]] = n

(* The Find in progress walks up the tree of the element it was asked for, *)
(* and every pending frame will be compressed under an element that is     *)
(* heavier than it.                                                        *)
WalkInTree ==
  IF pc = "idle"
    THEN path = <<>> /\ cur = NIL
    ELSE /\ path # <<>> /\ cur \in Elem
         /\ \A n \in 1 .. Len(path) : /\ rep[path[n]] = rep[cur]
                                      /\ count[cur] >= 2 * count[path[n]]
                                      /\ parent[path[n]] # NIL
         /\ Len(path) < count[cur]
         /\ pc = "unwind" => parent[cur] = NIL

(* A set's count is its size and bounds the counts of its members, so no   *)
(* count exceeds the number of elements (nor overflows while N fits).      *)
CountIsSize == \A v \in Elem :
                 /\ count[rep[v]] = Cardinality({w \in Elem : rep[w] = rep[v]})
                 /\ count[v] <= count[rep[v]]

(* The powers of 2, by recursion.                                          *)
Pow2[n \in Nat] == IF n = 0 THEN 1 ELSE 2 * Pow2[n - 1]

(* do_FIND recurses at most log2(N) deep, however Unions and Finds         *)
(* alternate: compression never undoes the balance.                        *)
DepthIsLogarithmic == Pow2[Len(path)] <= N

(* Every Find returns.                                                     *)
FindReturns == pc # "idle" ~> pc = "idle"

(* The code implements the partition: Partition's Find and Union, with the *)
(* label of an element the name of its root.                               *)
label == [v \in Elem |-> name[rep[v]]]
P == INSTANCE Partition WITH Elem <- Elem, label <- label, known <- known
IsPartition == P!Spec
=============================================================================
