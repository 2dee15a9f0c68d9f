-------------------------- MODULE UnionFind_proofs --------------------------
(***************************************************************************)
(* Proofs about UnionFind for every number of elements: its invariants,    *)
(* that it implements Partition, and that do_FIND's recursion is bounded.  *)
(* They are about the client that does not rename a set onto itself        *)
(* (MayRename = FALSE); with it they are false: the root of the set        *)
(* becomes its own parent.                                                 *)
(***************************************************************************)
EXTENDS UnionFind, Induction, FiniteSetTheorems, SequenceTheorems, TLAPS

(* The inductive invariant.  CountIsSize is proved from it separately.     *)
IInv == /\ TypeOK
        /\ CountsDouble
        /\ TreeOfClass
        /\ NamesAreRoots
        /\ KnownAreCurrent
        /\ WalkInTree

(* Initially every element is a root, its own name and its own set.        *)
LEMMA InitIInv == Init => IInv
  BY NAssumption DEF Init, IInv, TypeOK, CountsDouble, TreeOfClass,
     NamesAreRoots, KnownAreCurrent, WalkInTree, Elem, NIL

(* Find at a root only tells the client a current name.                    *)
LEMMA FindAtRootIInv ==
  ASSUME IInv, NEW v \in Elem, FindAtRoot(v)
  PROVE  IInv'
<1>1. TypeOK' /\ KnownAreCurrent'
  BY DEF FindAtRoot, IInv, TypeOK, NamesAreRoots, KnownAreCurrent, elements, call
<1>2. CountsDouble' /\ TreeOfClass' /\ NamesAreRoots'
  BY DEF FindAtRoot, IInv, CountsDouble, TreeOfClass, NamesAreRoots, elements
<1>3. WalkInTree'
  BY DEF FindAtRoot, IInv, WalkInTree, elements, call
<1> QED BY <1>1, <1>2, <1>3 DEF IInv

(* Find below a root starts the walk at the parent, which is heavier.      *)
LEMMA FindCallIInv ==
  ASSUME IInv, NEW v \in Elem, FindCall(v)
  PROVE  IInv'
<1>1. parent[v] \in Elem /\ count[parent[v]] >= 2 * count[v]
  BY DEF FindCall, IInv, TypeOK, CountsDouble
<1>2. path' = <<v>> /\ Len(path') = 1 /\ path'[1] = v
  BY DEF FindCall
<1>3. TypeOK'
  BY <1>1 DEF FindCall, IInv, TypeOK, elements
<1>4. WalkInTree'
  BY <1>1, <1>2 DEF FindCall, IInv, TypeOK, TreeOfClass, WalkInTree, elements
<1> QED
  BY <1>3, <1>4 DEF FindCall, IInv, CountsDouble, TreeOfClass, NamesAreRoots,
     KnownAreCurrent, elements

(* One frame deeper: the argument gets heavier than everything stacked.    *)
LEMMA DoFindRecurseIInv ==
  ASSUME IInv, DoFindRecurse
  PROVE  IInv'
<1>1. cur \in Elem /\ path \in Seq(Elem) /\ path # <<>>
  BY DEF DoFindRecurse, IInv, TypeOK, WalkInTree
<1>2. parent[cur] \in Elem /\ count[parent[cur]] >= 2 * count[cur]
  BY <1>1 DEF DoFindRecurse, IInv, TypeOK, CountsDouble
<1>3. /\ path' \in Seq(Elem) /\ Len(path') = Len(path) + 1 /\ path' # <<>>
      /\ \A n \in 1 .. Len(path) : path'[n] = path[n]
      /\ path'[Len(path) + 1] = cur
  BY <1>1 DEF DoFindRecurse
<1>4. TypeOK'
  BY <1>2, <1>3 DEF DoFindRecurse, IInv, TypeOK, elements
<1>5. WalkInTree'
  <2>1. pc' = "descend" /\ path' # <<>> /\ cur' = parent[cur] /\ cur' \in Elem
    BY <1>2, <1>3 DEF DoFindRecurse
  <2>2. Len(path') < count'[cur']
    BY <1>1, <1>2, <1>3, <2>1 DEF DoFindRecurse, IInv, TypeOK, WalkInTree, elements
  <2>3. ASSUME NEW n \in 1 .. Len(path')
        PROVE  /\ rep'[path'[n]] = rep'[cur']
               /\ count'[cur'] >= 2 * count'[path'[n]]
               /\ parent'[path'[n]] # NIL
    <3>1. CASE n = Len(path) + 1
      BY <3>1, <1>1, <1>2, <1>3, <2>1
         DEF DoFindRecurse, IInv, TypeOK, TreeOfClass, elements
    <3>2. CASE n \in 1 .. Len(path)
      <4>1. path[n] \in Elem /\ path'[n] = path[n]
        BY <3>2, <1>1, <1>3
      <4>2. rep[path[n]] = rep[cur] /\ count[cur] >= 2 * count[path[n]]
            /\ parent[path[n]] # NIL
        BY <3>2 DEF DoFindRecurse, IInv, WalkInTree
      <4>3. count[cur] \in Nat /\ count[path[n]] \in Nat /\ count[parent[cur]] \in Nat
        BY <1>1, <1>2, <4>1 DEF IInv, TypeOK
      <4>4. rep[parent[cur]] = rep[cur]
        BY <1>1 DEF DoFindRecurse, IInv, TreeOfClass
      <4> QED BY <1>2, <2>1, <4>1, <4>2, <4>3, <4>4 DEF DoFindRecurse, elements
    <3> QED BY <3>1, <3>2, <1>1, <1>3
  <2> QED BY <2>1, <2>2, <2>3 DEF WalkInTree
<1> QED
  BY <1>4, <1>5 DEF DoFindRecurse, IInv, CountsDouble, TreeOfClass,
     NamesAreRoots, KnownAreCurrent, elements

(* The base of the recursion: cur is the root.                             *)
LEMMA DoFindAtRootIInv ==
  ASSUME IInv, DoFindAtRoot
  PROVE  IInv'
  BY DEF DoFindAtRoot, IInv, TypeOK, CountsDouble, TreeOfClass, NamesAreRoots,
     KnownAreCurrent, WalkInTree, elements

(* Compression, of a do_FIND frame or of Find's own: hanging a stacked     *)
(* element under the root the walk found keeps the forest's invariants.    *)
LEMMA CompressForest ==
  ASSUME IInv, pc = "unwind", NEW n \in 1 .. Len(path),
         parent' = [parent EXCEPT ![path[n]] = cur],
         UNCHANGED <<name, count, root, rep>>
  PROVE  /\ parent' \in [Elem -> Elem \cup {NIL}]
         /\ \A v \in Elem : parent'[v] = NIL <=> parent[v] = NIL
         /\ CountsDouble' /\ TreeOfClass' /\ NamesAreRoots'
         /\ cur \in Elem /\ parent[cur] = NIL
<1> DEFINE x == path[n]
<1>1. /\ x \in Elem /\ cur \in Elem /\ parent[cur] = NIL /\ parent[x] # NIL
      /\ rep[x] = rep[cur] /\ count[cur] >= 2 * count[x]
  BY DEF IInv, TypeOK, WalkInTree
<1>2. parent' \in [Elem -> Elem \cup {NIL}]
  BY <1>1 DEF IInv, TypeOK
<1>3. cur # NIL
  BY <1>1, NAssumption DEF Elem, NIL
<1>4. \A v \in Elem : parent'[v] = IF v = x THEN cur ELSE parent[v]
  BY <1>1 DEF IInv, TypeOK
<1>5. \A v \in Elem : parent'[v] = NIL <=> parent[v] = NIL
  BY <1>1, <1>3, <1>4
<1>6. CountsDouble'
  BY <1>1, <1>4 DEF IInv, TypeOK, CountsDouble
<1>7. TreeOfClass'
  BY <1>1, <1>4, <1>5 DEF IInv, TypeOK, TreeOfClass
<1>8. NamesAreRoots'
  BY <1>5 DEF IInv, NamesAreRoots
<1> QED BY <1>1, <1>2, <1>5, <1>6, <1>7, <1>8

(* A do_FIND frame returns.                                                *)
LEMMA DoFindCompressIInv ==
  ASSUME IInv, DoFindCompress
  PROVE  IInv'
<1>1. /\ path \in Seq(Elem) /\ Len(path) \in 1 .. Len(path) /\ Len(path) > 1
  BY DEF DoFindCompress, IInv, TypeOK
<1>2. /\ parent' \in [Elem -> Elem \cup {NIL}]
      /\ \A v \in Elem : parent'[v] = NIL <=> parent[v] = NIL
      /\ CountsDouble' /\ TreeOfClass' /\ NamesAreRoots'
      /\ cur \in Elem /\ parent[cur] = NIL
  BY <1>1, CompressForest DEF DoFindCompress
<1>3. /\ path' \in Seq(Elem) /\ Len(path') = Len(path) - 1 /\ path' # <<>>
      /\ \A n \in 1 .. Len(path') : path'[n] = path[n]
  <2>1. path' = SubSeq(path, 1, Len(path) - 1)
    BY DEF DoFindCompress
  <2> DEFINE m == Len(path) - 1
  <2>2. m \in Nat /\ 1 <= m /\ m <= Len(path) /\ Len(path) \in Nat
    BY <1>1
  <2>3. \A i \in 1 .. Len(path) : path[i] \in Elem
    BY <1>1
  <2> HIDE DEF m
  <2>4. \A i \in 1 .. m : path[i] \in Elem
    BY <2>2, <2>3
  <2>5. path' = SubSeq(path, 1, m)
    BY <2>1 DEF m
  <2>6. /\ path' \in Seq(Elem) /\ Len(path') = m
        /\ \A i \in 1 .. m - 1 + 1 : path'[i] = path[1 + i - 1]
    BY <2>2, <2>4, <2>5, SubSeqProperties
  <2>7. \A i \in 1 .. m : path'[i] = path[i]
    BY <2>2, <2>6
  <2> QED BY <2>2, <2>6, <2>7 DEF m
<1>4. TypeOK'
  BY <1>2, <1>3 DEF DoFindCompress, IInv, TypeOK
<1>5. KnownAreCurrent'
  BY <1>2 DEF DoFindCompress, IInv, TypeOK, KnownAreCurrent
<1>6. WalkInTree'
  <2>1. \A n \in 1 .. Len(path') : path[n] \in Elem /\ n \in 1 .. Len(path)
    BY <1>1, <1>3
  <2>2. Len(path') < count'[cur']
    BY <1>1, <1>2, <1>3 DEF DoFindCompress, IInv, TypeOK, WalkInTree
  <2>3. ASSUME NEW n \in 1 .. Len(path')
        PROVE  /\ rep'[path'[n]] = rep'[cur']
               /\ count'[cur'] >= 2 * count'[path'[n]]
               /\ parent'[path'[n]] # NIL
    BY <1>2, <1>3, <2>1 DEF DoFindCompress, IInv, WalkInTree
  <2>4. pc' = "unwind" /\ cur' = cur /\ parent'[cur] = NIL
    BY <1>2 DEF DoFindCompress
  <2> QED BY <1>2, <1>3, <2>2, <2>3, <2>4 DEF WalkInTree
<1> QED BY <1>2, <1>4, <1>5, <1>6 DEF IInv

(* Find returns: the name it gives out is that of a current root.          *)
LEMMA FindReturnIInv ==
  ASSUME IInv, FindReturn
  PROVE  IInv'
<1>1. 1 \in 1 .. Len(path)
  BY DEF FindReturn
<1>2. /\ parent' \in [Elem -> Elem \cup {NIL}]
      /\ \A v \in Elem : parent'[v] = NIL <=> parent[v] = NIL
      /\ CountsDouble' /\ TreeOfClass' /\ NamesAreRoots'
      /\ cur \in Elem /\ parent[cur] = NIL
  BY <1>1, CompressForest DEF FindReturn
<1>3. TypeOK'
  BY <1>2 DEF FindReturn, IInv, TypeOK
<1>4. KnownAreCurrent'
  BY <1>2 DEF FindReturn, IInv, TypeOK, KnownAreCurrent, NamesAreRoots
<1>5. WalkInTree'
  BY DEF FindReturn, WalkInTree
<1> QED BY <1>2, <1>3, <1>4, <1>5 DEF IInv
-----------------------------------------------------------------------------
(* Hanging a root under a different root that is at least as heavy, under  *)
(* one of their names or a free one, keeps every invariant.                *)
LEMMA LinkIInv ==
  ASSUME IInv, pc = "idle", UNCHANGED call,
         NEW small \in Elem, NEW large \in Elem, NEW k \in Elem,
         small # large, parent[small] = NIL, parent[large] = NIL,
         count[small] <= count[large],
         MayName(name[small], name[large], k),
         Link(small, large, k),
         known' = (known \ {name[small], name[large]}) \cup {k}
  PROVE  IInv'
<1>1. /\ \A v \in Elem : parent'[v] = IF v = small THEN large ELSE parent[v]
      /\ \A v \in Elem : name'[v] = IF v = large THEN k ELSE name[v]
      /\ \A v \in Elem : root'[v] = IF v = k THEN large ELSE root[v]
      /\ \A v \in Elem : rep'[v] = IF rep[v] = small THEN large ELSE rep[v]
  BY DEF Link, IInv, TypeOK
<1>2. \A v \in Elem : count'[v] = IF v = large THEN count[large] + count[small]
                                               ELSE count[v]
  BY DEF Link, IInv, TypeOK
<1>3. large # NIL
  BY NAssumption DEF Elem, NIL
<1>4. \A v \in Elem : parent'[v] = NIL <=> parent[v] = NIL /\ v # small
  BY <1>1, <1>3
<1>5. \A v \in Elem : parent[v] = NIL /\ v # small /\ v # large => name[v] # k
  BY DEF MayName, IInv, NamesAreRoots
<1>6. TypeOK'
  <2>1. count' \in [Elem -> Nat \ {0}]
    <3>1. \A v \in Elem : count[v] \in Nat \ {0}
      BY DEF IInv, TypeOK
    <3>2. \A v \in Elem : count'[v] \in Nat \ {0}
      BY <1>2, <3>1
    <3>3. count' = [v \in Elem |-> count'[v]]
      BY DEF Link, IInv, TypeOK
    <3> QED BY <3>2, <3>3
  <2>2. known' \subseteq Elem
    BY DEF IInv, TypeOK
  <2> QED BY <2>1, <2>2 DEF Link, IInv, TypeOK, call
<1>7. CountsDouble'
  <2> SUFFICES ASSUME NEW v \in Elem, parent'[v] # NIL
               PROVE  count'[parent'[v]] >= 2 * count'[v]
    BY DEF CountsDouble
  <2>0. \A w \in Elem : count[w] \in Nat \ {0}
    BY DEF IInv, TypeOK
  <2>1. CASE v = small
    BY <2>0, <2>1, <1>1, <1>2
  <2>2. CASE v # small
    <3>1. parent'[v] = parent[v] /\ parent[v] \in Elem /\ v # large
      BY <2>2, <1>1 DEF IInv, TypeOK
    <3>2. count[parent[v]] >= 2 * count[v]
      BY <3>1 DEF IInv, CountsDouble
    <3> QED BY <2>0, <3>1, <3>2, <1>2
  <2> QED BY <2>1, <2>2
<1>8. TreeOfClass'
  <2> SUFFICES ASSUME NEW v \in Elem
               PROVE  /\ parent'[v] = NIL <=> rep'[v] = v
                      /\ parent'[v] # NIL => rep'[parent'[v]] = rep'[v]
                      /\ parent'[rep'[v]] = NIL
    BY DEF TreeOfClass
  <2>1. /\ rep[v] \in Elem /\ parent[v] \in Elem \cup {NIL}
        /\ rep[small] = small /\ rep[large] = large
        /\ parent[v] = NIL <=> rep[v] = v
        /\ parent[v] # NIL => rep[parent[v]] = rep[v]
        /\ parent[rep[v]] = NIL
    BY DEF IInv, TypeOK, TreeOfClass
  <2> QED BY <1>1, <1>4, <2>1
<1>9. NamesAreRoots'
  <2> SUFFICES ASSUME NEW v \in Elem, parent'[v] = NIL
               PROVE  root'[name'[v]] = v
    BY DEF NamesAreRoots
  <2>1. parent[v] = NIL /\ v # small
    BY <1>4
  <2>2. name[v] \in Elem /\ root[name[v]] = v
    BY <2>1 DEF IInv, TypeOK, NamesAreRoots
  <2>3. CASE v = large
    BY <2>3, <1>1
  <2>4. CASE v # large
    BY <2>1, <2>2, <2>4, <1>1, <1>5
  <2> QED BY <2>3, <2>4
<1>10. KnownAreCurrent'
  <2> SUFFICES ASSUME NEW n \in known'
               PROVE  parent'[root'[n]] = NIL /\ name'[root'[n]] = n
    BY DEF KnownAreCurrent
  <2>1. CASE n = k
    BY <2>1, <1>1, <1>4
  <2>2. CASE n # k
    <3>1. /\ n \in known /\ n # name[small] /\ n # name[large] /\ n \in Elem
          /\ root[n] \in Elem /\ parent[root[n]] = NIL /\ name[root[n]] = n
      BY <2>2 DEF IInv, TypeOK, KnownAreCurrent
    <3> QED BY <2>2, <3>1, <1>1, <1>4
  <2> QED BY <2>1, <2>2
<1>11. WalkInTree'
  BY DEF IInv, WalkInTree, call
<1> QED BY <1>6, <1>7, <1>8, <1>9, <1>10, <1>11 DEF IInv

(* Union is a Link of two different roots, or changes nothing.             *)
LEMMA UnionIsLink ==
  ASSUME IInv, MayRename = FALSE,
         NEW i \in Elem, NEW j \in Elem, NEW k \in Elem, Union(i, j, k)
  PROVE  \/ i = j /\ j = k /\ UNCHANGED <<elements, call, known, rep>>
         \/ \E small, large \in Elem :
              /\ small # large /\ parent[small] = NIL /\ parent[large] = NIL
              /\ count[small] <= count[large]
              /\ {name[small], name[large]} = {i, j}
              /\ Link(small, large, k)
<1>1. CASE i = j
  <2>1. i = j /\ j = k
    BY <1>1 DEF Union
  <2>2. known' = known /\ UNCHANGED <<elements, call, rep>>
    BY <2>1 DEF Union
  <2> QED BY <2>1, <2>2
<1>2. CASE i # j
  <2> DEFINE r == root[i]  s == root[j]
  <2>1. /\ r \in Elem /\ parent[r] = NIL /\ name[r] = i
        /\ s \in Elem /\ parent[s] = NIL /\ name[s] = j
        /\ r # s
    BY <1>2 DEF Union, IInv, TypeOK, KnownAreCurrent
  <2>2. count[r] \in Nat /\ count[s] \in Nat
    BY <2>1 DEF IInv, TypeOK
  <2>3. MergeSets(i, j, k)
    BY <1>2 DEF Union
  <2>4. CASE count[r] > count[s]
    <3>1. Link(s, r, k)
      BY <2>3, <2>4 DEF MergeSets
    <3>2. count[s] <= count[r]
      BY <2>2, <2>4
    <3>3. {name[s], name[r]} = {i, j}
      BY <2>1
    <3> HIDE DEF r, s
    <3> QED BY <2>1, <3>1, <3>2, <3>3
  <2>5. CASE ~(count[r] > count[s])
    <3>1. Link(r, s, k)
      BY <2>3, <2>5 DEF MergeSets
    <3>2. count[r] <= count[s]
      BY <2>2, <2>5
    <3>3. {name[r], name[s]} = {i, j}
      BY <2>1
    <3> HIDE DEF r, s
    <3> QED BY <2>1, <3>1, <3>2, <3>3
  <2> QED BY <2>4, <2>5
<1> QED BY <1>1, <1>2

(* Union preserves the invariant, by the two lemmas above.                 *)
LEMMA UnionIInv ==
  ASSUME IInv, MayRename = FALSE,
         NEW i \in Elem, NEW j \in Elem, NEW k \in Elem, Union(i, j, k)
  PROVE  IInv'
<1>1. CASE UNCHANGED <<elements, call, known, rep>>
  BY <1>1 DEF elements, call, IInv, TypeOK, CountsDouble, TreeOfClass,
     NamesAreRoots, KnownAreCurrent, WalkInTree
<1>2. CASE \E small, large \in Elem :
              /\ small # large /\ parent[small] = NIL /\ parent[large] = NIL
              /\ count[small] <= count[large]
              /\ {name[small], name[large]} = {i, j}
              /\ Link(small, large, k)
  <2>1. PICK small \in Elem, large \in Elem :
              /\ small # large /\ parent[small] = NIL /\ parent[large] = NIL
              /\ count[small] <= count[large]
              /\ {name[small], name[large]} = {i, j}
              /\ Link(small, large, k)
    BY <1>2
  <2>2. MayName(name[small], name[large], k)
    BY <2>1 DEF Union, MayName
  <2>3. known' = (known \ {name[small], name[large]}) \cup {k}
    BY <2>1 DEF Union
  <2>4. pc = "idle" /\ UNCHANGED call
    BY DEF Union
  <2> QED BY <2>1, <2>2, <2>3, <2>4, LinkIInv
<1> QED BY <1>1, <1>2, UnionIsLink
-----------------------------------------------------------------------------
(* Every step preserves the invariant: one case per action.                *)
LEMMA NextIInv ==
  ASSUME MayRename = FALSE, IInv, [Next]_vars
  PROVE  IInv'
<1>1. CASE UNCHANGED vars
  BY <1>1 DEF vars, elements, call, IInv, TypeOK, CountsDouble, TreeOfClass,
     NamesAreRoots, KnownAreCurrent, WalkInTree
<1>2. CASE \E v \in Elem : FindAtRoot(v) \/ FindCall(v)
  BY <1>2, FindAtRootIInv, FindCallIInv
<1>3. CASE FindStep
  BY <1>3, DoFindRecurseIInv, DoFindAtRootIInv, DoFindCompressIInv,
     FindReturnIInv DEF FindStep
<1>4. CASE \E i, j, k \in Elem : Union(i, j, k)
  BY <1>4, UnionIInv
<1> QED BY <1>1, <1>2, <1>3, <1>4 DEF Next

(* Every behaviour keeps the inductive invariant.                          *)
LEMMA Inductive ==
  ASSUME MayRename = FALSE
  PROVE  Spec => []IInv
<1>1. IInv /\ [Next]_vars => IInv'
  BY NextIInv
<1> QED BY InitIInv, <1>1, PTL DEF Spec

(* Every element keeps a parent, a name and a root that are elements, and  *)
(* a positive count, for every N: do_FIND never follows a link out of the  *)
(* array.                                                                  *)
THEOREM TypeCorrect ==
  ASSUME MayRename = FALSE
  PROVE  Spec => []TypeOK
<1>1. IInv => TypeOK
  BY DEF IInv
<1> QED BY Inductive, <1>1, PTL

(* The forest, the names, the client's names and the walk of do_FIND stay  *)
(* consistent through every interleaving of Finds and Unions, for every N. *)
THEOREM ForestCorrect ==
  ASSUME MayRename = FALSE
  PROVE  Spec => [](/\ TypeOK /\ CountsDouble /\ TreeOfClass
                    /\ NamesAreRoots /\ KnownAreCurrent /\ WalkInTree)
<1>1. IInv => /\ TypeOK /\ CountsDouble /\ TreeOfClass
              /\ NamesAreRoots /\ KnownAreCurrent /\ WalkInTree
  BY DEF IInv
<1> QED BY Inductive, <1>1, PTL
-----------------------------------------------------------------------------
(* The elements are N in number.                                           *)
LEMMA ElemFinite == IsFiniteSet(Elem) /\ Cardinality(Elem) = N
  BY NAssumption, FS_Interval DEF Elem

(* Linking two sets adds their sizes, as it adds their counts.             *)
LEMMA LinkSize ==
  ASSUME IInv, CountIsSize,
         NEW small \in Elem, NEW large \in Elem, NEW k \in Elem,
         small # large, parent[small] = NIL, parent[large] = NIL,
         Link(small, large, k)
  PROVE  CountIsSize'
<1> DEFINE Old(r) == {w \in Elem : rep[w] = r}
           New(r) == {w \in Elem : rep'[w] = r}
<1>1. /\ \A v \in Elem : rep'[v] = IF rep[v] = small THEN large ELSE rep[v]
      /\ \A v \in Elem : count'[v] = IF v = large THEN count[large] + count[small]
                                               ELSE count[v]
  BY DEF Link, IInv, TypeOK
<1>2. \A v \in Elem : rep[v] \in Elem /\ count[v] \in Nat
  BY DEF IInv, TypeOK
<1>3. rep[small] = small /\ rep[large] = large
  BY DEF IInv, TreeOfClass
<1>4. \A v \in Elem : /\ count[rep[v]] = Cardinality(Old(rep[v]))
                      /\ count[v] <= count[rep[v]]
  BY DEF CountIsSize
<1>5. Cardinality(New(large)) = count[large] + count[small]
  <2>1. New(large) = Old(large) \cup Old(small)
    BY <1>1, <1>2
  <2>2. Old(large) \cap Old(small) = {}
    OBVIOUS
  <2>3. IsFiniteSet(Old(large)) /\ IsFiniteSet(Old(small))
    BY ElemFinite, FS_Subset
  <2>4. count[large] = Cardinality(Old(large)) /\ count[small] = Cardinality(Old(small))
    BY <1>3, <1>4
  <2>5. Cardinality(Old(large)) \in Nat /\ Cardinality(Old(small)) \in Nat
    BY <1>2, <2>4
  <2> HIDE DEF Old, New
  <2>6. Cardinality(Old(large) \cup Old(small)) = Cardinality(Old(large))
          + Cardinality(Old(small)) - Cardinality(Old(large) \cap Old(small))
    BY <2>3, FS_Union
  <2>7. Cardinality(Old(large) \cap Old(small)) = 0
    BY <2>2, FS_EmptySet
  <2> QED BY <2>1, <2>4, <2>5, <2>6, <2>7
<1>6. ASSUME NEW v \in Elem
      PROVE  /\ count'[rep'[v]] = Cardinality(New(rep'[v]))
             /\ count'[v] <= count'[rep'[v]]
  <2>1. CASE rep[v] \in {small, large}
    <3>1. rep'[v] = large /\ count'[large] = count[large] + count[small]
      BY <2>1, <1>1
    <3>2. count[v] <= count[small] \/ count[v] <= count[large]
      BY <2>1, <1>4
    <3>3. count'[v] <= count[large] + count[small]
      BY <3>1, <3>2, <1>1, <1>2
    <3> QED BY <1>5, <3>1, <3>3
  <2>2. CASE rep[v] \notin {small, large}
    <3>1. rep'[v] = rep[v] /\ count'[rep[v]] = count[rep[v]]
      BY <2>2, <1>1, <1>2
    <3>2. New(rep[v]) = Old(rep[v])
      BY <2>2, <1>1, <1>2
    <3>3. v # large
      BY <2>2, <1>3
    <3> QED BY <3>1, <3>2, <3>3, <1>1, <1>4
  <2> QED BY <2>1, <2>2
<1> QED BY <1>6 DEF CountIsSize

(* Every step keeps a set's count its size; only Union changes either.     *)
LEMMA NextSize ==
  ASSUME MayRename = FALSE, IInv, CountIsSize, [Next]_vars
  PROVE  CountIsSize'
<1>1. CASE UNCHANGED <<count, rep>>
  BY <1>1 DEF CountIsSize
<1>2. CASE \E i, j, k \in Elem : Union(i, j, k)
  <2>1. PICK i \in Elem, j \in Elem, k \in Elem : Union(i, j, k)
    BY <1>2
  <2>2. CASE UNCHANGED <<elements, rep>>
    BY <2>2, <1>1 DEF elements
  <2>3. CASE \E small, large \in Elem :
               /\ small # large /\ parent[small] = NIL /\ parent[large] = NIL
               /\ Link(small, large, k)
    BY <2>3, LinkSize
  <2> QED BY <2>1, <2>2, <2>3, UnionIsLink
<1>3. CASE (\E v \in Elem : FindAtRoot(v) \/ FindCall(v)) \/ FindStep
  BY <1>1, <1>3 DEF FindAtRoot, FindCall, FindStep, DoFindRecurse, DoFindAtRoot,
     DoFindCompress, FindReturn, elements
<1>4. CASE UNCHANGED vars
  BY <1>1, <1>4 DEF vars, elements
<1> QED BY <1>2, <1>3, <1>4 DEF Next

(* Initially every set has one element and count 1.                        *)
LEMMA InitSize == Init => CountIsSize
<1> SUFFICES ASSUME Init, NEW v \in Elem
             PROVE  /\ count[rep[v]] = Cardinality({w \in Elem : rep[w] = rep[v]})
                    /\ count[v] <= count[rep[v]]
  BY DEF CountIsSize
<1>1. rep[v] = v /\ count[v] = 1 /\ {w \in Elem : rep[w] = rep[v]} = {v}
  BY DEF Init
<1> QED BY <1>1, FS_Singleton

(* The count of every set is its size, for every N.                        *)
THEOREM CountsCorrect ==
  ASSUME MayRename = FALSE
  PROVE  Spec => []CountIsSize
<1>1. IInv /\ CountIsSize /\ [Next]_vars => CountIsSize'
  BY NextSize
<1> QED BY InitSize, Inductive, <1>1, PTL DEF Spec

(* No count exceeds the number of elements.                                *)
LEMMA CountAtMostN ==
  ASSUME IInv, CountIsSize, NEW v \in Elem
  PROVE  count[v] \in Nat /\ count[v] <= N
<1> DEFINE C == {w \in Elem : rep[w] = rep[v]}
<1>1. count[rep[v]] = Cardinality(C) /\ count[v] <= count[rep[v]]
  BY DEF CountIsSize
<1>2. C \in SUBSET Elem
  OBVIOUS
<1>3. Cardinality(C) <= N
  <2> HIDE DEF C
  <2> QED BY <1>2, ElemFinite, FS_Subset
<1>4. count[v] \in Nat /\ count[rep[v]] \in Nat
  BY DEF IInv, TypeOK
<1> HIDE DEF C
<1> QED BY <1>1, <1>3, <1>4, NAssumption

(* do_FIND never needs more than N frames: its guard on MaxFrames, which   *)
(* stands for the C stack, never blocks it.                                *)
THEOREM RecursionBounded ==
  ASSUME MayRename = FALSE
  PROVE  Spec => [](Len(path) < MaxFrames)
<1>1. ASSUME IInv, CountIsSize
      PROVE  Len(path) < MaxFrames
  <2>1. CASE pc = "idle"
    BY <1>1, <2>1, NAssumption, MaxFramesAssumption DEF IInv, WalkInTree
  <2>2. CASE pc # "idle"
    <3>1. cur \in Elem /\ Len(path) < count[cur] /\ Len(path) \in Nat
      BY <1>1, <2>2 DEF IInv, WalkInTree, TypeOK
    <3> QED BY <1>1, <3>1, CountAtMostN, NAssumption, MaxFramesAssumption
  <2> QED BY <2>1, <2>2
<1> QED BY Inductive, CountsCorrect, <1>1, PTL

(* Pow2 has the equations of its definition.                               *)
LEMMA Pow2Def ==
  /\ Pow2 \in [Nat -> Nat] /\ Pow2[0] = 1
  /\ \A n \in Nat : Pow2[n + 1] = 2 * Pow2[n]
<1> DEFINE h == [x \in Nat \X Nat |-> 2 * x[2]]
<1>1. h \in [Nat \X Nat -> Nat] /\ 1 \in Nat
  OBVIOUS
<1>2. PICK f \in [Nat -> Nat] : IsRecursion(f, 1, h)
  <2> HIDE DEF h
  <2> QED BY <1>1, PrimitiveRecursion
<1>3. \A n \in Nat : f[n + 1] = 2 * f[n]
  BY <1>2 DEF IsRecursion
<1>4. f = [n \in Nat |-> IF n = 0 THEN 1 ELSE 2 * f[n - 1]]
  <2>1. ASSUME NEW n \in Nat, n # 0
        PROVE  f[n] = 2 * f[n - 1]
    <3>1. n - 1 \in Nat /\ (n - 1) + 1 = n
      BY <2>1
    <3> QED BY <1>3, <3>1
  <2> QED BY <1>2, <2>1 DEF IsRecursion
<1>5. Pow2 = [n \in Nat |-> IF n = 0 THEN 1 ELSE 2 * Pow2[n - 1]]
  BY <1>4 DEF Pow2
<1>6. Pow2[0] = 1 /\ \A n \in Nat : Pow2[n + 1] = 2 * Pow2[n]
  <2>1. ASSUME NEW n \in Nat PROVE Pow2[n + 1] = 2 * Pow2[n]
    <3>1. n + 1 \in Nat /\ (n + 1) - 1 = n /\ n + 1 # 0
      OBVIOUS
    <3>2. \A m \in Nat : Pow2[m] = IF m = 0 THEN 1 ELSE 2 * Pow2[m - 1]
      BY <1>5
    <3> QED BY <3>1, <3>2
  <2>2. Pow2[0] = 1
    BY <1>5
  <2> QED BY <2>1, <2>2
<1> DEFINE T == {n \in Nat : Pow2[n] \in Nat}
<1>7. Nat \subseteq T
  <2>1. 0 \in T
    BY <1>6
  <2>2. ASSUME NEW n \in Nat, n \in T PROVE n + 1 \in T
    BY <1>6, <2>2
  <2> HIDE DEF T
  <2> QED BY <2>1, <2>2, SetInduction
<1> QED BY <1>5, <1>6, <1>7

(* What carries the bound on the depth: the argument of the innermost call *)
(* weighs at least 2 to the number of frames.                              *)
WalkDoubles == pc # "idle" => Pow2[Len(path)] <= count[cur]

(* One frame more doubles the weight; one frame less halves what is asked. *)
LEMMA WalkDoublesStep ==
  ASSUME IInv, WalkDoubles, Next
  PROVE  WalkDoubles'
<1>1. /\ Len(path) \in Nat /\ Pow2[Len(path)] \in Nat
      /\ \A v \in Elem : count[v] \in Nat \ {0}
      /\ \A v \in Elem : parent[v] # NIL => parent[v] \in Elem /\ count[parent[v]] >= 2 * count[v]
      /\ pc # "idle" => cur \in Elem
  <2>1. Len(path) \in Nat
    BY DEF IInv, TypeOK
  <2>2. Pow2[Len(path)] \in Nat
    BY <2>1, Pow2Def
  <2> QED BY <2>1, <2>2 DEF IInv, TypeOK, CountsDouble, WalkInTree
<1>2. ASSUME NEW v \in Elem, FindAtRoot(v)
      PROVE  WalkDoubles'
  BY <1>2 DEF FindAtRoot, WalkDoubles, elements, call
<1>3. ASSUME NEW v \in Elem, FindCall(v)
      PROVE  WalkDoubles'
  <2>1. Len(path') = 1 /\ cur' = parent[v] /\ parent[v] # NIL /\ count' = count
    BY <1>3 DEF FindCall, elements
  <2>2. Pow2[1] = 2
    <3>1. Pow2[0 + 1] = 2 * Pow2[0] /\ Pow2[0] = 1 /\ 0 + 1 = 1
      BY Pow2Def
    <3> QED BY <3>1
  <2>3. count[parent[v]] >= 2
    BY <1>1, <2>1
  <2> QED BY <2>1, <2>2, <2>3 DEF WalkDoubles
<1>4. CASE DoFindRecurse
  <2>1. /\ Len(path') = Len(path) + 1 /\ cur' = parent[cur] /\ count' = count
        /\ cur \in Elem /\ parent[cur] # NIL /\ Pow2[Len(path)] <= count[cur]
    BY <1>1, <1>4 DEF DoFindRecurse, IInv, TypeOK, WalkDoubles, elements
  <2>2. Pow2[Len(path) + 1] = 2 * Pow2[Len(path)]
    BY <1>1, Pow2Def
  <2>3. /\ count[cur] \in Nat /\ count[parent[cur]] \in Nat
        /\ count[parent[cur]] >= 2 * count[cur]
    BY <1>1, <2>1
  <2>4. Pow2[Len(path) + 1] <= count[parent[cur]]
    BY <1>1, <2>1, <2>2, <2>3
  <2> QED BY <2>1, <2>4 DEF WalkDoubles
<1>5. CASE DoFindAtRoot
  BY <1>5 DEF DoFindAtRoot, WalkDoubles, elements
<1>6. CASE DoFindCompress
  <2>1. /\ Len(path) - 1 \in Nat /\ Len(path') = Len(path) - 1 /\ cur' = cur
        /\ count' = count /\ cur \in Elem /\ Pow2[Len(path)] <= count[cur]
    BY <1>1, <1>6 DEF DoFindCompress, IInv, TypeOK, WalkDoubles
  <2>2. /\ Pow2[(Len(path) - 1) + 1] = 2 * Pow2[Len(path) - 1]
        /\ Pow2[Len(path) - 1] \in Nat /\ (Len(path) - 1) + 1 = Len(path)
    <3>1. Len(path) - 1 \in Nat /\ (Len(path) - 1) + 1 = Len(path)
      BY <1>1, <2>1
    <3> QED BY <3>1, Pow2Def
  <2>3. Pow2[Len(path) - 1] <= count[cur]
    BY <1>1, <2>1, <2>2
  <2> QED BY <2>1, <2>3 DEF WalkDoubles
<1>7. CASE FindReturn
  BY <1>7 DEF FindReturn, WalkDoubles
<1>8. ASSUME NEW i \in Elem, NEW j \in Elem, NEW k \in Elem, Union(i, j, k)
      PROVE  WalkDoubles'
  BY <1>8 DEF Union, WalkDoubles, call
<1> QED BY <1>2, <1>3, <1>4, <1>5, <1>6, <1>7, <1>8 DEF Next, FindStep

(* do_FIND's call stack is at most log2(N) deep, for every N and every     *)
(* order of Finds and Unions.                                              *)
THEOREM DepthLogarithmic ==
  ASSUME MayRename = FALSE
  PROVE  Spec => []DepthIsLogarithmic
<1>1. Init => WalkDoubles
  BY DEF Init, WalkDoubles
<1>2. IInv /\ WalkDoubles /\ [Next]_vars => WalkDoubles'
  <2>1. CASE UNCHANGED vars
    BY <2>1 DEF vars, elements, call, WalkDoubles
  <2> QED BY <2>1, WalkDoublesStep
<1>3. ASSUME IInv, CountIsSize, WalkDoubles
      PROVE  DepthIsLogarithmic
  <2>1. CASE pc = "idle"
    <3>1. Len(path) = 0
      BY <1>3, <2>1 DEF IInv, WalkInTree
    <3> QED BY <3>1, Pow2Def, NAssumption DEF DepthIsLogarithmic
  <2>2. CASE pc # "idle"
    <3>1. cur \in Elem /\ Len(path) \in Nat /\ Pow2[Len(path)] <= count[cur]
      BY <1>3, <2>2 DEF IInv, WalkInTree, TypeOK, WalkDoubles
    <3>2. count[cur] \in Nat /\ count[cur] <= N /\ Pow2[Len(path)] \in Nat
      BY <1>3, <3>1, CountAtMostN, Pow2Def
    <3> QED BY <3>1, <3>2, NAssumption DEF DepthIsLogarithmic
  <2> QED BY <2>1, <2>2
<1> QED BY <1>1, <1>2, <1>3, Inductive, CountsCorrect, PTL DEF Spec
-----------------------------------------------------------------------------
(* A Link merges the two labels and leaves the others.                     *)
LEMMA LinkLabels ==
  ASSUME IInv, NEW small \in Elem, NEW large \in Elem, NEW k \in Elem,
         small # large, parent[small] = NIL, parent[large] = NIL,
         Link(small, large, k)
  PROVE  label' = [v \in Elem |-> IF label[v] \in {name[small], name[large]}
                                    THEN k ELSE label[v]]
<1>1. ASSUME NEW v \in Elem
      PROVE  name'[rep'[v]] = IF label[v] \in {name[small], name[large]}
                                THEN k ELSE label[v]
  <2>1. /\ rep'[v] = IF rep[v] = small THEN large ELSE rep[v]
        /\ \A w \in Elem : name'[w] = IF w = large THEN k ELSE name[w]
    BY DEF Link, IInv, TypeOK
  <2>2. rep[v] \in Elem /\ parent[rep[v]] = NIL /\ label[v] = name[rep[v]]
    BY DEF IInv, TypeOK, TreeOfClass, label
  <2>3. \A w \in Elem : parent[w] = NIL /\ name[w] = name[rep[v]] => w = rep[v]
    BY <2>2 DEF IInv, NamesAreRoots
  <2>4. label[v] \in {name[small], name[large]} <=> rep[v] \in {small, large}
    BY <2>2, <2>3
  <2> QED BY <2>1, <2>2, <2>4
<1> QED BY <1>1 DEF label

(* Every step is a step of Partition or leaves its variables alone: the    *)
(* returns of Find are its Find, Union is its Union.                       *)
LEMMA StepRefines ==
  ASSUME MayRename = FALSE, IInv, [Next]_vars
  PROVE  [P!Next]_(P!vars)
<1>1. CASE UNCHANGED <<name, rep, known>>
  BY <1>1 DEF P!vars, label
<1>2. ASSUME NEW v \in Elem, FindAtRoot(v)
      PROVE  P!Next
  <2>1. label[v] = name[v] /\ label' = label
    BY <1>2 DEF FindAtRoot, IInv, TypeOK, TreeOfClass, label, elements
  <2>2. P!Find(v)
    BY <1>2, <2>1 DEF FindAtRoot, P!Find
  <2> QED BY <2>2 DEF P!Next
<1>3. CASE FindReturn
  <2>1. path[1] \in Elem /\ rep[path[1]] = rep[cur] /\ cur \in Elem
        /\ parent[cur] = NIL
    BY <1>3 DEF FindReturn, IInv, TypeOK, WalkInTree
  <2>2. label[path[1]] = name[cur] /\ label' = label
    BY <1>3, <2>1 DEF FindReturn, IInv, TreeOfClass, label
  <2>3. P!Find(path[1])
    BY <1>3, <2>2 DEF FindReturn, P!Find
  <2> QED BY <2>1, <2>3 DEF P!Next
<1>4. ASSUME NEW i \in Elem, NEW j \in Elem, NEW k \in Elem, Union(i, j, k)
      PROVE  [P!Next]_(P!vars)
  <2>1. CASE UNCHANGED <<elements, known, rep>>
    BY <2>1, <1>1 DEF elements
  <2>2. CASE \E small, large \in Elem :
              /\ small # large /\ parent[small] = NIL /\ parent[large] = NIL
              /\ {name[small], name[large]} = {i, j}
              /\ Link(small, large, k)
    <3>1. PICK small \in Elem, large \in Elem :
              /\ small # large /\ parent[small] = NIL /\ parent[large] = NIL
              /\ {name[small], name[large]} = {i, j}
              /\ Link(small, large, k)
      BY <2>2
    <3>2. label' = [v \in Elem |-> IF label[v] \in {i, j} THEN k ELSE label[v]]
      BY <3>1, LinkLabels
    <3>3. P!MayName(i, j, k)
      BY <1>4 DEF Union, MayName, P!MayName, label, IInv, TypeOK, TreeOfClass
    <3>4. P!Union(i, j, k)
      BY <1>4, <3>2, <3>3 DEF Union, P!Union
    <3> QED BY <3>4 DEF P!Next
  <2> QED BY <1>4, <2>1, <2>2, UnionIsLink
<1>5. CASE \/ \E v \in Elem : FindCall(v)
           \/ DoFindRecurse \/ DoFindAtRoot \/ DoFindCompress
           \/ UNCHANGED vars
  BY <1>1, <1>5 DEF FindCall, DoFindRecurse, DoFindAtRoot, DoFindCompress,
     vars, elements
<1> QED BY <1>2, <1>3, <1>4, <1>5 DEF Next, FindStep

(* UnionFindUniverse implements the named partition its header describes,  *)
(* for every N: no Find changes a set, every Find answers with the set's   *)
(* current name, and every Union merges exactly the two sets.              *)
THEOREM ImplementsPartition ==
  ASSUME MayRename = FALSE
  PROVE  Spec => IsPartition
<1>1. Init => P!Init
  BY DEF Init, P!Init, label
<1>2. IInv /\ [Next]_vars => [P!Next]_(P!vars)
  BY StepRefines
<1> QED BY <1>1, <1>2, Inductive, PTL DEF Spec, IsPartition, P!Spec
=============================================================================
