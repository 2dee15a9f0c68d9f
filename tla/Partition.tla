----------------------------- MODULE Partition -----------------------------
(***************************************************************************)
(* What UnionFindUniverse promises its clients (UnionFindUniverse.h): a    *)
(* partition of Elem whose sets carry names.  Find reports the name of the *)
(* set an element is in; Union merges the sets named i and j under the     *)
(* name k.  No forest, no counts: those are UnionFind's business.          *)
(***************************************************************************)
CONSTANT Elem

VARIABLES
  label,   \* label[v] is the name of the set v is in
  known    \* the set names the client has been told and may still use

vars == <<label, known>>

Init == /\ label = [v \in Elem |-> v]
        /\ known = {}

(* Find(v) tells the client the name of v's set and changes no set.        *)
Find(v) == /\ known' = known \cup {label[v]}
           /\ UNCHANGED label

(* The names that Union may give: one of the two merged, or one that names *)
(* no set.                                                                 *)
MayName(i, j, k) == k \in {i, j} \/ \A v \in Elem : label[v] # k

(* Union(i, j, k) for two set names the client knows.                      *)
Union(i, j, k) ==
  /\ i \in known /\ j \in known
  /\ MayName(i, j, k)
  /\ label' = [v \in Elem |-> IF label[v] \in {i, j} THEN k ELSE label[v]]
  /\ known' = (known \ {i, j}) \cup {k}

Next == \/ \E v \in Elem : Find(v)
        \/ \E i, j, k \in Elem : Union(i, j, k)

Spec == Init /\ [][Next]_vars
=============================================================================
