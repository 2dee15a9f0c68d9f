--------------------------- MODULE StatementLists ---------------------------
(***************************************************************************)
(* What Computation.h promises: a Computation is a value, a list of        *)
(* statements and a set of data spaces.  Assignment copies it, a copy does *)
(* not change when its original does, and an edit of a statement changes   *)
(* that statement only.  No buffers, capacities or pointers.               *)
(***************************************************************************)
EXTENDS Sequences, Integers

CONSTANTS
  Comps,    \* the Computation objects of a program
  Spaces    \* the names of data spaces

VARIABLES
  list,     \* list[c]: the statements of c
  declared  \* declared[c]: the data spaces of c

vars == <<list, declared>>

Init == /\ list = [c \in Comps |-> <<>>]
        /\ declared = [c \in Comps |-> {}]

(* "Statements are numbered sequentially from 0 as they are inserted."     *)
AddStmt(c, s) == /\ list' = [list EXCEPT ![c] = Append(@, s)]
                 /\ UNCHANGED declared

(* A statement is edited where it stands.                                  *)
EditStmt(c, i, s) == /\ i \in DOMAIN list[c]
                     /\ list' = [list EXCEPT ![c][i] = s]
                     /\ UNCHANGED declared

AddDataSpace(c, d) == /\ declared' = [declared EXCEPT ![c] = @ \cup {d}]
                      /\ UNCHANGED list

(* "Assignment operator (copy)" and "Copy constructor".                    *)
Assign(c, d) == /\ list' = [list EXCEPT ![c] = list[d]]
                /\ declared' = [declared EXCEPT ![c] = declared[d]]

(* "Clear all data from this Computation."                                 *)
Clear(c) == /\ list' = [list EXCEPT ![c] = <<>>]
            /\ declared' = [declared EXCEPT ![c] = {}]

(* A statement may be anything; one that is added or edited is in the list *)
(* afterwards.                                                             *)
Found(c) == {list'[c][i] : i \in DOMAIN list'[c]}

Next == \E c \in Comps :
          \/ \E s \in Found(c) : AddStmt(c, s)
          \/ \E i \in DOMAIN list[c], s \in Found(c) : EditStmt(c, i, s)
          \/ \E d \in Spaces : AddDataSpace(c, d)
          \/ \E d \in Comps : Assign(c, d)
          \/ Clear(c)

Spec == Init /\ [][Next]_vars
=============================================================================
