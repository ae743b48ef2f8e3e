--------------------------- MODULE MCSharedTree ---------------------------
(* Leaves in three neighbouring cells: the same cell twice, one in the     *)
(* room behind another, siblings side by side.                             *)
EXTENDS SharedTree, TLC

mcTrees ==
    {(4 :> [at |-> a, room |-> r] @@ 5 :> [at |-> b, room |-> FALSE] @@ 6 :> [at |-> c, room |-> s]) :
        a \in {1, 2}, b \in 1 .. 3, c \in {1, 3}, r \in BOOLEAN, s \in BOOLEAN}
===========================================================================
