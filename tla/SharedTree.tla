---------------------------- MODULE SharedTree ----------------------------
(***************************************************************************)
(* hashNode of tree.go down at the bytes, run by goroutines that share     *)
(* trees or the memory of their leaves.                                    *)
(*                                                                         *)
(* hashNode takes no lock, writes n.value, and concatenates by appending   *)
(* to the slice that the left child returned.  A leaf made by NewNode-     *)
(* WithValue or LeafFromBytes is a slice of the caller's memory; when it   *)
(* has room behind its 32 bytes the append writes there.  Hashes and the   *)
(* zero hashes of empty nodes are slices without room.                     *)
(*                                                                         *)
(* The trees have the nodes 1 to 7 and an empty node at 7.  The memory is  *)
(* a row of cells of 32 bytes; a leaf is [at, room].                       *)
(***************************************************************************)
EXTENDS Integers, Sequences

CONSTANTS
    Goroutines,
    Trees,        \* the trees: functions from 4 .. 6 to leaves
    Cells         \* the last cell of the memory

ASSUME CellsAssumption ==
    /\ Cells \in Nat
    /\ \A t \in Trees : \A n \in 4 .. 6 : t[n].at \in 1 .. Cells - 1 /\ t[n].room \in BOOLEAN

VARIABLES
    tree,     \* the trees in use
    memory,   \* the contents of the cells
    work,     \* work[g]: the branches that g has still to hash, [tree, node]
    joined,   \* joined[g]: what g has concatenated, << >> if nothing
    hash,     \* hash[g]: what the calls of hashNode returned to g
    value     \* value[i][n]: n.value of the branch n of tree[i]

vars == <<tree, memory, work, joined, hash, value>>

Leaves   == 4 .. 6
Branches == 1 .. 3
Nil  == << >>
Zero == <<"zero">>
Cell(c) == <<"bytes", c>>

hashFn(l, r) == <<"hash", l, r>>

(* The order in which the calls of one hashNode(root), and of two, return. *)
Call(i, n) == [tree |-> i, node |-> n]
Returns(i)  == <<Call(i, 2), Call(i, 3), Call(i, 1)>>
ReturnsBoth == <<Call(1, 2), Call(1, 3), Call(1, 1), Call(2, 2), Call(2, 3), Call(2, 1)>>

(* The goroutines hash two trees or the same one, or one of them hashes    *)
(* both, one after the other.                                              *)
Init ==
    /\ tree \in [1 .. 2 -> Trees]
    /\ memory = [c \in 1 .. Cells |-> Cell(c)]
    /\ \/ \E of \in [Goroutines -> 1 .. 2] : work = [g \in Goroutines |-> Returns(of[g])]
       \/ \E h \in Goroutines :
             work = [g \in Goroutines |-> IF g = h THEN ReturnsBoth ELSE << >>]
    /\ joined = [g \in Goroutines |-> << >>]
    /\ hash = [g \in Goroutines |-> [n \in Branches |-> Nil]]
    /\ value = [i \in 1 .. 2 |-> [n \in Branches |-> Nil]]

(* What hashNode(n) has returned to g; n.value for an empty node.          *)
Returned(g, i, n) ==
    CASE n \in Branches -> hash[g][n]
      [] n \in Leaves   -> memory[tree[i][n].at]
      [] n = 7          -> Zero

(* Variant: one buffer for all calls, the cell before the last and the     *)
(* last.                                                                   *)
AppendInBuffer(g) ==
    /\ work[g] # << >> /\ joined[g] = << >>
    /\ LET i == Head(work[g]).tree
           n == Head(work[g]).node
       IN  /\ memory' = [memory EXCEPT ![Cells - 1] = Returned(g, i, 2 * n),
                                       ![Cells] = Returned(g, i, 2 * n + 1)]
           /\ joined' = [joined EXCEPT ![g] = <<"at", Cells - 1>>]
    /\ UNCHANGED <<tree, work, hash, value>>

(* append(hashNode(n.left), hashNode(n.right)...): in place if the slice   *)
(* on the left has room, else in a new array.                              *)
Append32(g) ==
    /\ work[g] # << >> /\ joined[g] = << >>
    /\ LET i == Head(work[g]).tree
           n == Head(work[g]).node
           right == Returned(g, i, 2 * n + 1)
           at == tree[i][2 * n].at
       IN  IF 2 * n \in Leaves /\ tree[i][2 * n].room
           THEN /\ memory' = [memory EXCEPT ![at + 1] = right]
                /\ joined' = [joined EXCEPT ![g] = <<"at", at>>]
           ELSE /\ memory' = memory
                /\ joined' = [joined EXCEPT ![g] = <<"new", Returned(g, i, 2 * n), right>>]
    /\ UNCHANGED <<tree, work, hash, value>>

(* The hash of what is there by now, left in n.value and returned.  Two    *)
(* goroutines that store into one n.value race, but every mixture of the   *)
(* two slice headers is a slice of 32 bytes of one of the two results.     *)
Digest(g) ==
    /\ work[g] # << >> /\ joined[g] # << >>
    /\ LET i == Head(work[g]).tree
           n == Head(work[g]).node
           j == joined[g]
           result == IF j[1] = "at" THEN hashFn(memory[j[2]], memory[j[2] + 1])
                     ELSE hashFn(j[2], j[3])
       IN  /\ hash' = [hash EXCEPT ![g][n] = result]
           /\ value' = [value EXCEPT ![i][n] = result]
    /\ work' = [work EXCEPT ![g] = Tail(@)]
    /\ joined' = [joined EXCEPT ![g] = << >>]
    /\ UNCHANGED <<tree, memory>>

Finished == \A g \in Goroutines : work[g] = << >>
Stop == Finished /\ UNCHANGED vars

Next == (\E g \in Goroutines : Append32(g) \/ Digest(g)) \/ Stop

Spec == Init /\ [][Next]_vars

---------------------------------------------------------------------------
(* The hash of a node for the bytes the leaves were made from.             *)
TrueValue(i, n) ==
    LET leaf(m) == Cell(tree[i][m].at)
    IN  CASE n \in Leaves -> leaf(n)
          [] n = 7 -> Zero
          [] n = 3 -> hashFn(leaf(6), Zero)
          [] n = 2 -> hashFn(leaf(4), leaf(5))
          [] n = 1 -> hashFn(hashFn(leaf(4), leaf(5)), hashFn(leaf(6), Zero))

LeafCells == {tree[i][n].at : i \in 1 .. 2, n \in Leaves}

(* What the appends of either tree write to cell c.                        *)
WritesTo(c) ==
    UNION {(IF tree[i][4].room /\ tree[i][4].at + 1 = c THEN {Cell(tree[i][5].at)} ELSE {})
             \cup (IF tree[i][6].room /\ tree[i][6].at + 1 = c THEN {Zero} ELSE {}) : i \in 1 .. 2}

(* The room behind a leaf is no other leaf, unless it is the one appended. *)
Disjoint == \A c \in LeafCells : WritesTo(c) \subseteq {Cell(c)}

OneWrite == \A c \in 1 .. Cells : \A v \in WritesTo(c), w \in WritesTo(c) : v = w

Alone(g) == \A h \in Goroutines \ {g} : work[h] = << >> /\ joined[h] = << >>
                                        /\ hash[h] = [n \in Branches |-> Nil]

Safe == Disjoint /\ (OneWrite \/ \E g \in Goroutines : Alone(g))

(* If no leaf lies in the room behind another, a goroutine that hashes     *)
(* alone leaves every n.value right and the leaves as they are, even if    *)
(* several leaves have the same room.  Goroutines that hash at the same    *)
(* time, in one tree or in several, need that no two leaves have the same  *)
(* room with different bytes to go there.                                  *)
HashesOfTheLeaves ==
    Safe =>
        /\ \A c \in LeafCells : memory[c] = Cell(c)
        /\ \A i \in 1 .. 2, n \in Branches : value[i][n] \in {Nil, TrueValue(i, n)}
===========================================================================
