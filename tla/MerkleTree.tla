---------------------------- MODULE MerkleTree ----------------------------
(***************************************************************************)
(* The binary Merkle tree that proofs are made from and checked against.   *)
(*                                                                         *)
(* A node is named by its generalized index: the root is 1 and the         *)
(* children of k are 2k and 2k+1.  Value[k] is the 32-byte value of node   *)
(* k, what hashNode (tree.go) returns for it.                              *)
(*                                                                         *)
(* A byte slice is a sequence of cells, HashLen of which make 32 bytes; a  *)
(* nil slice is the empty one.  sha256 is free, hence injective, and every *)
(* cell of a digest depends on both halves of the input.                   *)
(***************************************************************************)
EXTENDS Sorting

CONSTANTS
    HashLen,    \* cells in 32 bytes
    Nodes,      \* the generalized indices of the tree
    Value       \* the value of every node

(* Variant: the right half of the input is not hashed.                     *)
HashLeftHalf(l, r) == [c \in 1 .. HashLen |-> <<c, l, l>>]

(* proof.go: hashFn on a 64-byte input, the concatenation of l and r.      *)
hashFn(l, r) == [c \in 1 .. HashLen |-> <<c, l, r>>]

Nil       == << >>
ZeroBytes == [c \in 1 .. HashLen |-> <<0>>]

(* copy(half, v) into 32 bytes: what is beyond them in v is left out, and  *)
(* what v does not reach stays.                                            *)
Copy(v, half) == [c \in 1 .. HashLen |-> IF c <= Len(v) THEN v[c] ELSE half[c]]

(* proof.go: getParent is index >> 1.                                      *)
getParent(k) == k \div 2

(* proof.go: getSibling is index ^ 1.                                      *)
getSibling(k) == IF k % 2 = 0 THEN k + 1 ELSE k - 1

(* The two children of the parent of k, (k|1)^1 and k|1 in the source.     *)
leftOf(k)  == 2 * getParent(k)
rightOf(k) == 2 * getParent(k) + 1

(***************************************************************************)
(* Nodes is a set of generalized indices closed under parent and sibling;  *)
(* the value of a branch is the hash of its children.                      *)
(***************************************************************************)
ASSUME NodesAssumption ==
    /\ Nodes \subseteq Nat \ {0}
    /\ 1 \in Nodes
    /\ \A k \in Nodes \ {1} : {getParent(k), getSibling(k)} \subseteq Nodes

ASSUME ValueAssumption ==
    /\ HashLen \in Nat \ {0}
    /\ \A k \in Nodes : /\ Value[k] \in Seq(Elements(Value[k]))
                        /\ Len(Value[k]) = HashLen
    /\ \A k \in Nodes \ {1} :
        Value[getParent(k)] = hashFn(Value[leftOf(k)], Value[rightOf(k)])
===========================================================================
