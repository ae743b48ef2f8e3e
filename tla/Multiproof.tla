---------------------------- MODULE Multiproof ----------------------------
(***************************************************************************)
(* VerifyMultiproof and getRequiredIndices (proof.go), one action per      *)
(* iteration of their loops.                                               *)
(*                                                                         *)
(* The caller hands over generalized indices, one leaf per index and a     *)
(* list of proof hashes; the verifier first derives the indices the hashes *)
(* belong to, then folds leaves and hashes bottom-up in a map db, feeding  *)
(* every parent it computes to the end of a work list, and compares db[1]  *)
(* with the root.  The root compared with is the tree's, Value[1].         *)
(***************************************************************************)
EXTENDS MerkleTree

CONSTANT Inputs     \* the arguments a caller may pass

ASSUME InputsAssumption ==
    \A a \in Inputs : /\ a.indices \in Seq(Nodes)
                      /\ a.leaves  \in Seq(Elements(a.leaves))
                      /\ a.proof   \in Seq(Elements(a.proof))

VARIABLES
    arg,          \* the arguments: [indices, leaves, proof]
    phase,        \* where the verifier is
    li, cur,      \* getRequiredIndices: leaves begun, node being climbed from
    required,     \* siblings met on the way up
    computed,     \* parents met on the way up
    reqIndices,   \* the result of getRequiredIndices
    db,           \* index -> value known so far
    keys, pos,    \* the work list and the position in it
    tmp,          \* the two halves of the 64 bytes that are hashed
    result        \* "none" until the verifier returns

walkVars == <<li, cur, required, computed>>
foldVars == <<db, keys, pos, tmp>>
vars == <<arg, phase, walkVars, reqIndices, foldVars, result>>

Requested == Elements(arg.indices)

(* The last position of k in s: a later db[k] = v overwrites an earlier.   *)
LastAt(s, k) == CHOOSE i \in DOMAIN s :
                    s[i] = k /\ \A j \in DOMAIN s : s[j] = k => j <= i

Init ==
    /\ arg \in Inputs
    /\ phase = "start"
    /\ li = 0 /\ cur = 1
    /\ required = {} /\ computed = {}
    /\ reqIndices = << >>
    /\ db = << >> /\ keys = << >> /\ pos = 1
    /\ tmp = <<ZeroBytes, ZeroBytes>>
    /\ result = "none"

Return(r) == phase' = "done" /\ result' = r

(* len(leaves) != len(indices) is refused before anything else.            *)
CheckLeafCount ==
    /\ phase = "start"
    /\ IF Len(arg.leaves) # Len(arg.indices)
       THEN Return("error")
       ELSE phase' = "walk" /\ result' = result
    /\ UNCHANGED <<arg, walkVars, reqIndices, foldVars>>

(* for _, leaf := range leafIndices                                        *)
NextLeaf ==
    /\ phase = "walk"
    /\ cur <= 1
    /\ li < Len(arg.indices)
    /\ li' = li + 1
    /\ cur' = arg.indices[li + 1]
    /\ UNCHANGED <<arg, phase, required, computed, reqIndices, foldVars, result>>

(* Variant: for cur >= 1.                                                  *)
ClimbPastRoot ==
    /\ phase = "walk"
    /\ cur >= 1
    /\ required' = required \cup {getSibling(cur)}
    /\ computed' = computed \cup {getParent(cur)}
    /\ cur' = getParent(cur)
    /\ UNCHANGED <<arg, phase, li, reqIndices, foldVars, result>>

(* for cur > 1: note the sibling and the parent, go on from the parent.    *)
Climb ==
    /\ phase = "walk"
    /\ cur > 1
    /\ required' = required \cup {getSibling(cur)}
    /\ computed' = computed \cup {getParent(cur)}
    /\ cur' = getParent(cur)
    /\ UNCHANGED <<arg, phase, li, reqIndices, foldVars, result>>

(* Variant: what is computed is asked for as well.                         *)
CollectComputed ==
    /\ phase = "walk"
    /\ cur <= 1
    /\ li = Len(arg.indices)
    /\ reqIndices' = SetToSortedDesc(required \ Requested)
    /\ IF Len(reqIndices') # Len(arg.proof)
       THEN Return("error")
       ELSE phase' = "load" /\ result' = result
    /\ UNCHANGED <<arg, walkVars, foldVars>>

(* Drop what is computed or given from required; refuse a proof of another *)
(* length.                                                                 *)
CollectRequired ==
    /\ phase = "walk"
    /\ cur <= 1
    /\ li = Len(arg.indices)
    /\ reqIndices' = SetToSortedDesc((required \ computed) \ Requested)
    /\ IF Len(reqIndices') # Len(arg.proof)
       THEN Return("error")
       ELSE phase' = "load" /\ result' = result
    /\ UNCHANGED <<arg, walkVars, foldVars>>

(* Variant: sort.Sort without sort.Reverse.                                *)
LoadAscending ==
    /\ phase = "load"
    /\ db' = [k \in Requested \cup Elements(reqIndices) |->
                IF k \in Elements(reqIndices)
                THEN arg.proof[LastAt(reqIndices, k)]
                ELSE arg.leaves[LastAt(arg.indices, k)]]
    /\ LET down == SortDesc(arg.indices \o reqIndices)
       IN  keys' = [i \in 1 .. Len(down) |-> down[Len(down) + 1 - i]]
    /\ pos' = 1
    /\ phase' = "fold"
    /\ UNCHANGED <<arg, walkVars, reqIndices, tmp, result>>

(* Fill db and keys from the leaves, then from the proof, and sort keys.   *)
Load ==
    /\ phase = "load"
    /\ db' = [k \in Requested \cup Elements(reqIndices) |->
                IF k \in Elements(reqIndices)
                THEN arg.proof[LastAt(reqIndices, k)]
                ELSE arg.leaves[LastAt(arg.indices, k)]]
    /\ keys' = SortDesc(arg.indices \o reqIndices)
    /\ pos' = 1
    /\ phase' = "fold"
    /\ UNCHANGED <<arg, walkVars, reqIndices, tmp, result>>

(* if k == 1, break: the comparison with the root is all that is left.     *)
ReachRoot ==
    /\ phase = "fold"
    /\ pos <= Len(keys)
    /\ keys[pos] = 1
    /\ phase' = "compare"
    /\ UNCHANGED <<arg, walkVars, reqIndices, foldVars, result>>

(* Variant: continue without pos++.                                        *)
SkipInPlace ==
    /\ phase = "fold"
    /\ pos <= Len(keys)
    /\ keys[pos] # 1
    /\ getParent(keys[pos]) \in DOMAIN db
    /\ UNCHANGED vars

(* if hasParent, continue                                                  *)
SkipKnownParent ==
    /\ phase = "fold"
    /\ pos <= Len(keys)
    /\ keys[pos] # 1
    /\ getParent(keys[pos]) \in DOMAIN db
    /\ pos' = pos + 1
    /\ UNCHANGED <<arg, phase, walkVars, reqIndices, db, keys, tmp, result>>

(* if !hasRight || !hasLeft, return an error                               *)
MissingNode ==
    /\ phase = "fold"
    /\ pos <= Len(keys)
    /\ keys[pos] # 1
    /\ getParent(keys[pos]) \notin DOMAIN db
    /\ ~ ({leftOf(keys[pos]), rightOf(keys[pos])} \subseteq DOMAIN db)
    /\ Return("error")
    /\ UNCHANGED <<arg, walkVars, reqIndices, foldVars>>

(* Variant: the sibling is hashed on the wrong side.                       *)
HashPairSwapped ==
    /\ phase = "fold"
    /\ pos <= Len(keys)
    /\ keys[pos] # 1
    /\ getParent(keys[pos]) \notin DOMAIN db
    /\ {leftOf(keys[pos]), rightOf(keys[pos])} \subseteq DOMAIN db
    /\ tmp' = <<Copy(db[rightOf(keys[pos])], tmp[1]), Copy(db[leftOf(keys[pos])], tmp[2])>>
    /\ db' = [k \in DOMAIN db \cup {getParent(keys[pos])} |->
                IF k \in DOMAIN db THEN db[k] ELSE hashFn(tmp'[1], tmp'[2])]
    /\ keys' = Append(keys, getParent(keys[pos]))
    /\ pos' = pos + 1
    /\ UNCHANGED <<arg, phase, walkVars, reqIndices, result>>

(* Variant: hasParent is not looked at.                                    *)
HashPairAgain ==
    /\ phase = "fold"
    /\ pos <= Len(keys)
    /\ keys[pos] # 1
    /\ {leftOf(keys[pos]), rightOf(keys[pos])} \subseteq DOMAIN db
    /\ tmp' = <<Copy(db[leftOf(keys[pos])], tmp[1]), Copy(db[rightOf(keys[pos])], tmp[2])>>
    /\ db' = [k \in DOMAIN db \cup {getParent(keys[pos])} |->
                IF k \in DOMAIN db THEN db[k] ELSE hashFn(tmp'[1], tmp'[2])]
    /\ keys' = Append(keys, getParent(keys[pos]))
    /\ pos' = pos + 1
    /\ UNCHANGED <<arg, phase, walkVars, reqIndices, result>>

(* Left and right are copied into the one buffer, over what the last pair  *)
(* left there; db[parent] = hashFn(tmp); the parent joins the end of the   *)
(* list.                                                                   *)
HashPair ==
    /\ phase = "fold"
    /\ pos <= Len(keys)
    /\ keys[pos] # 1
    /\ getParent(keys[pos]) \notin DOMAIN db
    /\ {leftOf(keys[pos]), rightOf(keys[pos])} \subseteq DOMAIN db
    /\ tmp' = <<Copy(db[leftOf(keys[pos])], tmp[1]), Copy(db[rightOf(keys[pos])], tmp[2])>>
    /\ db' = [k \in DOMAIN db \cup {getParent(keys[pos])} |->
                IF k \in DOMAIN db THEN db[k] ELSE hashFn(tmp'[1], tmp'[2])]
    /\ keys' = Append(keys, getParent(keys[pos]))
    /\ pos' = pos + 1
    /\ UNCHANGED <<arg, phase, walkVars, reqIndices, result>>

(* The loop condition pos < len(keys) fails.                               *)
KeysExhausted ==
    /\ phase = "fold"
    /\ pos > Len(keys)
    /\ phase' = "compare"
    /\ UNCHANGED <<arg, walkVars, reqIndices, foldVars, result>>

(* res, ok := db[1]; return bytes.Equal(res, root)                         *)
CompareRoot ==
    /\ phase = "compare"
    /\ Return(IF 1 \notin DOMAIN db THEN "error"
              ELSE IF db[1] = Value[1] THEN "true" ELSE "false")
    /\ UNCHANGED <<arg, walkVars, reqIndices, foldVars>>

(* The call has returned.                                                  *)
Returned == phase = "done" /\ UNCHANGED vars

Next ==
    \/ CheckLeafCount
    \/ NextLeaf \/ Climb \/ CollectRequired
    \/ Load
    \/ ReachRoot \/ SkipKnownParent \/ MissingNode \/ HashPair \/ KeysExhausted
    \/ CompareRoot
    \/ Returned

(* The verifier is straight-line code: while it can take a step, it does.  *)
Spec == Init /\ [][Next]_vars /\ WF_vars(Next)

---------------------------------------------------------------------------
(***************************************************************************)
(* What the verifier promises.                                             *)
(***************************************************************************)
TypeOK ==
    /\ phase \in {"start", "walk", "load", "fold", "compare", "done"}
    /\ li \in 0 .. Len(arg.indices)
    /\ cur \in Nodes
    /\ required \subseteq Nodes
    /\ computed \subseteq Nodes
    /\ reqIndices \in Seq(Nodes)
    /\ DOMAIN db \subseteq Nodes
    /\ keys \in Seq(Nodes)
    /\ pos \in 1 .. Len(keys) + 1
    /\ result \in {"none", "true", "false", "error"}

(* No index twice, and none that the proof computes from another.          *)
IndependentIndices ==
    /\ \A i, j \in DOMAIN arg.indices :
            arg.indices[i] = arg.indices[j] => i = j
    /\ Requested \cap computed = {}

(* VerifyMultiproof's soundness: if it answers true for the tree's root,   *)
(* every leaf it was given, copied over the value of the tree's node at    *)
(* its index, changes nothing there: a leaf of 32 bytes is that value, a   *)
(* longer one starts with it, and a shorter one is its beginning, the rest *)
(* having been found in the buffer.  The leaves and hashes that came along *)
(* may be of any length.  Restricted to independent indices: a leaf that   *)
(* another leaf's path runs through is overwritten by neither, and is not  *)
(* compared with what is below it.                                         *)
AcceptedLeavesAreInTree ==
    result = "true" /\ IndependentIndices =>
        \A i \in DOMAIN arg.indices :
            Copy(arg.leaves[i], Value[arg.indices[i]]) = Value[arg.indices[i]]

(* The leaves and hashes are those of the tree at the right indices, what  *)
(* ProveMulti (tree.go) returns.                                           *)
HonestLeaves == /\ Len(arg.leaves) = Len(arg.indices)
                /\ \A i \in DOMAIN arg.indices : arg.leaves[i] = Value[arg.indices[i]]
HonestProof  == /\ Len(arg.proof) = Len(reqIndices)
                /\ \A i \in DOMAIN reqIndices : arg.proof[i] = Value[reqIndices[i]]

(* An honest proof may fail with an error, but the answer is never false:  *)
(* the fold never computes a node that differs from the tree's.            *)
HonestProofNeverFalse ==
    HonestLeaves /\ HonestProof => result # "false"

(* getRequiredIndices: the strict ancestors of a node, by recursion.       *)
Ancestors[k \in Nat] ==
    IF k <= 1 THEN {} ELSE {getParent(k)} \cup Ancestors[getParent(k)]

(* getRequiredIndices returns a decreasing list that, with independent     *)
(* leaves, is the exact complement: every path of the tree from a bottom   *)
(* node to the root meets the leaves or the list, and exactly once.        *)
RequiredIndicesComplete ==
    phase \in {"load", "fold", "compare"} =>
        /\ computed = UNION {Ancestors[k] : k \in Requested}
        /\ \A i \in 1 .. Len(reqIndices) - 1 : reqIndices[i] > reqIndices[i + 1]
        /\ IndependentIndices /\ Requested # {} =>
             \A b \in {k \in Nodes : 2 * k \notin Nodes} :
                Cardinality((Ancestors[b] \cup {b})
                              \cap (Requested \cup Elements(reqIndices))) = 1

(* The fold never hashes a pair twice: with the work list it appends to    *)
(* while it reads, no parent is queued again, so the loop is linear in the *)
(* number of leaves, hashes and computed nodes.                            *)
NoNodeHashedTwice ==
    phase \in {"fold", "compare", "done"} =>
        Len(keys) <= Len(arg.indices) + Len(reqIndices) + Cardinality(computed)

(* proof.go 37, "VerifyMultiproof verifies a proof for multiple leaves     *)
(* against the given root": what ProveMulti returns for the tree is        *)
(* accepted.                                                               *)
HonestProofAccepted ==
    HonestLeaves /\ HonestProof => result \in {"none", "true"}

(* It holds when the indices lie on one path to the root: then the sibling *)
(* of every node taken up was given or has been computed before.           *)
OnOnePath == \E k \in Requested : Requested \subseteq Ancestors[k] \cup {k}
HonestPathAccepted ==
    HonestLeaves /\ HonestProof /\ OnOnePath => result \in {"none", "true"}

(* The append-while-iterating loop ends: every call returns.               *)
Termination == <>(result # "none")
===========================================================================
