----------------------------- MODULE ProofTree -----------------------------
(***************************************************************************)
(* A tree of tree.go and the proofs taken from it: Node.Hash, Prove and    *)
(* ProveMulti, the compression of multiproofs, and VerifyProof (proof.go). *)
(*                                                                         *)
(* A branch starts without a value; hashing a subtree leaves the hash in   *)
(* every branch of it, and Prove and ProveMulti hash the subtrees beside   *)
(* the path, so what a later call finds in a node depends on the calls     *)
(* before.  VerifyProof runs one loop iteration per step, on a proof as it *)
(* was made or altered on its way, with leaves and hashes of any length.   *)
(***************************************************************************)
EXTENDS MerkleTree

CONSTANTS
    Targets,      \* the indices Prove is called with
    path,         \* path[k]: the nodes from k up to a child of the root
    Requests,     \* the index lists ProveMulti is called with
    zeroHashes,   \* zeroHashes[l]: the root of a zero tree of depth l
    Foreign       \* bytes that a proof may carry though Prove did not put them there

ASSUME TargetsAssumption ==
    /\ Nodes \subseteq Targets /\ Targets \subseteq Nat \ {0}
    /\ \A n \in Targets \ {1} : getParent(n) \in Targets
ASSUME PathAssumption ==
    /\ path[1] = << >>
    /\ \A n \in Targets : path[n] \in Seq(Targets)
    /\ \A n \in Targets \ {1} : path[n] = <<n>> \o path[getParent(n)]
ASSUME RequestsAssumption == Requests \subseteq Seq(Nodes \ {1})

VARIABLES
    cached,      \* the branches with a value
    proof,       \* what the last call of Prove returned: [index, leaf, hashes]
    multi,       \* what the last call of ProveMulti returned
    altered,     \* proof is not what Prove returned
    phase,       \* "made": there is a proof; "verify": VerifyProof runs
    i, k, node,  \* VerifyProof: hashes used, index >> i, the hash so far
    tmp,         \* VerifyProof: the two halves of the 64 bytes that are hashed
    result       \* the answer of VerifyProof, "none" before

callVars == <<i, k, node, tmp>>
vars == <<cached, proof, multi, altered, phase, callVars, result>>

Branches   == {n \in Nodes : 2 * n \in Nodes}
OnPath(n)  == {path[n][j] : j \in DOMAIN path[n]} \cup {1}
Subtree(n) == {b \in Nodes : n \in OnPath(b)}

(* math.Log2 of the index, rounded down.                                   *)
getPathLength(n) == Len(path[n])

(* hashNode(n) leaves a value in every branch below n.                     *)
HashedBelow(S) == Branches \cap UNION {Subtree(n) : n \in S}

(* n.value: a leaf always has one, a branch once it has been hashed.       *)
nodeValueIn(c, n) == IF n \in Branches \ c THEN Nil ELSE Value[n]
nodeValue(n)      == nodeValueIn(cached, n)

NoBytes == <<ZeroBytes, ZeroBytes>>
NoProof == [index |-> 1, leaf |-> Nil, hashes |-> << >>]
NoMulti == [indices |-> << >>, leaves |-> << >>, hashes |-> << >>]

Init ==
    /\ cached = {}
    /\ proof = NoProof /\ multi = NoMulti /\ altered = FALSE
    /\ phase = "idle"
    /\ i = 0 /\ k = 1 /\ node = Nil /\ tmp = NoBytes
    /\ result = "none"

(* tree.Hash(), or the hash of a subtree through Get.                      *)
Hash(n) ==
    /\ phase = "idle"
    /\ cached' = cached \cup HashedBelow({n})
    /\ UNCHANGED <<proof, multi, altered, phase, callVars, result>>

(* Variant: the hashes from the root down.                                 *)
ProveRootFirst(n) ==
    LET len      == Len(path[n])
        siblings == [j \in 1 .. len |-> getSibling(path[n][len + 1 - j])]
    IN  /\ phase = "idle"
        /\ n \in Nodes
        /\ cached' = cached \cup HashedBelow(Elements(siblings))
        /\ proof' = [index |-> n, leaf |-> nodeValue(n),
                     hashes |-> [j \in DOMAIN siblings |-> Value[siblings[j]]]]
        /\ altered' = FALSE /\ phase' = "made" /\ result' = "none"
        /\ multi' = NoMulti
        /\ UNCHANGED callVars

(* Prove: the siblings of the path are hashed, the node itself is not.     *)
(* Below a leaf there is no sibling, and hashNode(nil) is called before    *)
(* the loop looks at cur == nil.                                           *)
Prove(n) ==
    LET siblings == [j \in DOMAIN path[n] |-> getSibling(path[n][j])]
    IN  /\ phase = "idle"
        /\ cached' = cached \cup HashedBelow(Elements(siblings))
        /\ \/ /\ n \in Nodes
              /\ proof' = [index |-> n, leaf |-> nodeValue(n),
                           hashes |-> [j \in DOMAIN siblings |-> Value[siblings[j]]]]
              /\ altered' = FALSE /\ phase' = "made" /\ result' = "none"
           \/ /\ n \notin Nodes
              /\ result' = "panic"
              /\ proof' = NoProof /\ altered' = FALSE /\ phase' = "idle"
        /\ multi' = NoMulti
        /\ UNCHANGED callVars

(* Variant: what is computed is asked for as well.                         *)
requiredOrComputed(S) ==
    LET computed == UNION {OnPath(n) : n \in {getParent(m) : m \in S \ {1}}}
    IN  SetToSortedDesc({getSibling(m) : m \in (S \cup computed) \ {1}} \ S)

(* getRequiredIndices; Multiproof models its loops.                        *)
requiredIndices(S) ==
    LET computed == UNION {OnPath(n) : n \in {getParent(m) : m \in S \ {1}}}
        siblings == {getSibling(m) : m \in (S \cup computed) \ {1}}
    IN  SetToSortedDesc((siblings \ computed) \ S)

(* ProveMulti reads the values of the leaves before it hashes the nodes    *)
(* that are required.                                                      *)
ProveMulti(s) ==
    LET req == requiredIndices(Elements(s))
    IN  /\ phase = "idle"
        /\ multi' = [indices |-> s,
                     leaves  |-> [j \in DOMAIN s |-> nodeValue(s[j])],
                     hashes  |-> [j \in DOMAIN req |-> Value[req[j]]]]
        /\ cached' = cached \cup HashedBelow(Elements(req))
        /\ proof' = NoProof /\ altered' = FALSE /\ result' = "none"
        /\ UNCHANGED <<phase, callVars>>

(* Other bytes in place of v: foreign ones, a root, too few, too many.     *)
Spoilt(v) == Foreign \cup {Value[1], SubSeq(v, 1, Len(v) - 1), v \o <<<<0>>>>}

(* A proof need not arrive as it was made.                                 *)
Alter ==
    /\ phase = "made"
    /\ ~ altered
    /\ altered' = TRUE
    /\ \/ \E v \in Spoilt(proof.leaf) : proof' = [proof EXCEPT !.leaf = v]
       \/ \E j \in DOMAIN proof.hashes : \E v \in Spoilt(proof.hashes[j]) :
             proof' = [proof EXCEPT !.hashes[j] = v]
       \/ \E n \in Nodes : proof' = [proof EXCEPT !.index = n]
    /\ UNCHANGED <<cached, multi, phase, callVars, result>>

(* Variant: the number of hashes is not looked at.                         *)
CallVerifyUnchecked ==
    /\ phase = "made"
    /\ phase' = "verify"
    /\ i' = 0 /\ k' = proof.index /\ node' = proof.leaf /\ tmp' = NoBytes
    /\ UNCHANGED <<cached, proof, multi, altered, result>>

(* VerifyProof: the number of hashes is that of the path.                  *)
CallVerify ==
    /\ phase = "made"
    /\ IF Len(proof.hashes) # getPathLength(proof.index)
       THEN /\ result' = "error" /\ phase' = "idle"
            /\ UNCHANGED callVars
       ELSE /\ phase' = "verify" /\ result' = result
            /\ i' = 0 /\ k' = proof.index /\ node' = proof.leaf /\ tmp' = NoBytes
    /\ UNCHANGED <<cached, proof, multi, altered>>

(* One iteration: getPosAtLevel(index, i) is the lowest bit of index >> i. *)
(* Node and hash are copied into the buffer over what is there.            *)
VerifyStep ==
    /\ phase = "verify"
    /\ i < Len(proof.hashes)
    /\ LET h == proof.hashes[i + 1]
       IN  tmp' = IF k % 2 = 1 THEN <<Copy(h, tmp[1]), Copy(node, tmp[2])>>
                  ELSE <<Copy(node, tmp[1]), Copy(h, tmp[2])>>
    /\ node' = hashFn(tmp'[1], tmp'[2])
    /\ i' = i + 1
    /\ k' = getParent(k)
    /\ UNCHANGED <<cached, proof, multi, altered, phase, result>>

(* bytes.Equal(root, node), with the root of the tree.                     *)
VerifyEnd ==
    /\ phase = "verify"
    /\ i = Len(proof.hashes)
    /\ result' = IF node = Value[1] THEN "true" ELSE "false"
    /\ phase' = "idle"
    /\ i' = 0 /\ k' = 1 /\ node' = Nil /\ tmp' = NoBytes
    /\ UNCHANGED <<cached, proof, multi, altered>>

Verify == CallVerify \/ VerifyStep \/ VerifyEnd

Next ==
    \/ \E n \in Nodes : Hash(n)
    \/ \E n \in Targets : Prove(n)
    \/ \E s \in Requests : ProveMulti(s)
    \/ Alter
    \/ Verify

Spec == Init /\ [][Next]_vars

---------------------------------------------------------------------------
TypeOK ==
    /\ cached \subseteq Branches
    /\ proof.index \in Nodes
    /\ DOMAIN proof.hashes = 1 .. Len(proof.hashes) /\ Len(proof.hashes) \in Nat
    /\ altered \in BOOLEAN
    /\ phase \in {"idle", "made", "verify"}
    /\ i \in 0 .. Len(proof.hashes)
    /\ k \in Nodes
    /\ result \in {"none", "true", "false", "error", "panic"}

(* The 32 bytes that v is in a new buffer: cut off, or filled with zeros.  *)
Bytes(v) == Copy(v, ZeroBytes)

(* VerifyProof is sound: a proof it accepts, however it came about and     *)
(* whatever the lengths of its hashes, shows the value of the tree's node  *)
(* at its index.                                                           *)
AcceptedLeafIsInTree ==
    result = "true" => Bytes(proof.leaf) = Value[proof.index]

(* A proof that Prove returned is accepted, for every node of the tree and *)
(* whatever was called before, unless its leaf is nil.                     *)
MadeProofAccepted ==
    ~ altered /\ proof.leaf # Nil => result \notin {"false", "error"}

(* ProveMulti reads the leaves before it hashes, and hashing leaves values *)
(* in branches that had none.  It returns no leaf that is out of date by   *)
(* then: the subtrees it hashes hold none of the nodes it was asked for,   *)
(* because getRequiredIndices drops what lies on their paths.              *)
LeavesUpToDate ==
    [][multi' # multi =>
         \A j \in DOMAIN multi'.indices :
            multi'.leaves[j] = nodeValueIn(cached', multi'.indices[j])]_vars

(* Compress: zero hashes are dropped, their levels kept in order.          *)
zeroHashLevels(v) == {l \in DOMAIN zeroHashes : zeroHashes[l] = v}
Compress(hs) ==
    LET c[j \in 0 .. Len(hs)] ==
            IF j = 0 THEN [hashes |-> << >>, levels |-> << >>]
            ELSE IF zeroHashLevels(hs[j]) = {}
            THEN [hashes |-> Append(c[j - 1].hashes, hs[j]), levels |-> c[j - 1].levels]
            ELSE [hashes |-> Append(c[j - 1].hashes, Nil),
                  levels |-> Append(c[j - 1].levels,
                                    CHOOSE l \in zeroHashLevels(hs[j]) : TRUE)]
    IN  c[Len(hs)]

(* Variant: zc is not incremented.                                         *)
DecompressFirstLevel(c) ==
    [j \in DOMAIN c.hashes |->
        IF c.hashes[j] = Nil THEN zeroHashes[c.levels[1]] ELSE c.hashes[j]]

(* Decompress: the n-th nil takes the n-th level.                          *)
Decompress(c) ==
    [j \in DOMAIN c.hashes |->
        IF c.hashes[j] = Nil
        THEN zeroHashes[c.levels[Cardinality({n \in 1 .. j : c.hashes[n] = Nil})]]
        ELSE c.hashes[j]]

(* Compressing a multiproof loses nothing, with zero subtrees of several   *)
(* depths omitted from one proof.                                          *)
CompressionLossless == Decompress(Compress(multi.hashes)) = multi.hashes
===========================================================================
