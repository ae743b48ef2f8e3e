------------------------- MODULE ProofTree_proofs -------------------------
(***************************************************************************)
(* VerifyProof accepts only what is in the tree, and accepts every proof   *)
(* that Prove makes with a leaf; no leaf that ProveMulti returns is out of *)
(* date.  For every tree, every path length and every order of the calls.  *)
(***************************************************************************)
EXTENDS ProofTree, Induction

(* Parents, siblings and children of nodes are where arithmetic says.      *)
LEMMA IndexArithmetic ==
    ASSUME NEW x \in Nodes, x # 1
    PROVE  /\ getParent(x) \in Nodes /\ getSibling(x) \in Nodes
           /\ getParent(x) \in Nat /\ getParent(x) < x /\ getParent(x) >= 1
           /\ x = leftOf(x) \/ x = rightOf(x)
           /\ leftOf(x) = 2 * getParent(x) /\ rightOf(x) = 2 * getParent(x) + 1
           /\ Value[getParent(x)] = hashFn(Value[leftOf(x)], Value[rightOf(x)])
<1>1. x \in Nat /\ x >= 2
  BY NodesAssumption
<1>2. getParent(x) \in Nodes /\ getSibling(x) \in Nodes
  BY NodesAssumption
<1>3. getParent(x) \in Nat /\ getParent(x) < x /\ getParent(x) >= 1
  BY <1>1 DEF getParent
<1>4. x = leftOf(x) \/ x = rightOf(x)
  BY <1>1 DEF getParent, leftOf, rightOf
<1> QED BY <1>2, <1>3, <1>4, ValueAssumption DEF leftOf, rightOf

(* What fills a half of the buffer leaves nothing of what was there.       *)
LEMMA Bytes32 ==
    ASSUME NEW v, v \in Seq(Elements(v)), Len(v) = HashLen, NEW half
    PROVE  Copy(v, half) = v
<1>1. v = [c \in 1 .. HashLen |-> v[c]]
  OBVIOUS
<1>2. \A c \in 1 .. HashLen : c <= Len(v)
  BY ValueAssumption
<1> QED BY <1>1, <1>2 DEF Copy

(* The value of a node fills a half of the buffer, and so does a digest.   *)
LEMMA ValueFills == \A n \in Nodes : \A half : Copy(Value[n], half) = Value[n]
BY Bytes32, ValueAssumption, Zenon

LEMMA DigestFills == \A l, r, half : Copy(hashFn(l, r), half) = hashFn(l, r)
<1> TAKE l, r, half
<1> DEFINE d == hashFn(l, r)
<1>1. d = [c \in 1 .. HashLen |-> d[c]] /\ HashLen \in Nat
  BY ValueAssumption DEF hashFn
<1>2. \A c \in 1 .. HashLen : d[c] \in Elements(d)
  BY DEF hashFn, Elements
<1> HIDE DEF d
<1>3. d \in Seq(Elements(d)) /\ Len(d) = HashLen
  BY <1>1, <1>2
<1> QED BY <1>3, Bytes32 DEF d

(* Equal digests, equal halves.                                            *)
LEMMA HashInjective ==
    ASSUME NEW a, NEW b, NEW c, NEW d, hashFn(a, b) = hashFn(c, d)
    PROVE  a = c /\ b = d
<1>1. 1 \in 1 .. HashLen
  BY ValueAssumption
<1>2. hashFn(a, b)[1] = <<1, a, b>> /\ hashFn(c, d)[1] = <<1, c, d>>
  BY <1>1 DEF hashFn
<1> QED BY <1>2

(* What is left of the path is as long as what is left of the hashes.      *)
LengthInv ==
    phase = "verify" => Len(path[k]) = Len(proof.hashes) - i

(* Before the first hash the buffer is new, and after it what is copied    *)
(* beside a sibling is a digest: no byte of an earlier round stays there.  *)
BufferInv ==
    phase = "verify" => \/ tmp = NoBytes
                        \/ \E l, r : node = hashFn(l, r)

(* The hash so far is that of node k only if the leaf is that of the tree. *)
SoundInv ==
    phase = "verify" /\ Bytes(node) = Value[k] =>
        Bytes(proof.leaf) = Value[proof.index]

(* A proof as it was made: the siblings of the path, in order.             *)
MadeInv ==
    phase # "idle" /\ ~ altered =>
        /\ Len(path[proof.index]) = Len(proof.hashes)
        /\ \A j \in 1 .. Len(proof.hashes) :
              proof.hashes[j] = Value[getSibling(path[proof.index][j])]
        /\ proof.leaf # Nil => proof.leaf = Value[proof.index]

(* Of a proof as it was made, every step computes the next node.           *)
CompleteInv ==
    phase = "verify" /\ ~ altered =>
        /\ \A j \in 1 .. Len(path[k]) : path[k][j] = path[proof.index][i + j]
        /\ proof.leaf # Nil => node = Value[k]

RecordInv == proof = [index |-> proof.index, leaf |-> proof.leaf, hashes |-> proof.hashes]

ResultInv == /\ phase # "idle" => result = "none"
             /\ phase # "verify" => i = 0

IInv == TypeOK /\ RecordInv /\ LengthInv /\ BufferInv /\ SoundInv /\ MadeInv /\ CompleteInv /\ ResultInv
            /\ AcceptedLeafIsInTree /\ MadeProofAccepted

---------------------------------------------------------------------------
(* The path of a node starts with it and goes on with that of its parent.  *)
LEMMA PathFacts ==
    ASSUME NEW n \in Targets
    PROVE  /\ Len(path[n]) \in Nat /\ DOMAIN path[n] = 1 .. Len(path[n])
           /\ n = 1 <=> Len(path[n]) = 0
           /\ n # 1 => /\ getParent(n) \in Targets
                       /\ Len(path[n]) = Len(path[getParent(n)]) + 1
                       /\ path[n][1] = n
                       /\ \A j \in 1 .. Len(path[getParent(n)]) :
                             path[n][j + 1] = path[getParent(n)][j]
<1>1. path[n] \in Seq(Targets)
  BY PathAssumption
<1>2. CASE n = 1
  BY <1>1, <1>2, PathAssumption
<1>3. CASE n # 1
  <2>1. getParent(n) \in Targets
    BY <1>3, TargetsAssumption
  <2>2. path[getParent(n)] \in Seq(Targets) /\ <<n>> \in Seq(Targets)
    BY <2>1, PathAssumption
  <2>3. path[n] = <<n>> \o path[getParent(n)]
    BY <1>3, PathAssumption
  <2> QED BY <1>1, <1>3, <2>1, <2>2, <2>3
<1> QED BY <1>2, <1>3

(* The empty proof is a proof.                                             *)
LEMMA NoProofFacts ==
    /\ NoProof = [index |-> NoProof.index, leaf |-> NoProof.leaf, hashes |-> NoProof.hashes]
    /\ NoProof.index = 1 /\ NoProof.leaf = Nil
    /\ Len(NoProof.hashes) = 0 /\ 0 \in 0 .. Len(NoProof.hashes)
    /\ Len(NoProof.hashes) \in Nat /\ DOMAIN NoProof.hashes = 1 .. Len(NoProof.hashes)
<1>1. DOMAIN << >> = 1 .. 0 /\ Len(<< >>) = 0
  OBVIOUS
<1> QED BY <1>1 DEF NoProof

(* The nodes of the tree are among the indices that have a path.           *)
LEMMA NodeFacts == Nodes \subseteq Nat \ {0} /\ 1 \in Nodes /\ Nodes \subseteq Targets
  BY NodesAssumption, TargetsAssumption

(* One iteration of VerifyProof hashes node and sibling in the order that  *)
(* their parent in the tree has, and the hash has no other preimage.       *)
LEMMA HashUp ==
    ASSUME NEW n \in Nodes, n # 1, NEW v, NEW h
    PROVE  LET up == IF n % 2 = 1 THEN hashFn(h, v) ELSE hashFn(v, h)
           IN  /\ up = Value[getParent(n)] => v = Value[n]
               /\ v = Value[n] /\ h = Value[getSibling(n)] => up = Value[getParent(n)]
<1>1. n \in Nat /\ n # 0
  BY NodeFacts
<1>2. Value[getParent(n)] = hashFn(Value[leftOf(n)], Value[rightOf(n)])
  BY ValueAssumption
<1>3. CASE n % 2 = 1
  <2>1. rightOf(n) = n /\ leftOf(n) = getSibling(n)
    BY <1>1, <1>3 DEF rightOf, leftOf, getParent, getSibling
  <2>2. hashFn(h, v) = Value[getParent(n)] => v = Value[n]
    BY <1>2, <2>1, HashInjective
  <2> QED BY <1>2, <1>3, <2>1, <2>2
<1>4. CASE n % 2 # 1
  <2>1. leftOf(n) = n /\ rightOf(n) = getSibling(n)
    BY <1>1, <1>4 DEF rightOf, leftOf, getParent, getSibling
  <2>2. hashFn(v, h) = Value[getParent(n)] => v = Value[n]
    BY <1>2, <2>1, HashInjective
  <2> QED BY <1>2, <1>4, <2>1, <2>2
<1> QED BY <1>3, <1>4

(* In every round the buffer gets the 32 bytes of the node itself.         *)
LEMMA OwnHalf ==
    ASSUME BufferInv, phase = "verify", NEW c \in {1, 2}
    PROVE  Copy(node, tmp[c]) = Bytes(node)
<1>1. CASE tmp = NoBytes
  BY <1>1 DEF NoBytes, Bytes
<1>2. CASE \E l, r : node = hashFn(l, r)
  BY <1>2, DigestFills DEF Bytes
<1> QED BY <1>1, <1>2 DEF BufferInv

---------------------------------------------------------------------------
(* The empty proof before the first call.                                  *)
LEMMA InitIInv == Init => IInv
<1> SUFFICES ASSUME Init PROVE IInv
  OBVIOUS
<1>1. /\ cached = {} /\ proof = NoProof /\ altered = FALSE /\ phase = "idle"
      /\ i = 0 /\ k = 1 /\ result = "none"
  BY DEF Init
<1>2. TypeOK
  BY <1>1, NodeFacts, NoProofFacts DEF TypeOK
<1>3. RecordInv
  BY <1>1, NoProofFacts DEF RecordInv
<1> QED
  BY <1>1, <1>2, <1>3 DEF IInv, LengthInv, BufferInv, SoundInv, MadeInv, CompleteInv, ResultInv,
     AcceptedLeafIsInTree, MadeProofAccepted

(* Prove returns the siblings of the path, or panics.                      *)
LEMMA ProveStep ==
    ASSUME IInv, NEW n \in Targets, Prove(n)
    PROVE  IInv'
<1> DEFINE siblings == [j \in DOMAIN path[n] |-> getSibling(path[n][j])]
<1>1. Len(path[n]) \in Nat /\ DOMAIN path[n] = 1 .. Len(path[n])
  BY PathFacts
<1>2. cached' \subseteq Branches
  BY DEF Prove, HashedBelow, IInv, TypeOK
<1>3. CASE n \in Nodes
  <2>1. /\ proof' = [index |-> n, leaf |-> nodeValue(n),
                     hashes |-> [j \in DOMAIN siblings |-> Value[siblings[j]]]]
        /\ altered' = FALSE /\ phase' = "made" /\ result' = "none"
        /\ UNCHANGED <<i, k, node>>
    BY <1>3 DEF Prove, callVars
  <2>2. DOMAIN proof'.hashes = 1 .. Len(path[n]) /\ Len(proof'.hashes) = Len(path[n])
    BY <1>1, <2>1
  <2>3. i = 0
    BY DEF Prove, IInv, ResultInv
  <2>4. TypeOK'
    <3>1. proof'.index = n
      BY <2>1
    <3>2. DOMAIN proof'.hashes = 1 .. Len(proof'.hashes) /\ Len(proof'.hashes) \in Nat
      BY <1>1, <2>2
    <3>3. altered' = FALSE /\ phase' = "made" /\ result' = "none" /\ i' = 0 /\ k' = k
      BY <2>1, <2>3
    <3>4. i' \in 0 .. Len(proof'.hashes)
      BY <3>2, <3>3
    <3> QED BY <1>2, <1>3, <3>1, <3>2, <3>3, <3>4 DEF IInv, TypeOK
  <2>5. RecordInv'
    BY <2>1 DEF RecordInv
  <2>6. MadeInv'
    <3>1. proof'.index = n /\ (proof'.leaf # Nil => proof'.leaf = Value[n])
      BY <2>1 DEF nodeValue, nodeValueIn
    <3>2. \A j \in 1 .. Len(path[n]) : proof'.hashes[j] = Value[getSibling(path[n][j])]
      BY <1>1, <2>1
    <3> QED BY <1>1, <2>2, <3>1, <3>2 DEF MadeInv
  <2> QED
    BY <2>1, <2>3, <2>4, <2>5, <2>6 DEF IInv, LengthInv, BufferInv, SoundInv, CompleteInv, ResultInv,
       AcceptedLeafIsInTree, MadeProofAccepted
<1>4. CASE n \notin Nodes
  <2>1. /\ phase' = "idle" /\ result' = "panic" /\ proof' = NoProof /\ altered' = FALSE
        /\ UNCHANGED <<i, k, node>> /\ i = 0 /\ k \in Nodes
    BY <1>4 DEF Prove, callVars, IInv, ResultInv, TypeOK
  <2>2. TypeOK'
    BY <1>2, <2>1, NodeFacts, NoProofFacts DEF TypeOK
  <2>3. RecordInv'
    BY <2>1, NoProofFacts DEF RecordInv
  <2> QED
    BY <2>1, <2>2, <2>3, NoProofFacts DEF IInv, LengthInv, BufferInv, SoundInv, MadeInv, CompleteInv,
       ResultInv, AcceptedLeafIsInTree, MadeProofAccepted
<1> QED BY <1>3, <1>4

(* Alteration keeps the shape of the proof.                                *)
LEMMA AlterStep ==
    ASSUME IInv, Alter
    PROVE  IInv'
<1>0. /\ proof = [index |-> proof.index, leaf |-> proof.leaf, hashes |-> proof.hashes]
      /\ proof.index \in Nodes
  BY DEF IInv, RecordInv, TypeOK
<1>1. /\ altered' /\ phase = "made" /\ phase' = "made"
      /\ UNCHANGED <<cached, i, k, node, tmp, result>>
  BY DEF Alter, callVars
<1>2. /\ proof'.index \in Nodes
      /\ proof' = [index |-> proof'.index, leaf |-> proof'.leaf, hashes |-> proof'.hashes]
  BY <1>0 DEF Alter
<1>3. DOMAIN proof'.hashes = DOMAIN proof.hashes
  BY <1>0 DEF Alter
<1>4. Len(proof'.hashes) = Len(proof.hashes)
  BY <1>3 DEF IInv, TypeOK
<1>5. TypeOK'
  BY <1>1, <1>2, <1>3, <1>4 DEF IInv, TypeOK
<1> QED
  BY <1>1, <1>2, <1>4, <1>5 DEF IInv, RecordInv, LengthInv, BufferInv, SoundInv, MadeInv, CompleteInv, ResultInv,
     AcceptedLeafIsInTree, MadeProofAccepted

(* VerifyProof starts at the leaf with the whole path before it.           *)
LEMMA CallVerifyStep ==
    ASSUME IInv, CallVerify
    PROVE  IInv'
<1> USE DEF IInv, TypeOK, RecordInv, LengthInv, BufferInv, SoundInv, MadeInv, CompleteInv, ResultInv,
            AcceptedLeafIsInTree, MadeProofAccepted
<1>1. CASE Len(proof.hashes) # getPathLength(proof.index)
  BY <1>1 DEF CallVerify, getPathLength, callVars
<1>2. CASE Len(proof.hashes) = getPathLength(proof.index)
  <2>1. /\ phase' = "verify" /\ result' = result /\ phase = "made"
        /\ i' = 0 /\ k' = proof.index /\ node' = proof.leaf /\ tmp' = NoBytes
        /\ UNCHANGED <<cached, proof, multi, altered>>
    BY <1>2 DEF CallVerify
  <2>2. TypeOK'
    BY <2>1
  <2>3. SoundInv' /\ LengthInv' /\ BufferInv'
    BY <1>2, <2>1 DEF getPathLength
  <2>4. MadeInv' /\ CompleteInv'
    BY <1>2, <2>1 DEF getPathLength
  <2>5. ResultInv' /\ RecordInv' /\ AcceptedLeafIsInTree' /\ MadeProofAccepted'
    BY <2>1 DEF RecordInv
  <2> QED BY <2>2, <2>3, <2>4, <2>5
<1> QED BY <1>1, <1>2

(* One iteration of VerifyProof.                                           *)
LEMMA VerifyStepStep ==
    ASSUME IInv, VerifyStep
    PROVE  IInv'
<1>1. /\ phase = "verify" /\ i < Len(proof.hashes)
      /\ i' = i + 1 /\ k' = getParent(k)
      /\ UNCHANGED <<cached, proof, multi, altered, phase, result>>
      /\ tmp' = IF k % 2 = 1 THEN <<Copy(proof.hashes[i + 1], tmp[1]), Copy(node, tmp[2])>>
                ELSE <<Copy(node, tmp[1]), Copy(proof.hashes[i + 1], tmp[2])>>
      /\ node' = hashFn(tmp'[1], tmp'[2])
  BY DEF VerifyStep
<1>2. k \in Nodes /\ i \in 0 .. Len(proof.hashes) /\ Len(proof.hashes) \in Nat
  BY DEF IInv, TypeOK
<1>3. Len(path[k]) = Len(proof.hashes) - i
  BY <1>1 DEF IInv, RecordInv, LengthInv
<1>4. /\ k # 1 /\ path[k][1] = k
      /\ Len(path[getParent(k)]) \in Nat
      /\ Len(path[k]) = Len(path[getParent(k)]) + 1
      /\ \A j \in 1 .. Len(path[getParent(k)]) : path[k][j + 1] = path[getParent(k)][j]
  <2>1. k # 1
    BY <1>1, <1>2, <1>3, NodeFacts, PathFacts
  <2>2. getParent(k) \in Targets
    BY <1>2, <2>1, NodeFacts, PathFacts
  <2> QED BY <1>2, <2>1, <2>2, NodeFacts, PathFacts
<1>5. getParent(k) \in Nodes
  BY <1>2, <1>4, IndexArithmetic
<1>6. PICK h : /\ node' = IF k % 2 = 1 THEN hashFn(h, Bytes(node))
                           ELSE hashFn(Bytes(node), h)
               /\ proof.hashes[i + 1] = Value[getSibling(k)] => h = Value[getSibling(k)]
  <2>1. BufferInv
    BY DEF IInv
  <2>2. Copy(node, tmp[1]) = Bytes(node) /\ Copy(node, tmp[2]) = Bytes(node)
    BY <1>1, <2>1, OwnHalf
  <2>3. getSibling(k) \in Nodes
    BY <1>2, <1>4, IndexArithmetic
  <2> DEFINE copied(c) == Copy(proof.hashes[i + 1], tmp[c])
  <2>4. \A c : proof.hashes[i + 1] = Value[getSibling(k)] => copied(c) = Value[getSibling(k)]
    BY <2>3, ValueFills
  <2>5. node' = IF k % 2 = 1 THEN hashFn(copied(1), Bytes(node)) ELSE hashFn(Bytes(node), copied(2))
    BY <1>1, <2>2
  <2> HIDE DEF copied
  <2> QED BY <2>4, <2>5
<1>12. /\ node' = Value[getParent(k)] => Bytes(node) = Value[k]
       /\ Bytes(node) = Value[k] /\ proof.hashes[i + 1] = Value[getSibling(k)] =>
             node' = Value[getParent(k)]
  BY <1>2, <1>4, <1>6, HashUp
<1>13. Bytes(node)' = node' /\ BufferInv'
  BY <1>6, DigestFills DEF BufferInv, Bytes
<1>7. TypeOK'
  BY <1>1, <1>2, <1>5 DEF IInv, TypeOK
<1>8. LengthInv'
  <2> DEFINE p == Len(path[getParent(k)])
             q == Len(path[k])
             n == Len(proof.hashes)
  <2>0. i \in Nat /\ p \in Nat /\ n \in Nat /\ q = n - i /\ q = p + 1
    <3>1. i \in Nat /\ n \in Nat
      BY <1>2
    <3>2. q = n - i
      BY <1>3
    <3>3. p \in Nat /\ q = p + 1
      BY <1>4
    <3> QED BY <3>1, <3>2, <3>3
  <2>1. p = n - (i + 1)
    <3> HIDE DEF p, q, n
    <3> QED BY <2>0
  <2> QED BY <1>1, <2>1 DEF LengthInv
<1>9. SoundInv'
  <2>1. UNCHANGED proof /\ k' = getParent(k)
    BY <1>1
  <2>2. Bytes(proof.leaf)' = Bytes(proof.leaf)
    BY <2>1 DEF Bytes
  <2> QED BY <1>1, <1>12, <1>13, <2>1, <2>2 DEF IInv, SoundInv
<1>10. CompleteInv'
  <2> SUFFICES ASSUME ~ altered
               PROVE  /\ \A j \in 1 .. Len(path[k']) : path[k'][j] = path[proof.index][i' + j]
                      /\ proof.leaf # Nil => node' = Value[k']
    BY <1>1 DEF CompleteInv
  <2>1. \A j \in 1 .. Len(path[k]) : path[k][j] = path[proof.index][i + j]
    BY <1>1 DEF IInv, CompleteInv
  <2>2. ASSUME NEW j \in 1 .. Len(path[k']) PROVE path[k'][j] = path[proof.index][i' + j]
    <3>0. j \in 1 .. Len(path[getParent(k)]) /\ k' = getParent(k)
      BY <1>1
    <3> DEFINE p == Len(path[getParent(k)])
    <3>1a. j + 1 \in 1 .. p + 1
      <4> p \in Nat
        BY <1>4
      <4> HIDE DEF p
      <4> QED BY <3>0 DEF p
    <3>1. j + 1 \in 1 .. Len(path[k]) /\ path[k][j + 1] = path[k'][j]
      BY <1>4, <3>0, <3>1a
    <3>2. path[k][j + 1] = path[proof.index][i + (j + 1)]
      BY <2>1, <3>1
    <3> QED BY <1>1, <1>2, <3>1, <3>2
  <2>3. ASSUME proof.leaf # Nil PROVE node' = Value[k']
    <3>1. node = Value[k] /\ Bytes(node) = Value[k]
      BY <1>1, <1>2, <2>3, ValueFills DEF IInv, CompleteInv, Bytes
    <3>2. path[proof.index][i + 1] = k
      BY <1>3, <1>4, <2>1
    <3>3. proof.hashes[i + 1] = Value[getSibling(k)]
      BY <1>1, <1>2, <3>2 DEF IInv, MadeInv
    <3> QED BY <1>1, <1>12, <3>1, <3>3
  <2> QED BY <2>2, <2>3
<1>11. MadeInv' /\ RecordInv' /\ ResultInv' /\ AcceptedLeafIsInTree' /\ MadeProofAccepted'
  BY <1>1 DEF IInv, MadeInv, RecordInv, ResultInv, AcceptedLeafIsInTree, MadeProofAccepted
<1> QED BY <1>7, <1>8, <1>9, <1>10, <1>11, <1>13 DEF IInv

(* When the hashes are used up the root has been reached.                  *)
LEMMA VerifyEndStep ==
    ASSUME IInv, VerifyEnd
    PROVE  IInv'
<1>1. /\ phase = "verify" /\ i = Len(proof.hashes)
      /\ result' = IF node = Value[1] THEN "true" ELSE "false"
      /\ phase' = "idle" /\ i' = 0 /\ k' = 1 /\ node' = Nil
      /\ UNCHANGED <<cached, proof, multi, altered>>
  BY DEF VerifyEnd
<1>2. k = 1
  BY <1>1, NodeFacts, PathFacts DEF IInv, TypeOK, RecordInv, LengthInv
<1>3. node = Value[1] => Bytes(node) = Value[1]
  BY NodeFacts, ValueFills DEF Bytes
<1>4. AcceptedLeafIsInTree'
  BY <1>1, <1>2, <1>3 DEF IInv, SoundInv, AcceptedLeafIsInTree, Bytes
<1>5. MadeProofAccepted'
  BY <1>1, <1>2 DEF IInv, CompleteInv, MadeProofAccepted
<1>6. TypeOK'
  BY <1>1, NodeFacts DEF IInv, TypeOK
<1> QED
  BY <1>1, <1>4, <1>5, <1>6 DEF IInv, RecordInv, LengthInv, BufferInv, SoundInv, MadeInv, CompleteInv, ResultInv

(* ProveMulti forgets the last proof, Hash leaves it alone.                *)
LEMMA OtherStep ==
    ASSUME IInv,
           \/ \E n \in Nodes : Hash(n)
           \/ \E s \in Requests : ProveMulti(s)
           \/ UNCHANGED vars
    PROVE  IInv'
<1>1. cached' \subseteq Branches
  BY DEF Hash, ProveMulti, HashedBelow, vars, IInv, TypeOK
<1>2. CASE (\E n \in Nodes : Hash(n)) \/ UNCHANGED vars
  BY <1>1, <1>2 DEF Hash, vars, callVars, IInv, TypeOK, RecordInv, LengthInv, BufferInv, SoundInv, MadeInv, CompleteInv,
     ResultInv, AcceptedLeafIsInTree, MadeProofAccepted, Bytes
<1>3. CASE \E s \in Requests : ProveMulti(s)
  <2>1. /\ phase = "idle" /\ proof' = NoProof /\ altered' = FALSE /\ result' = "none"
        /\ UNCHANGED <<phase, i, k, node>> /\ i = 0 /\ k \in Nodes
    BY <1>3 DEF ProveMulti, callVars, IInv, ResultInv, TypeOK
  <2>2. TypeOK'
    BY <1>1, <2>1, NodeFacts, NoProofFacts DEF TypeOK
  <2>3. RecordInv'
    BY <2>1, NoProofFacts DEF RecordInv
  <2> QED
    BY <2>1, <2>2, <2>3, NoProofFacts DEF IInv, LengthInv, BufferInv, SoundInv, MadeInv, CompleteInv,
       ResultInv, AcceptedLeafIsInTree, MadeProofAccepted
<1> QED BY <1>2, <1>3

---------------------------------------------------------------------------
(* The inductive invariant of the calls on a tree and of VerifyProof.      *)
THEOREM Invariance == Spec => []IInv
<1>1. IInv /\ [Next]_vars => IInv'
  <2> SUFFICES ASSUME IInv, [Next]_vars PROVE IInv'
    OBVIOUS
  <2>1. CASE \E n \in Targets : Prove(n)
    BY <2>1, ProveStep
  <2>2. CASE Alter
    BY <2>2, AlterStep
  <2>3. CASE CallVerify
    BY <2>3, CallVerifyStep
  <2>4. CASE VerifyStep
    BY <2>4, VerifyStepStep
  <2>5. CASE VerifyEnd
    BY <2>5, VerifyEndStep
  <2>6. CASE (\E n \in Nodes : Hash(n)) \/ (\E s \in Requests : ProveMulti(s))
    BY <2>6, OtherStep
  <2>7. CASE UNCHANGED vars
    BY <2>7, OtherStep
  <2> QED BY <2>1, <2>2, <2>3, <2>4, <2>5, <2>6, <2>7 DEF Next, Verify
<1> QED BY InitIInv, <1>1, PTL DEF Spec

(* Every variable of the tree and of VerifyProof keeps its type.           *)
THEOREM TypeCorrect == Spec => []TypeOK
<1>1. IInv => TypeOK
  BY DEF IInv
<1> QED BY Invariance, <1>1, PTL

(* A proof that VerifyProof accepts, altered or not, shows the value that  *)
(* the tree has at its index.                                              *)
THEOREM VerifyProofIsSound == Spec => []AcceptedLeafIsInTree
<1>1. IInv => AcceptedLeafIsInTree
  BY DEF IInv
<1> QED BY Invariance, <1>1, PTL

(* A proof that Prove made with a leaf is accepted, whatever subtrees had  *)
(* been hashed before.                                                     *)
THEOREM ProveIsComplete == Spec => []MadeProofAccepted
<1>1. IInv => MadeProofAccepted
  BY DEF IInv
<1> QED BY Invariance, <1>1, PTL
---------------------------------------------------------------------------
(* A function on a finite set has finitely many values.                    *)
LEMMA ImageFinite ==
    ASSUME NEW f, IsFiniteSet(DOMAIN f)
    PROVE  IsFiniteSet({f[x] : x \in DOMAIN f})
<1> DEFINE S == DOMAIN f
           T == {f[x] : x \in S}
           g == [x \in S |-> f[x]]
<1>1. g \in Surjection(S, T)
  BY DEF Surjection
<1>2. IsFiniteSet(S)
  OBVIOUS
<1> HIDE DEF S, T, g
<1>3. IsFiniteSet(T)
  BY <1>1, <1>2, FS_Surjection
<1> QED BY <1>3 DEF S, T

(* The path of a node of the tree stays in the tree.                       *)
LEMMA PathInTree == \A n \in Nodes : OnPath(n) \subseteq Nodes
<1> DEFINE Bad == {n \in Nodes : ~ (OnPath(n) \subseteq Nodes)}
<1>1. SUFFICES ASSUME Bad # {} PROVE FALSE
  OBVIOUS
<1>2. PICK n \in Bad : \A b \in Bad : n <= b
  BY <1>1, NodeFacts, LeastNat
<1>3. n \in Nodes /\ n \in Targets /\ n \in Nat
  BY <1>2, NodeFacts
<1>4. PICK j \in DOMAIN path[n] : path[n][j] \notin Nodes
  BY <1>2, NodeFacts DEF OnPath
<1>5. /\ Len(path[n]) \in Nat /\ j \in 1 .. Len(path[n])
      /\ n = 1 <=> Len(path[n]) = 0
  BY <1>3, <1>4, PathFacts
<1>6. n # 1
  BY <1>5
<1> DEFINE p == getParent(n)
<1>7. p \in Nodes /\ p \in Nat /\ p < n
  BY <1>3, <1>6, IndexArithmetic
<1>8. /\ Len(path[n]) = Len(path[p]) + 1 /\ path[n][1] = n
      /\ \A m \in 1 .. Len(path[p]) : path[n][m + 1] = path[p][m]
  BY <1>3, <1>6, PathFacts
<1>9. DOMAIN path[p] = 1 .. Len(path[p]) /\ Len(path[p]) \in Nat
  BY <1>7, NodeFacts, PathFacts
<1> HIDE DEF p
<1>10. j # 1
  BY <1>3, <1>4, <1>8
<1>11. j - 1 \in 1 .. Len(path[p]) /\ (j - 1) + 1 = j
  BY <1>5, <1>8, <1>9, <1>10
<1>12. path[n][j] = path[p][j - 1]
  BY <1>8, <1>11
<1>13. path[p][j - 1] \notin Nodes
  BY <1>4, <1>12
<1>14. p \in Bad
  BY <1>7, <1>9, <1>11, <1>13 DEF OnPath
<1>15. ~ (n <= p)
  BY <1>3, <1>7
<1> QED BY <1>2, <1>14, <1>15

(* What VerifyMultiproof computes of S: the paths from the parents on.     *)
Computed(S) == UNION {OnPath(n) : n \in {getParent(m) : m \in S \ {1}}}

(* The required indices of finitely many nodes are finitely many, in the   *)
(* tree: siblings of the nodes and of what is on their paths.              *)
LEMMA RequiredIndicesList ==
    ASSUME NEW s \in Seq(Nodes)
    PROVE  LET req == requiredIndices(Elements(s))
           IN  /\ req \in Seq(Nodes)
               /\ Elements(req) \cap Elements(s) = {}
               /\ Elements(req) \cap Computed(Elements(s)) = {}
<1> DEFINE S        == Elements(s)
           parents  == {getParent(m) : m \in S \ {1}}
           computed == UNION {OnPath(n) : n \in parents}
           siblings == {getSibling(m) : m \in (S \cup computed) \ {1}}
           R        == (siblings \ computed) \ S
<1>1. DOMAIN s = 1 .. Len(s) /\ Len(s) \in Nat /\ S \subseteq Nodes
  BY DEF Elements
<1>2. IsFiniteSet(1 .. Len(s))
  BY <1>1, FS_Interval
<1>3. IsFiniteSet(S)
  BY <1>1, <1>2, ImageFinite DEF Elements
<1>4. parents \subseteq Nodes
  <2>1. \A m \in S \ {1} : getParent(m) \in Nodes
    BY <1>1, IndexArithmetic
  <2> QED BY <2>1
<1>5. IsFiniteSet(parents)
  <2>1. IsFiniteSet(S \ {1})
    BY <1>3, FS_Subset
  <2> DEFINE f == [m \in S \ {1} |-> getParent(m)]
  <2>2. IsFiniteSet({f[m] : m \in DOMAIN f})
    <3>1. DOMAIN f = S \ {1}
      OBVIOUS
    <3> HIDE DEF f
    <3> QED BY <2>1, <3>1, ImageFinite
  <2>3. parents = {f[m] : m \in DOMAIN f}
    OBVIOUS
  <2> QED BY <2>2, <2>3
<1>6. ASSUME NEW n \in parents PROVE IsFiniteSet(OnPath(n))
  <2>1. DOMAIN path[n] = 1 .. Len(path[n]) /\ Len(path[n]) \in Nat
    BY <1>4, NodeFacts, PathFacts
  <2>2. IsFiniteSet(DOMAIN path[n])
    BY <2>1, FS_Interval
  <2>3. IsFiniteSet({path[n][j] : j \in DOMAIN path[n]})
    BY <2>2, ImageFinite
  <2> QED BY <2>3, FS_AddElement DEF OnPath
<1>7. IsFiniteSet(computed)
  <2> HIDE DEF parents
  <2>1. IsFiniteSet({OnPath(n) : n \in parents})
    <3> DEFINE f == [n \in parents |-> OnPath(n)]
    <3>1. DOMAIN f = parents /\ {f[n] : n \in DOMAIN f} = {OnPath(n) : n \in parents}
      OBVIOUS
    <3>2. IsFiniteSet({f[n] : n \in DOMAIN f})
      <4> HIDE DEF f
      <4> QED BY <1>5, <3>1, ImageFinite
    <3> QED BY <3>1, <3>2
  <2>2. \A T \in {OnPath(n) : n \in parents} : IsFiniteSet(T)
    BY <1>6
  <2> QED BY <2>1, <2>2, FS_UNION
<1>8. IsFiniteSet(siblings)
  <2> HIDE DEF S, computed
  <2>1. IsFiniteSet(S \cup computed)
    BY <1>3, <1>7, FS_Union
  <2>2. IsFiniteSet((S \cup computed) \ {1})
    BY <2>1, FS_Subset
  <2> DEFINE M == (S \cup computed) \ {1}
  <2> HIDE DEF M
  <2>3. IsFiniteSet({getSibling(m) : m \in M})
    <3> DEFINE f == [m \in M |-> getSibling(m)]
    <3>1. DOMAIN f = M /\ {f[m] : m \in DOMAIN f} = {getSibling(m) : m \in M}
      OBVIOUS
    <3>2. IsFiniteSet(DOMAIN f)
      BY <2>2, <3>1 DEF M
    <3>3. IsFiniteSet({f[m] : m \in DOMAIN f})
      <4> HIDE DEF f
      <4> QED BY <3>2, ImageFinite
    <3> QED BY <3>1, <3>3
  <2> QED BY <2>3 DEF M
<1>9. IsFiniteSet(R)
  <2> HIDE DEF S, computed, siblings
  <2> QED BY <1>8, FS_Subset
<1>10. R \subseteq Nodes /\ R \in SUBSET Nat
  <2> HIDE DEF parents
  <2>1. computed \subseteq Nodes
    BY <1>4, PathInTree
  <2> HIDE DEF computed
  <2>2. \A m \in (S \cup computed) \ {1} : getSibling(m) \in Nodes
    BY <1>1, <2>1, NodesAssumption
  <2> QED BY <2>2, NodeFacts
<1>11. requiredIndices(S) = SetToSortedDesc(R)
  BY DEF requiredIndices
<1> DEFINE f == SetToSortedDesc(R)
<1>12. R \cap S = {} /\ R \cap Computed(S) = {}
  BY DEF Computed
<1> HIDE DEF R, S
<1>13. f \in Seq(R)
  BY <1>9, <1>10, SetToSortedDescType
<1> HIDE DEF f
<1>14. f \in Seq(Nodes) /\ Elements(f) \subseteq R
  <2>1. R \subseteq Nodes
    BY <1>10
  <2>2. f \in Seq(Nodes)
    BY ONLY <1>13, <2>1
  <2>3. Elements(f) \subseteq R
    BY ONLY <1>13 DEF Elements
  <2> QED BY <2>2, <2>3
<1>15. Elements(f) \cap S = {} /\ Elements(f) \cap Computed(S) = {}
  BY <1>12, <1>14
<1> QED BY <1>11, <1>14, <1>15 DEF f, S

(* What is on the path of a node of S, the node itself aside, is computed  *)
(* from S, so getRequiredIndices leaves it out.                            *)
LEMMA RequiredAside ==
    ASSUME NEW S \in SUBSET (Nodes \ {1}), NEW n \in S,
           NEW req, req \in Seq(Nodes), Elements(req) \cap S = {},
           Elements(req) \cap Computed(S) = {}
    PROVE  n \notin HashedBelow(Elements(req))
<1> SUFFICES ASSUME NEW r \in Elements(req), n \in Subtree(r)
             PROVE  FALSE
  BY DEF HashedBelow
<1>1. n \in Nodes /\ n # 1 /\ n \in Targets
  BY NodeFacts
<1> DEFINE p == getParent(n)
<1>2. r \in OnPath(n) /\ r # 1
  <2>1. 1 \in Computed(S)
    BY <1>1 DEF Computed, OnPath
  <2> QED BY <2>1 DEF Subtree
<1>3. p \in Targets /\ Len(path[p]) \in Nat /\ DOMAIN path[p] = 1 .. Len(path[p])
  BY <1>1, PathFacts
<1>4. PICK j \in DOMAIN path[n] : r = path[n][j]
  BY <1>2 DEF OnPath
<1>5. /\ j \in 1 .. Len(path[p]) + 1 /\ path[n][1] = n
      /\ \A m \in 1 .. Len(path[p]) : path[n][m + 1] = path[p][m]
  BY <1>1, <1>4, PathFacts
<1>6. r # n
  OBVIOUS
<1> HIDE DEF p
<1>7. j # 1
  BY <1>4, <1>5, <1>6
<1>8. j - 1 \in 1 .. Len(path[p]) /\ (j - 1) + 1 = j
  BY <1>3, <1>5, <1>7
<1>9. r = path[p][j - 1]
  BY <1>4, <1>5, <1>8
<1>10. r \in OnPath(p)
  BY <1>3, <1>8, <1>9 DEF OnPath
<1> QED BY <1>1, <1>10 DEF p, Computed

(* No leaf that ProveMulti returns is out of date when it returns, in      *)
(* every tree and whatever subtrees had been hashed before: it reads the   *)
(* leaves before it hashes, but what it hashes holds none of them.         *)
THEOREM LeavesStayUpToDate == Spec => LeavesUpToDate
<1>1. ASSUME [Next]_vars, multi' # multi, NEW j \in DOMAIN multi'.indices
      PROVE  multi'.leaves[j] = nodeValueIn(cached', multi'.indices[j])
  <2>1. CASE multi' = NoMulti
    BY <1>1, <2>1 DEF NoMulti
  <2>2. ASSUME NEW s \in Requests, ProveMulti(s)
        PROVE  multi'.leaves[j] = nodeValueIn(cached', multi'.indices[j])
    <3> DEFINE S   == Elements(s)
               req == requiredIndices(S)
    <3>1. /\ multi'.indices = s /\ multi'.leaves = [m \in DOMAIN s |-> nodeValue(s[m])]
          /\ cached' = cached \cup HashedBelow(Elements(req))
      BY <2>2 DEF ProveMulti
    <3>2. s \in Seq(Nodes) /\ s \in Seq(Nodes \ {1}) /\ s[j] \in S /\ j \in DOMAIN s
      BY <3>1, RequestsAssumption DEF Elements
    <3>3. S \in SUBSET (Nodes \ {1})
      BY <3>2 DEF Elements
    <3>4. /\ req \in Seq(Nodes) /\ Elements(req) \cap S = {}
          /\ Elements(req) \cap Computed(S) = {}
      BY <3>2, RequiredIndicesList
    <3> HIDE DEF req, S
    <3>5. s[j] \notin HashedBelow(Elements(req))
      BY <3>2, <3>3, <3>4, RequiredAside
    <3> QED BY <3>1, <3>2, <3>5 DEF nodeValue, nodeValueIn
  <2> QED
    BY <1>1, <2>1, <2>2 DEF Next, Hash, Prove, Alter, Verify, CallVerify, VerifyStep, VerifyEnd, vars
<1>2. [Next]_vars => [multi' # multi =>
         \A j \in DOMAIN multi'.indices :
            multi'.leaves[j] = nodeValueIn(cached', multi'.indices[j])]_vars
  BY <1>1
<1> QED BY <1>2, PTL DEF Spec, LeavesUpToDate

---------------------------------------------------------------------------
(***************************************************************************)
(* Compression.  The loop of Compress is a function of the number of       *)
(* hashes seen: of the first m it has kept m entries and one level for     *)
(* each zero hash, the one of a zero hash at the place that Decompress     *)
(* will count to.                                                          *)
(***************************************************************************)
IsZeroHash(v) == zeroHashLevels(v) # {}
ZerosIn(hs, m) == {n \in 1 .. m : IsZeroHash(hs[n])}

IsCompressed(c, hs, m) ==
    /\ DOMAIN c.hashes = 1 .. m
    /\ \A n \in 1 .. m : c.hashes[n] = IF IsZeroHash(hs[n]) THEN Nil ELSE hs[n]
    /\ Len(c.levels) = Cardinality(ZerosIn(hs, m))
    /\ \A n \in 1 .. m : IsZeroHash(hs[n]) =>
          c.levels[Cardinality(ZerosIn(hs, n))] \in zeroHashLevels(hs[n])

(* Counting the zero hashes, one more at each of them.                     *)
LEMMA ZerosCount ==
    ASSUME NEW hs, NEW m \in Nat
    PROVE  /\ Cardinality(ZerosIn(hs, 0)) = 0
           /\ Cardinality(ZerosIn(hs, m)) \in Nat
           /\ \A n \in 1 .. m : Cardinality(ZerosIn(hs, n)) <= Cardinality(ZerosIn(hs, m))
           /\ \A n \in 1 .. m : IsZeroHash(hs[n]) => Cardinality(ZerosIn(hs, n)) >= 1
           /\ Cardinality(ZerosIn(hs, m + 1)) =
                 Cardinality(ZerosIn(hs, m)) + (IF IsZeroHash(hs[m + 1]) THEN 1 ELSE 0)
<1>1. ASSUME NEW n \in Nat
      PROVE  IsFiniteSet(ZerosIn(hs, n)) /\ Cardinality(ZerosIn(hs, n)) \in Nat
  <2>1. ZerosIn(hs, n) \in SUBSET (1 .. n) /\ IsFiniteSet(1 .. n)
    BY FS_Interval DEF ZerosIn
  <2>2. IsFiniteSet(ZerosIn(hs, n))
    BY <2>1, FS_Subset
  <2> QED BY <2>2, FS_CardinalityType
<1>2. Cardinality(ZerosIn(hs, 0)) = 0
  <2>1. ZerosIn(hs, 0) = {}
    BY DEF ZerosIn
  <2> QED BY <2>1, FS_EmptySet
<1>3. ASSUME NEW n \in 1 .. m
      PROVE  Cardinality(ZerosIn(hs, n)) <= Cardinality(ZerosIn(hs, m))
  <2>1. ZerosIn(hs, n) \in SUBSET ZerosIn(hs, m)
    BY DEF ZerosIn
  <2> QED BY <1>1, <2>1, FS_Subset
<1>4. ASSUME NEW n \in 1 .. m, IsZeroHash(hs[n])
      PROVE  Cardinality(ZerosIn(hs, n)) >= 1
  <2>1. n \in ZerosIn(hs, n) /\ n \in Nat
    BY <1>4 DEF ZerosIn
  <2>2. Cardinality(ZerosIn(hs, n)) # 0
    BY <1>1, <2>1, FS_EmptySet
  <2> QED BY <1>1, <2>1, <2>2
<1>5. Cardinality(ZerosIn(hs, m + 1)) =
        Cardinality(ZerosIn(hs, m)) + (IF IsZeroHash(hs[m + 1]) THEN 1 ELSE 0)
  <2>1. CASE IsZeroHash(hs[m + 1])
    <3>1. /\ ZerosIn(hs, m + 1) = ZerosIn(hs, m) \cup {m + 1}
          /\ m + 1 \notin ZerosIn(hs, m)
      BY <2>1 DEF ZerosIn
    <3>2. Cardinality(ZerosIn(hs, m + 1)) = Cardinality(ZerosIn(hs, m)) + 1
      BY <1>1, <3>1, FS_AddElement
    <3> QED BY <2>1, <3>2
  <2>2. CASE ~ IsZeroHash(hs[m + 1])
    <3>1. ZerosIn(hs, m + 1) = ZerosIn(hs, m)
      BY <2>2 DEF ZerosIn
    <3> QED BY <1>1, <2>2, <3>1
  <2> QED BY <2>1, <2>2
<1> QED BY <1>1, <1>2, <1>3, <1>4, <1>5

(* What CHOOSE finds where Compress is defined.                            *)
CompressRec(hs, f) ==
    f = [j \in 0 .. Len(hs) |->
            IF j = 0 THEN [hashes |-> << >>, levels |-> << >>]
            ELSE IF zeroHashLevels(hs[j]) = {}
            THEN [hashes |-> Append(f[j - 1].hashes, hs[j]), levels |-> f[j - 1].levels]
            ELSE [hashes |-> Append(f[j - 1].hashes, Nil),
                  levels |-> Append(f[j - 1].levels,
                                    CHOOSE l \in zeroHashLevels(hs[j]) : TRUE)]]

(* The loop of Compress defines what it says.                              *)
LEMMA CompressSteps ==
    ASSUME NEW T, NEW hs \in Seq(T)
    PROVE  \E f : /\ CompressRec(hs, f) /\ Compress(hs) = f[Len(hs)]
                  /\ \A j \in 0 .. Len(hs) :
                       f[j] \in [hashes : Seq(T \cup {Nil}), levels : Seq(DOMAIN zeroHashes)]
<1> DEFINE m == Len(hs)
           H == Seq(T \cup {Nil})
           L == Seq(DOMAIN zeroHashes)
           D == [hashes : H, levels : L]
           base == [hashes |-> << >>, levels |-> << >>]
           level(j) == CHOOSE l \in zeroHashLevels(hs[j]) : TRUE
           step == [j \in 1 .. m |-> [x \in D |->
                      IF zeroHashLevels(hs[j]) = {}
                      THEN [hashes |-> Append(x.hashes, hs[j]), levels |-> x.levels]
                      ELSE [hashes |-> Append(x.hashes, Nil),
                            levels |-> Append(x.levels, level(j))]]]
           c == CHOOSE f : CompressRec(hs, f)
<1>1. m \in Nat /\ \A j \in 1 .. m : hs[j] \in T
  OBVIOUS
<1>2. base \in D
  OBVIOUS
<1>3. /\ \A h \in H, v \in T : Append(h, v) \in H
      /\ \A h \in H : Append(h, Nil) \in H
  OBVIOUS
<1>4. ASSUME NEW j \in 1 .. m, zeroHashLevels(hs[j]) # {}, NEW x \in L
      PROVE  Append(x, level(j)) \in L
  <2>1. level(j) \in zeroHashLevels(hs[j])
    BY <1>4
  <2>2. level(j) \in DOMAIN zeroHashes
    BY <2>1 DEF zeroHashLevels
  <2> HIDE DEF level
  <2> QED BY <2>2
<1> HIDE DEF m, H, L, level, base
<1>5. ASSUME NEW j \in 1 .. m, NEW x \in D PROVE step[j][x] \in D
  <2>1. x.hashes \in H /\ x.levels \in L
    OBVIOUS
  <2> QED BY <1>1, <1>3, <1>4, <2>1
<1>6. step \in [1 .. m -> [D -> D]]
  <2>1. \A j \in 1 .. m : step[j] \in [D -> D]
    <3> TAKE j \in 1 .. m
    <3>1. step[j] = [x \in D |-> step[j][x]]
      OBVIOUS
    <3> HIDE DEF step, D
    <3> QED BY <1>5, <3>1
  <2>2. step = [j \in 1 .. m |-> step[j]]
    OBVIOUS
  <2> HIDE DEF step, D
  <2> QED BY <2>1, <2>2
<1>7. \A j \in 1 .. m, x \in D :
        step[j][x] = IF zeroHashLevels(hs[j]) = {}
                     THEN [hashes |-> Append(x.hashes, hs[j]), levels |-> x.levels]
                     ELSE [hashes |-> Append(x.hashes, Nil),
                           levels |-> Append(x.levels, level(j))]
  OBVIOUS
<1> HIDE DEF step, D
<1>8. PICK f \in [0 .. m -> D] : Steps(f, m, base, step)
  BY <1>1, <1>2, <1>6, StepsExist, Zenon
<1>9. CompressRec(hs, f)
  <2>1. f[0] = base /\ \A j \in 1 .. m : f[j] = step[j][f[j - 1]]
    BY <1>8 DEF Steps
  <2>2. \A j \in 1 .. m : f[j - 1] \in D
    BY <1>1
  <2>3. \A j \in 0 .. m : j # 0 => j \in 1 .. m
    BY <1>1
  <2>4. f = [j \in 0 .. m |-> f[j]]
    OBVIOUS
  <2>5. \A j \in 0 .. m :
          f[j] = IF j = 0 THEN base
                 ELSE IF zeroHashLevels(hs[j]) = {}
                 THEN [hashes |-> Append(f[j - 1].hashes, hs[j]), levels |-> f[j - 1].levels]
                 ELSE [hashes |-> Append(f[j - 1].hashes, Nil),
                       levels |-> Append(f[j - 1].levels, level(j))]
    BY <1>7, <2>1, <2>2, <2>3
  <2> QED BY <2>4, <2>5 DEF CompressRec, base, level, m
<1>10. CompressRec(hs, c)
  BY <1>9
<1>11. Compress(hs) = c[m]
  BY DEF Compress, CompressRec, m
<1>12. \A j \in 0 .. m : c[j] \in D
  <2> HIDE DEF c
  <2>1. \A j \in 0 .. m : 
          c[j] = IF j = 0 THEN base
                 ELSE IF zeroHashLevels(hs[j]) = {}
                 THEN [hashes |-> Append(c[j - 1].hashes, hs[j]), levels |-> c[j - 1].levels]
                 ELSE [hashes |-> Append(c[j - 1].hashes, Nil),
                       levels |-> Append(c[j - 1].levels, level(j))]
    BY <1>10 DEF CompressRec, base, level, m
  <2> DEFINE N == {j \in Nat : j <= m => c[j] \in D}
  <2>2. 0 \in N
    <3>1. 0 \in 0 .. m
      BY <1>1
    <3>2. c[0] = base
      BY <2>1, <3>1
    <3> QED BY <1>2, <3>2
  <2>3. ASSUME NEW n \in Nat, n \in N PROVE n + 1 \in N
    <3> SUFFICES ASSUME n + 1 <= m PROVE c[n + 1] \in D
      OBVIOUS
    <3>1. n <= m /\ n + 1 \in 1 .. m /\ n + 1 \in 0 .. m /\ n + 1 # 0 /\ (n + 1) - 1 = n
      BY <1>1
    <3>2. c[n] \in D
      BY <2>3, <3>1
    <3>3. c[n + 1] = step[n + 1][c[n]]
      <4>1. c[n + 1] = IF zeroHashLevels(hs[n + 1]) = {}
                       THEN [hashes |-> Append(c[n].hashes, hs[n + 1]), levels |-> c[n].levels]
                       ELSE [hashes |-> Append(c[n].hashes, Nil),
                             levels |-> Append(c[n].levels, level(n + 1))]
        BY <2>1, <3>1, Zenon
      <4> QED BY <1>7, <3>1, <3>2, <4>1
    <3> QED BY <1>6, <3>1, <3>2, <3>3
  <2> HIDE DEF N
  <2>4. \A j \in Nat : j \in N
    BY <2>2, <2>3, SetInduction
  <2> QED BY <1>1, <2>4 DEF N
<1> HIDE DEF c
<1> QED BY <1>10, <1>11, <1>12 DEF D, H, L, m

(* The loop keeps its promise for any number of hashes.                    *)
LEMMA CompressIs ==
    ASSUME NEW T, NEW hs \in Seq(T)
    PROVE  IsCompressed(Compress(hs), hs, Len(hs))
<1> DEFINE m == Len(hs)
           Z(n) == Cardinality(ZerosIn(hs, n))
           U == T \cup {Nil}
           L == DOMAIN zeroHashes
<1>0. m \in Nat /\ \A n \in 1 .. m : hs[n] \in T
  OBVIOUS
<1>1. PICK f : /\ CompressRec(hs, f) /\ Compress(hs) = f[Len(hs)]
               /\ \A j \in 0 .. Len(hs) : f[j] \in [hashes : Seq(U), levels : Seq(L)]
  BY CompressSteps
<1> DEFINE level(j) == CHOOSE l \in zeroHashLevels(hs[j]) : TRUE
<1>2. f[0] = [hashes |-> << >>, levels |-> << >>]
  BY <1>0, <1>1 DEF CompressRec
<1>3. \A j \in 1 .. m :
         f[j] = IF ~ IsZeroHash(hs[j])
                THEN [hashes |-> Append(f[j - 1].hashes, hs[j]), levels |-> f[j - 1].levels]
                ELSE [hashes |-> Append(f[j - 1].hashes, Nil),
                      levels |-> Append(f[j - 1].levels, level(j))]
  <2> TAKE j \in 1 .. m
  <2>1. j \in 0 .. m /\ j # 0
    BY <1>0
  <2> HIDE DEF level
  <2> QED BY <1>1, <2>1 DEF CompressRec, IsZeroHash, level
<1>4. \A j \in 0 .. m : f[j].hashes \in Seq(U) /\ f[j].levels \in Seq(L)
  BY <1>1
<1>5. /\ Z(0) = 0
      /\ \A n \in Nat : /\ Z(n) \in Nat
                        /\ Z(n + 1) = Z(n) + (IF IsZeroHash(hs[n + 1]) THEN 1 ELSE 0)
      /\ \A a \in Nat : \A n \in 1 .. a : /\ Z(n) <= Z(a)
                                          /\ IsZeroHash(hs[n]) => Z(n) >= 1
  BY ZerosCount
<1> DEFINE P(n) == IsCompressed(f[n], hs, n)
           N == {n \in Nat : n <= m => P(n)}
<1>6. 0 \in N
  <2>1. Len(<< >>) = 0 /\ DOMAIN << >> = 1 .. 0
    OBVIOUS
  <2>2. P(0)
    BY <1>2, <1>5, <2>1 DEF IsCompressed
  <2> HIDE DEF P
  <2> QED BY <2>2
<1>7. ASSUME NEW n \in Nat, n \in N, n + 1 <= m PROVE P(n + 1)
  <2> DEFINE q == n + 1
             h == f[n].hashes
             v == f[n].levels
             e == IF IsZeroHash(hs[q]) THEN Nil ELSE hs[q]
  <2>1. q \in 1 .. m /\ q - 1 = n /\ n \in 0 .. m /\ n <= m /\ q \in 0 .. m
    BY <1>0, <1>7
  <2>2. IsCompressed(f[n], hs, n)
    BY <1>7, <2>1
  <2>3. h \in Seq(U) /\ v \in Seq(L)
    BY <1>4, <2>1
  <2>4. /\ DOMAIN h = 1 .. n
        /\ \A a \in 1 .. n : h[a] = IF IsZeroHash(hs[a]) THEN Nil ELSE hs[a]
        /\ Len(v) = Z(n)
        /\ \A a \in 1 .. n : IsZeroHash(hs[a]) => v[Z(a)] \in zeroHashLevels(hs[a])
    BY <2>2 DEF IsCompressed
  <2> HIDE DEF level
  <2>4a. f[q] = IF ~ IsZeroHash(hs[q])
                THEN [hashes |-> Append(f[n].hashes, hs[q]), levels |-> f[n].levels]
                ELSE [hashes |-> Append(f[n].hashes, Nil),
                      levels |-> Append(f[n].levels, level(q))]
    <3>1. q \in 1 .. m /\ q - 1 = n
      BY <2>1
    <3> HIDE DEF q, m
    <3> QED BY <1>3, <3>1
  <2>5. f[q].hashes = Append(h, e)
    BY <2>4a
  <2> HIDE DEF e
  <2>6. /\ DOMAIN f[q].hashes = 1 .. q
        /\ f[q].hashes[q] = e
        /\ \A a \in 1 .. n : f[q].hashes[a] = h[a]
    <3> HIDE DEF h
    <3>1. Len(h) = n
      BY <2>3, <2>4
    <3>2. e \in U
      BY <1>0, <2>1 DEF e
    <3> DEFINE g == Append(h, e)
    <3> HIDE DEF U
    <3>3. h \in Seq(U) /\ q = Len(h) + 1
      BY <2>3, <3>1
    <3> HIDE DEF q
    <3>4. /\ DOMAIN g = 1 .. q /\ g[q] = e
          /\ \A a \in 1 .. Len(h) : g[a] = h[a]
      BY ONLY <3>2, <3>3
    <3> HIDE DEF g
    <3> QED BY <2>5, <3>1, <3>4 DEF g
  <2>7. Z(q) = Z(n) + (IF IsZeroHash(hs[q]) THEN 1 ELSE 0) /\ Z(n) \in Nat
    BY <1>5
  <2> HIDE DEF h, Z
  <2>8. ASSUME NEW a \in 1 .. q
        PROVE  f[q].hashes[a] = IF IsZeroHash(hs[a]) THEN Nil ELSE hs[a]
    <3>1. CASE a = q
      BY <2>6, <3>1 DEF e
    <3>2. CASE a # q
      <4>1. a \in 1 .. n
        BY <3>2
      <4> QED BY <2>4, <2>6, <4>1
    <3> QED BY <3>1, <3>2
  <2>9. CASE ~ IsZeroHash(hs[q])
    <3>1. f[q].levels = v
      BY <2>4a, <2>9
    <3>2. Len(f[q].levels) = Z(q)
      BY <2>4, <2>7, <2>9, <3>1
    <3>3. ASSUME NEW a \in 1 .. q, IsZeroHash(hs[a])
          PROVE  f[q].levels[Z(a)] \in zeroHashLevels(hs[a])
      <4>1. a \in 1 .. n
        <5>1. a # q
          BY <2>9, <3>3
        <5> QED BY <5>1
      <4> QED BY <2>4, <3>1, <3>3, <4>1
    <3> QED BY <2>6, <2>8, <3>2, <3>3 DEF IsCompressed, Z
  <2>10. CASE IsZeroHash(hs[q])
    <3> DEFINE w == level(q)
    <3>1. f[q].levels = Append(v, w)
      BY <2>4a, <2>10
    <3>2. w \in zeroHashLevels(hs[q]) /\ w \in L
      BY <2>10 DEF IsZeroHash, zeroHashLevels, level
    <3> HIDE DEF w, v, L
    <3>3. /\ Len(Append(v, w)) = Z(n) + 1
          /\ Append(v, w)[Z(n) + 1] = w
          /\ \A b \in 1 .. Z(n) : Append(v, w)[b] = v[b]
      BY <2>3, <2>4, <2>7, <3>2
    <3>4. Z(q) = Z(n) + 1
      BY <2>7, <2>10
    <3>5. ASSUME NEW a \in 1 .. q, IsZeroHash(hs[a])
          PROVE  f[q].levels[Z(a)] \in zeroHashLevels(hs[a])
      <4>1. CASE a = q
        BY <3>1, <3>2, <3>3, <3>4, <4>1
      <4>2. CASE a # q
        <5>1. a \in 1 .. n /\ a \in Nat
          BY <4>2
        <5>2. Z(a) <= Z(n) /\ Z(a) >= 1 /\ Z(a) \in Nat
          BY <1>5, <3>5, <5>1
        <5>3. Z(a) \in 1 .. Z(n)
          BY <2>7, <5>2
        <5> QED BY <2>4, <3>1, <3>3, <3>5, <5>1, <5>3
      <4> QED BY <4>1, <4>2
    <3> QED BY <2>6, <2>8, <3>1, <3>3, <3>4, <3>5 DEF IsCompressed, Z
  <2> QED BY <2>9, <2>10
<1> HIDE DEF P
<1>8. \A n \in Nat : n \in N => n + 1 \in N
  BY <1>7
<1> HIDE DEF N
<1>9. \A n \in Nat : n \in N
  BY <1>6, <1>8, SetInduction
<1> QED BY <1>0, <1>1, <1>9 DEF N, P, m

(* Decompress undoes Compress wherever no hash is nil.                     *)
LEMMA DecompressUndoes ==
    ASSUME NEW T, NEW hs \in Seq(T), \A n \in 1 .. Len(hs) : hs[n] # Nil
    PROVE  Decompress(Compress(hs)) = hs
<1> DEFINE m == Len(hs)
           c == Compress(hs)
           d == Decompress(c)
<1>1. m \in Nat /\ hs = [n \in 1 .. m |-> hs[n]]
  OBVIOUS
<1>2. IsCompressed(c, hs, m)
  BY CompressIs
<1> HIDE DEF c, m
<1>3. /\ DOMAIN c.hashes = 1 .. m
      /\ \A n \in 1 .. m : c.hashes[n] = IF IsZeroHash(hs[n]) THEN Nil ELSE hs[n]
      /\ \A n \in 1 .. m : IsZeroHash(hs[n]) =>
            c.levels[Cardinality(ZerosIn(hs, n))] \in zeroHashLevels(hs[n])
  BY <1>2 DEF IsCompressed
<1>4. \A n \in 1 .. m : c.hashes[n] = Nil <=> IsZeroHash(hs[n])
  BY <1>3 DEF m
<1>5. \A n \in 1 .. m : {a \in 1 .. n : c.hashes[a] = Nil} = ZerosIn(hs, n)
  <2> TAKE n \in 1 .. m
  <2>1. \A a \in 1 .. n : a \in 1 .. m
    BY <1>1
  <2> QED BY <1>4, <2>1 DEF ZerosIn
<1>6. ASSUME NEW n \in 1 .. m PROVE d[n] = hs[n]
  <2>1. d[n] = IF c.hashes[n] = Nil
               THEN zeroHashes[c.levels[Cardinality({a \in 1 .. n : c.hashes[a] = Nil})]]
               ELSE c.hashes[n]
    BY <1>3 DEF Decompress
  <2>2. CASE IsZeroHash(hs[n])
    BY <1>3, <1>4, <1>5, <2>1, <2>2 DEF zeroHashLevels
  <2>3. CASE ~ IsZeroHash(hs[n])
    BY <1>3, <1>4, <2>1, <2>3
  <2> QED BY <2>2, <2>3
<1>7. d = [n \in 1 .. m |-> d[n]]
  BY <1>3 DEF Decompress
<1> HIDE DEF d
<1>8. d = hs
  BY <1>1, <1>6, <1>7
<1> QED BY <1>8 DEF c, d

(* No hash of a multiproof is nil: each is the value of a node.            *)
MultiInv == multi.hashes \in Seq({Value[n] : n \in Nodes})

(* Compressing a multiproof and decompressing it returns the multiproof,   *)
(* in every tree, with zero subtrees of any depths omitted from it.        *)
THEOREM CompressionLosesNothing == Spec => []CompressionLossless
<1> DEFINE V == {Value[n] : n \in Nodes}
<1>1. NoMulti.hashes \in Seq(V)
  BY DEF NoMulti
<1>2. Init => MultiInv
  BY <1>1 DEF Init, MultiInv
<1>3. ASSUME MultiInv, [Next]_vars PROVE MultiInv'
  <2>1. CASE \E s \in Requests : ProveMulti(s)
    <3> PICK s \in Requests : ProveMulti(s)
      BY <2>1
    <3> DEFINE req == requiredIndices(Elements(s))
               H   == [j \in DOMAIN req |-> Value[req[j]]]
    <3>1. multi'.hashes = H
      BY DEF ProveMulti
    <3>2. s \in Seq(Nodes)
      BY RequestsAssumption
    <3>0. req \in Seq(Nodes)
      BY <3>2, RequiredIndicesList
    <3> HIDE DEF req
    <3>3. req \in Seq(Nodes) /\ Len(req) \in Nat /\ DOMAIN req = 1 .. Len(req)
      BY <3>0
    <3>4. \A j \in DOMAIN req : Value[req[j]] \in V
      BY <3>3
    <3> DEFINE l == Len(req)
    <3> HIDE DEF l
    <3>5. l \in Nat /\ H = [j \in 1 .. l |-> Value[req[j]]]
          /\ \A j \in 1 .. l : Value[req[j]] \in V
      BY <3>3, <3>4 DEF l
    <3> HIDE DEF H, V
    <3>6. H \in [1 .. l -> V]
      BY <3>5
    <3>7. H \in Seq(V)
      BY <3>5, <3>6
    <3> QED BY <3>1, <3>7 DEF MultiInv, V
  <2>2. CASE \E n \in Targets : Prove(n)
    BY <1>1, <2>2 DEF Prove, MultiInv
  <2>3. CASE (\E n \in Nodes : Hash(n)) \/ Alter \/ Verify \/ UNCHANGED vars
    <3>1. multi' = multi
      BY <2>3 DEF Hash, Alter, Verify, CallVerify, VerifyStep, VerifyEnd, vars
    <3> QED BY <1>3, <3>1 DEF MultiInv
  <2> QED BY <1>3, <2>1, <2>2, <2>3 DEF Next
<1>4. MultiInv => CompressionLossless
  <2> SUFFICES ASSUME MultiInv PROVE CompressionLossless
    OBVIOUS
  <2> DEFINE hs == multi.hashes
  <2>1. hs \in Seq(V)
    BY DEF MultiInv
  <2>2. \A v \in V : v # Nil
    BY ValueAssumption DEF Nil
  <2> HIDE DEF hs, V
  <2>3. \A n \in 1 .. Len(hs) : hs[n] # Nil
    BY <2>1, <2>2
  <2>4. Decompress(Compress(hs)) = hs
    BY <2>1, <2>3, DecompressUndoes
  <2> QED BY <2>4 DEF CompressionLossless, hs
<1>5. MultiInv /\ [Next]_vars => MultiInv'
  BY <1>3
<1> QED BY <1>2, <1>4, <1>5, PTL DEF Spec
===========================================================================
