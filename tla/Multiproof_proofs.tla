------------------------ MODULE Multiproof_proofs -------------------------
(***************************************************************************)
(* VerifyMultiproof is sound, and never answers false on an honest proof,  *)
(* for every tree, every list of indices and every proof; and its work is  *)
(* linear.                                                                 *)
(***************************************************************************)
EXTENDS Multiproof, Induction

(* Parents, siblings and children of nodes are where arithmetic says.      *)
LEMMA IndexArithmetic ==
    ASSUME NEW k \in Nodes, k # 1
    PROVE  /\ getParent(k) \in Nodes /\ getSibling(k) \in Nodes
           /\ getParent(k) \in Nat /\ getParent(k) < k /\ getParent(k) >= 1
           /\ k = leftOf(k) \/ k = rightOf(k)
           /\ leftOf(k) = 2 * getParent(k) /\ rightOf(k) = 2 * getParent(k) + 1
           /\ Value[getParent(k)] = hashFn(Value[leftOf(k)], Value[rightOf(k)])
<1>1. k \in Nat /\ k >= 2
  BY NodesAssumption
<1>2. getParent(k) \in Nodes /\ getSibling(k) \in Nodes
  BY NodesAssumption
<1>3. getParent(k) \in Nat /\ getParent(k) < k /\ getParent(k) >= 1
  BY <1>1 DEF getParent
<1>4. k = leftOf(k) \/ k = rightOf(k)
  BY <1>1 DEF getParent, leftOf, rightOf
<1> QED BY <1>2, <1>3, <1>4, ValueAssumption DEF leftOf, rightOf

(* Sequences of 32 bytes, by their cells.                                  *)
LEMMA Bytes32 ==
    ASSUME NEW v, v \in Seq(Elements(v)), Len(v) = HashLen, NEW half
    PROVE  Copy(v, half) = v
<1>1. v = [c \in 1 .. HashLen |-> v[c]]
  OBVIOUS
<1>2. \A c \in 1 .. HashLen : c <= Len(v)
  BY ValueAssumption
<1> QED BY <1>1, <1>2 DEF Copy

(* The value of a node fills a half of the buffer, and so does a digest.   *)
LEMMA ValueFills == \A k \in Nodes : \A half : Copy(Value[k], half) = Value[k]
BY Bytes32, ValueAssumption, Zenon

LEMMA DigestFills == \A l, r, half : Copy(hashFn(l, r), half) = hashFn(l, r)
<1> TAKE l, r, half
<1> DEFINE d == hashFn(l, r)
<1>1. d = [c \in 1 .. HashLen |-> d[c]] /\ HashLen \in Nat
  BY ValueAssumption DEF hashFn
<1>2. \A c \in 1 .. HashLen : d[c] \in Elements(d)
  BY DEF hashFn, Elements
<1> HIDE DEF d
<1>3. d \in Seq(Elements(d)) /\ Len(d) = HashLen
  BY <1>1, <1>2
<1> QED BY <1>3, Bytes32 DEF d

(* Equal digests, equal halves.                                            *)
LEMMA HashInjective ==
    ASSUME NEW a, NEW b, NEW c, NEW d, hashFn(a, b) = hashFn(c, d)
    PROVE  a = c /\ b = d
<1>1. 1 \in 1 .. HashLen
  BY ValueAssumption
<1>2. hashFn(a, b)[1] = <<1, a, b>> /\ hashFn(c, d)[1] = <<1, c, d>>
  BY <1>1 DEF hashFn
<1> QED BY <1>2

(* What was copied into a half is copied over it without a change.         *)
LEMMA CopyTwice == \A v, half : Copy(v, Copy(v, half)) = Copy(v, half)
BY DEF Copy

Folding == phase \in {"fold", "compare"} \/ result \in {"true", "false"}
Walked  == phase = "load" \/ Folding
Begun   == {arg.indices[j] : j \in 1 .. li}
Given   == Requested \cup Elements(reqIndices)

TypeInv == /\ arg \in Inputs
           /\ IsFiniteSet(required)
           /\ TypeOK

(* The climb leaves no gap: the parent of whatever has been passed has     *)
(* been noted as computed, but for the node being climbed from.            *)
ClimbInv ==
    \A c \in computed \cup Begun :
        c = 1 \/ c = cur \/ getParent(c) \in computed

WalkedInv ==
    Walked => /\ li = Len(arg.indices) /\ cur = 1
              /\ Len(arg.leaves) = Len(arg.indices)
              /\ Elements(reqIndices) \cap (computed \cup Requested) = {}

LengthInv == phase = "walk" => Len(arg.leaves) = Len(arg.indices)

(* A half of the buffer holds what of v has room there.                    *)
Holds(half, v) == Copy(v, half) = half

(* What is in db was given, or is the hash of its two children in db, as   *)
(* the buffer held them.                                                   *)
DbInv ==
    Folding =>
        /\ Given \subseteq DOMAIN db
        /\ \A k \in DOMAIN db \ Given :
              /\ {2 * k, 2 * k + 1} \subseteq DOMAIN db
              /\ \E l, r : /\ db[k] = hashFn(l, r)
                           /\ Holds(l, db[2 * k]) /\ Holds(r, db[2 * k + 1])
        /\ \A k \in Requested : db[k] = arg.leaves[LastAt(arg.indices, k)]

HonestInv ==
    Folding /\ HonestLeaves /\ HonestProof =>
        \A k \in DOMAIN db : db[k] = Value[k]

ResultInv ==
    /\ result # "none" <=> phase = "done"
    /\ result = "true"  => 1 \in DOMAIN db /\ db[1] = Value[1]
    /\ result = "false" => 1 \in DOMAIN db /\ db[1] # Value[1]

IInv == TypeInv /\ ClimbInv /\ LengthInv /\ WalkedInv /\ DbInv /\ HonestInv /\ ResultInv

---------------------------------------------------------------------------
(* The last position of an index in a list holds that index: what          *)
(* db[indices[i]] = leaf leaves behind when indices repeat.                *)
LEMMA LastAtIndex ==
    ASSUME NEW T, NEW s \in Seq(T), NEW k \in Elements(s)
    PROVE  LastAt(s, k) \in DOMAIN s /\ s[LastAt(s, k)] = k
<1> DEFINE P == {i \in DOMAIN s : s[i] = k}
           D == {Len(s) - i : i \in P}
<1>1. P # {} /\ P \subseteq DOMAIN s /\ DOMAIN s = 1 .. Len(s) /\ Len(s) \in Nat
  BY DEF Elements
<1>2. D \in SUBSET Nat /\ D # {}
  BY <1>1
<1>3. PICK d \in D : \A e \in D : d <= e
  BY <1>2, LeastNat
<1>4. PICK i \in P : d = Len(s) - i
  BY <1>3
<1>5. ASSUME NEW j \in P PROVE j <= i
  <2>1. Len(s) - j \in D
    OBVIOUS
  <2>2. d <= Len(s) - j
    BY <1>3, <2>1
  <2> QED BY <1>1, <1>4, <2>2
<1>6. \E l \in DOMAIN s : s[l] = k /\ \A j \in DOMAIN s : s[j] = k => j <= l
  BY <1>4, <1>5
<1> QED BY <1>6 DEF LastAt

(* What the assumption on the arguments says of their indices, leaves and  *)
(* hashes.                                                                 *)
LEMMA InputTypes ==
    ASSUME arg \in Inputs
    PROVE  /\ arg.indices \in Seq(Nodes)
           /\ Len(arg.indices) \in Nat /\ DOMAIN arg.indices = 1 .. Len(arg.indices)
           /\ Requested \subseteq Nodes
           /\ Len(arg.leaves) \in Nat /\ Len(arg.proof) \in Nat
           /\ DOMAIN arg.leaves = 1 .. Len(arg.leaves)
           /\ DOMAIN arg.proof = 1 .. Len(arg.proof)
<1>1. arg.indices \in Seq(Nodes)
  BY InputsAssumption
<1>2. arg.leaves \in Seq(Elements(arg.leaves)) /\ arg.proof \in Seq(Elements(arg.proof))
  BY InputsAssumption
<1>3. Len(arg.indices) \in Nat /\ DOMAIN arg.indices = 1 .. Len(arg.indices)
  BY <1>1
<1>4. Requested \subseteq Nodes
  BY <1>1 DEF Requested, Elements
<1> QED BY <1>1, <1>2, <1>3, <1>4

(* Generalized indices are positive numbers, the root is 1.                *)
LEMMA NodeFacts == Nodes \subseteq Nat \ {0} /\ 1 \in Nodes /\ Nodes \subseteq Nat
  BY NodesAssumption

---------------------------------------------------------------------------
(* The invariant holds when VerifyMultiproof is called.                    *)
LEMMA InitIInv == Init => IInv
<1> SUFFICES ASSUME Init PROVE IInv
  OBVIOUS
<1>1. TypeInv
  BY InputTypes, NodeFacts, FS_EmptySet DEF Init, TypeInv, TypeOK
<1>2. ClimbInv
  BY DEF Init, ClimbInv, Begun
<1>3. LengthInv /\ WalkedInv /\ DbInv /\ HonestInv /\ ResultInv
  BY DEF Init, LengthInv, WalkedInv, DbInv, HonestInv, ResultInv, Walked, Folding
<1> QED BY <1>1, <1>2, <1>3 DEF IInv

(* Type correctness: one step per action that writes a typed variable.     *)
LEMMA TypeStep == TypeInv /\ [Next]_vars => TypeInv'
<1> SUFFICES ASSUME TypeInv, [Next]_vars PROVE TypeInv'
  OBVIOUS
<1> USE DEF TypeInv, TypeOK
<1>0. arg' = arg
  BY DEF Next, vars, CheckLeafCount, NextLeaf, Climb, CollectRequired, Load,
         ReachRoot, SkipKnownParent, MissingNode, HashPair, KeysExhausted,
         CompareRoot, Returned
<1>00. Len(arg.indices) \in Nat /\ arg.indices \in Seq(Nodes) /\ Requested \subseteq Nodes
  BY InputTypes
<1>1. CASE CheckLeafCount
  BY <1>0, <1>1 DEF CheckLeafCount, Return, walkVars, foldVars
<1>2. CASE NextLeaf
  BY <1>0, <1>00, <1>2 DEF NextLeaf, foldVars
<1>3. CASE Climb
  <2>1. getParent(cur) \in Nodes /\ getSibling(cur) \in Nodes
    BY <1>3, IndexArithmetic, NodeFacts DEF Climb
  <2>2. IsFiniteSet(required')
    BY <1>3, FS_AddElement DEF Climb
  <2> QED BY <1>0, <1>3, <2>1, <2>2 DEF Climb, foldVars
<1>4. CASE CollectRequired
  <2>1. reqIndices' \in Seq(Nodes)
    <3> DEFINE S == (required \ computed) \ Requested
    <3>1. S \in SUBSET required /\ S \in SUBSET Nat
      BY NodeFacts
    <3>2. IsFiniteSet(S)
      BY <3>1, FS_Subset
    <3>3. SetToSortedDesc(S) \in Seq(S) /\ S \subseteq Nodes
      BY <3>1, <3>2, SetToSortedDescType
    <3> HIDE DEF S
    <3>4. SetToSortedDesc(S) \in Seq(Nodes)
      BY <3>3
    <3> QED BY <1>4, <3>4 DEF CollectRequired, S
  <2> QED BY <1>0, <1>4, <2>1 DEF CollectRequired, Return, walkVars, foldVars
<1>5. CASE Load
  <2>1. DOMAIN db' \subseteq Nodes
    BY <1>5, <1>00 DEF Load, Elements
  <2>2. keys' \in Seq(Nodes)
    <3> DEFINE s == arg.indices \o reqIndices
    <3>1. s \in Seq(Nodes)
      BY <1>00
    <3>2. IsFiniteSet(DOMAIN s)
      <4>1. DOMAIN s = 1 .. Len(s) /\ Len(s) \in Nat
        BY <3>1
      <4> HIDE DEF s
      <4>2. IsFiniteSet(1 .. Len(s))
        BY <4>1, FS_Interval
      <4> QED BY <4>1, <4>2
    <3>3. Elements(s) \subseteq Nodes
      BY <3>1 DEF Elements
    <3>4. SortDesc(s) \in Seq(Elements(s))
      BY <3>2, <3>3, NodeFacts, SortDescType
    <3> HIDE DEF s
    <3>5. SortDesc(s) \in Seq(Nodes)
      BY <3>3, <3>4
    <3> QED BY <1>5, <3>5 DEF Load, s
  <2> QED BY <1>0, <1>5, <2>1, <2>2 DEF Load, walkVars
<1>6. CASE ReachRoot
  BY <1>0, <1>6 DEF ReachRoot, walkVars, foldVars
<1>7. CASE SkipKnownParent
  BY <1>0, <1>7 DEF SkipKnownParent, walkVars
<1>8. CASE MissingNode
  BY <1>0, <1>8 DEF MissingNode, Return, walkVars, foldVars
<1>9. CASE HashPair
  <2>1. keys[pos] \in Nodes /\ keys[pos] # 1
    BY <1>9 DEF HashPair
  <2>2. getParent(keys[pos]) \in Nodes
    BY <2>1, IndexArithmetic
  <2> QED BY <1>0, <1>9, <2>2 DEF HashPair, walkVars
<1>10. CASE KeysExhausted
  BY <1>0, <1>10 DEF KeysExhausted, walkVars, foldVars
<1>11. CASE CompareRoot
  BY <1>0, <1>11 DEF CompareRoot, Return, walkVars, foldVars
<1>12. CASE UNCHANGED vars
  BY <1>12 DEF vars, walkVars, foldVars
<1> QED BY <1>1, <1>2, <1>3, <1>4, <1>5, <1>6, <1>7, <1>8, <1>9, <1>10, <1>11, <1>12
        DEF Next, Returned

(* The climb: NextLeaf moves cur to a fresh leaf only when cur is the root,*)
(* and Climb notes the parent of cur before it leaves cur.                 *)
LEMMA ClimbStep == TypeInv /\ ClimbInv /\ [Next]_vars => ClimbInv'
<1> SUFFICES ASSUME TypeInv, ClimbInv, [Next]_vars PROVE ClimbInv'
  OBVIOUS
<1> USE DEF TypeInv, TypeOK, ClimbInv, Begun
<1>1. CASE NextLeaf
  <2>1. cur = 1
    BY <1>1, NodeFacts DEF NextLeaf
  <2>2. li \in Nat /\ li' = li + 1 /\ 1 .. li' = (1 .. li) \cup {li'}
    BY <1>1, InputTypes DEF NextLeaf
  <2>3. Begun' = Begun \cup {cur'}
    BY <1>1, <2>2 DEF NextLeaf
  <2> QED BY <1>1, <2>1, <2>3 DEF NextLeaf
<1>2. CASE Climb
  BY <1>2 DEF Climb
<1>3. CASE UNCHANGED <<arg, walkVars>>
  BY <1>3 DEF walkVars
<1> QED BY <1>1, <1>2, <1>3
        DEF Next, vars, CheckLeafCount, CollectRequired, Load, ReachRoot,
            SkipKnownParent, MissingNode, HashPair, KeysExhausted, CompareRoot,
            Returned

(* Nothing that was given is also computed by the walk once it is over.    *)
LEMMA WalkedStep ==
    TypeInv /\ LengthInv /\ WalkedInv /\ ResultInv /\ [Next]_vars
        => LengthInv' /\ WalkedInv'
<1> SUFFICES ASSUME TypeInv, LengthInv, WalkedInv, ResultInv, [Next]_vars
             PROVE  LengthInv' /\ WalkedInv'
  OBVIOUS
<1> USE DEF LengthInv, WalkedInv, Walked, Folding
<1>1. CASE CheckLeafCount
  BY <1>1 DEF CheckLeafCount, Return, walkVars, ResultInv
<1>2. CASE NextLeaf \/ Climb
  BY <1>2 DEF NextLeaf, Climb, ResultInv
<1>3. CASE CollectRequired
  <2> DEFINE S == (required \ computed) \ Requested
  <2>1. SetToSortedDesc(S) \in Seq(S)
    <3>1. S \in SUBSET required /\ S \in SUBSET Nat
      BY NodeFacts DEF TypeInv, TypeOK
    <3>2. IsFiniteSet(S)
      BY <3>1, FS_Subset DEF TypeInv
    <3> HIDE DEF S
    <3> QED BY <3>1, <3>2, SetToSortedDescType
  <2>2. Elements(SetToSortedDesc(S)) \subseteq S
    <3> HIDE DEF S
    <3> QED BY <2>1 DEF Elements
  <2>3. Elements(reqIndices') \cap (computed \cup Requested) = {}
    BY <1>3, <2>2 DEF CollectRequired
  <2>4. cur = 1
    BY <1>3, NodeFacts DEF CollectRequired, TypeInv, TypeOK
  <2>5. /\ arg' = arg /\ li' = li /\ cur' = cur /\ computed' = computed
        /\ phase = "walk" /\ li = Len(arg.indices) /\ phase' \in {"load", "done"}
        /\ result' \in {"error", result}
    BY <1>3 DEF CollectRequired, Return, walkVars
  <2>6. Requested' = Requested
    BY <2>5 DEF Requested
  <2>7. result \notin {"true", "false"}
    BY <2>5 DEF ResultInv
  <2> QED BY <2>3, <2>4, <2>5, <2>6, <2>7
<1>4. CASE Load \/ ReachRoot \/ SkipKnownParent \/ HashPair \/ KeysExhausted
  BY <1>4 DEF Load, ReachRoot, SkipKnownParent, HashPair, KeysExhausted, walkVars, Requested
<1>5. CASE MissingNode
  BY <1>5 DEF MissingNode, Return, walkVars, Requested
<1>6. CASE CompareRoot
  BY <1>6 DEF CompareRoot, Return, walkVars, Requested
<1>7. CASE UNCHANGED vars
  BY <1>7 DEF vars, walkVars, Requested
<1> QED BY <1>1, <1>2, <1>3, <1>4, <1>5, <1>6, <1>7 DEF Next, Returned

(* The steps that leave the database, the arguments and the list alone     *)
(* and do not start the fold keep what is known about the database.        *)
LEMMA DbStep ==
    TypeInv /\ WalkedInv /\ DbInv /\ ResultInv /\ [Next]_vars => DbInv'
<1> SUFFICES ASSUME TypeInv, WalkedInv, DbInv, ResultInv, [Next]_vars PROVE DbInv'
  OBVIOUS
<1>1. CASE Load
  <2>1. /\ DOMAIN db' = Requested \cup Elements(reqIndices)
        /\ \A k \in Requested \ Elements(reqIndices) :
              db'[k] = arg.leaves[LastAt(arg.indices, k)]
        /\ arg' = arg /\ reqIndices' = reqIndices
    BY <1>1 DEF Load
  <2>2. Elements(reqIndices) \cap Requested = {}
    BY <1>1 DEF Load, WalkedInv, Walked
  <2>3. Requested' = Requested /\ Given' = Given
    BY <2>1 DEF Given, Requested
  <2> QED BY <2>1, <2>2, <2>3 DEF DbInv, Given, Requested
<1>2. CASE HashPair
  <2> DEFINE p == getParent(keys[pos])
  <2>1. keys[pos] \in Nodes \ {1}
    BY <1>2 DEF HashPair, TypeInv, TypeOK
  <2>2. leftOf(keys[pos]) = 2 * p /\ rightOf(keys[pos]) = 2 * p + 1 /\ p \in Nat
    BY <2>1, IndexArithmetic
  <2>3. /\ p \notin DOMAIN db /\ {2 * p, 2 * p + 1} \subseteq DOMAIN db
        /\ DOMAIN db' = DOMAIN db \cup {p}
        /\ \A k \in DOMAIN db : db'[k] = db[k]
        /\ db'[p] = hashFn(tmp'[1], tmp'[2])
        /\ tmp' = <<Copy(db[2 * p], tmp[1]), Copy(db[2 * p + 1], tmp[2])>>
        /\ arg' = arg /\ reqIndices' = reqIndices
    BY <1>2, <2>2 DEF HashPair
  <2>9. Holds(tmp'[1], db[2 * p]) /\ Holds(tmp'[2], db[2 * p + 1])
    BY <2>3, CopyTwice DEF Holds
  <2>4. Requested' = Requested /\ Given' = Given
    BY <2>3 DEF Given, Requested
  <2>5. Folding
    BY <1>2 DEF HashPair, Folding
  <2> HIDE DEF p
  <2>6. Given \subseteq DOMAIN db'
    BY <2>3, <2>5 DEF DbInv
  <2>7. ASSUME NEW k \in DOMAIN db' \ Given
        PROVE  /\ {2 * k, 2 * k + 1} \subseteq DOMAIN db'
               /\ \E l, r : /\ db'[k] = hashFn(l, r)
                            /\ Holds(l, db'[2 * k]) /\ Holds(r, db'[2 * k + 1])
    <3>1. CASE k = p
      BY <2>3, <2>9, <3>1
    <3>2. CASE k \in DOMAIN db \ Given
      BY <2>3, <2>5, <3>2 DEF DbInv
    <3> QED BY <2>3, <3>1, <3>2
  <2>8. \A k \in Requested : db'[k] = arg.leaves[LastAt(arg.indices, k)]
    BY <2>3, <2>5 DEF DbInv, Given
  <2> QED BY <2>3, <2>4, <2>6, <2>7, <2>8 DEF DbInv
<1>3. CASE UNCHANGED <<arg, reqIndices, db>> /\ (Folding' => Folding)
  <2>1. Requested' = Requested /\ Given' = Given
    BY <1>3 DEF Given, Requested
  <2> QED BY <1>3, <2>1 DEF DbInv
<1>4. CASE CheckLeafCount \/ NextLeaf \/ Climb \/ CollectRequired
  <2>1. ~ Folding'
    BY <1>4 DEF CheckLeafCount, NextLeaf, Climb, CollectRequired, Return, Folding, ResultInv
  <2> QED BY <2>1 DEF DbInv
<1>5. CASE ReachRoot \/ SkipKnownParent \/ MissingNode \/ KeysExhausted \/ CompareRoot
  BY <1>3, <1>5 DEF ReachRoot, SkipKnownParent, MissingNode, KeysExhausted,
     CompareRoot, Return, Folding, foldVars
<1>6. CASE UNCHANGED vars
  BY <1>3, <1>6 DEF vars, foldVars, Folding
<1> QED BY <1>1, <1>2, <1>4, <1>5, <1>6 DEF Next, Returned

(* An honest fold never leaves the tree: a hashed pair is a pair of        *)
(* siblings of the tree, so its hash is their parent's value.              *)
LEMMA HonestStep ==
    TypeInv /\ WalkedInv /\ HonestInv /\ ResultInv /\ [Next]_vars => HonestInv'
<1> SUFFICES ASSUME TypeInv, WalkedInv, HonestInv, ResultInv, [Next]_vars,
                    Folding', HonestLeaves', HonestProof'
             PROVE  \A k \in DOMAIN db' : db'[k] = Value[k]
  BY DEF HonestInv
<1>1. CASE Load
  <2>1. /\ HonestLeaves /\ HonestProof
        /\ arg.indices \in Seq(Nodes) /\ reqIndices \in Seq(Nodes)
    BY <1>1, InputTypes DEF Load, HonestLeaves, HonestProof, TypeInv, TypeOK
  <2>2. ASSUME NEW k \in Requested
        PROVE  arg.leaves[LastAt(arg.indices, k)] = Value[k]
    BY <2>1, LastAtIndex DEF Requested, HonestLeaves
  <2>3. ASSUME NEW k \in Elements(reqIndices)
        PROVE  arg.proof[LastAt(reqIndices, k)] = Value[k]
    BY <2>1, LastAtIndex DEF HonestProof
  <2> QED BY <1>1, <2>2, <2>3 DEF Load
<1>2. CASE HashPair
  <2> DEFINE p == getParent(keys[pos])
  <2>1. keys[pos] \in Nodes \ {1}
    BY <1>2 DEF HashPair, TypeInv, TypeOK
  <2>2. Value[p] = hashFn(Value[leftOf(keys[pos])], Value[rightOf(keys[pos])])
    BY <2>1, IndexArithmetic
  <2>3. \A k \in DOMAIN db : db[k] = Value[k]
    BY <1>2 DEF HashPair, HonestInv, Folding, HonestLeaves, HonestProof
  <2>4. DOMAIN db \subseteq Nodes
    BY DEF TypeInv, TypeOK
  <2>5. tmp' = <<Value[leftOf(keys[pos])], Value[rightOf(keys[pos])]>>
    BY <1>2, <2>3, <2>4, ValueFills DEF HashPair
  <2> QED BY <1>2, <2>2, <2>3, <2>5 DEF HashPair
<1>3. CASE CheckLeafCount \/ NextLeaf \/ Climb \/ CollectRequired
  BY <1>3 DEF CheckLeafCount, NextLeaf, Climb, CollectRequired, Return, Folding, ResultInv
<1>4. CASE ReachRoot \/ SkipKnownParent \/ MissingNode \/ KeysExhausted \/ CompareRoot
  BY <1>4 DEF ReachRoot, SkipKnownParent, MissingNode, KeysExhausted, CompareRoot,
     Return, Folding, foldVars, HonestInv, HonestLeaves, HonestProof, ResultInv
<1>5. CASE UNCHANGED vars
  BY <1>5 DEF vars, foldVars, Folding, HonestInv, HonestLeaves, HonestProof
<1> QED BY <1>1, <1>2, <1>3, <1>4, <1>5 DEF Next, Returned

(* The answer is given once, and true and false compare db[1] with the     *)
(* root.                                                                   *)
LEMMA ResultStep == TypeInv /\ ResultInv /\ [Next]_vars => ResultInv'
<1> SUFFICES ASSUME TypeInv, ResultInv, [Next]_vars PROVE ResultInv'
  OBVIOUS
<1> USE DEF ResultInv
<1>1. CASE CompareRoot
  BY <1>1 DEF CompareRoot, Return, foldVars
<1>2. CASE CheckLeafCount \/ CollectRequired \/ MissingNode
  BY <1>2 DEF CheckLeafCount, CollectRequired, MissingNode, Return, foldVars
<1>3. CASE NextLeaf \/ Climb \/ Load \/ ReachRoot \/ SkipKnownParent \/ HashPair \/ KeysExhausted
  BY <1>3 DEF NextLeaf, Climb, Load, ReachRoot, SkipKnownParent, HashPair, KeysExhausted
<1>4. CASE UNCHANGED vars
  BY <1>4 DEF vars, foldVars
<1> QED BY <1>1, <1>2, <1>3, <1>4 DEF Next, Returned

(* The inductive invariant of VerifyMultiproof, from the five step lemmas. *)
THEOREM Invariance == Spec => []IInv
<1>1. IInv /\ [Next]_vars => IInv'
  BY TypeStep, ClimbStep, WalkedStep, DbStep, HonestStep, ResultStep DEF IInv
<1> QED BY InitIInv, <1>1, PTL DEF Spec

(* Every variable keeps its type, in every tree and for all arguments.     *)
THEOREM TypeCorrect == Spec => []TypeOK
<1>1. IInv => TypeOK
  BY DEF IInv, TypeInv
<1> QED BY Invariance, <1>1, PTL

(***************************************************************************)
(* Soundness.  Suppose some node that was requested, or that lies on the   *)
(* path of one, is missing from db or differs from the tree.  The least    *)
(* such node m is not the root, which was compared.  Its parent is on a    *)
(* path, so it was computed and not given: it is the hash of its children, *)
(* and it agrees with the tree, m being least.  The hash is injective, so  *)
(* both halves of what was hashed agree with the tree, and one of them     *)
(* holds what there is room for of m.                                      *)
(***************************************************************************)
THEOREM AcceptedLeavesAreInTree_Inv == IInv => AcceptedLeavesAreInTree
<1> SUFFICES ASSUME IInv, result = "true", IndependentIndices,
                    NEW i \in DOMAIN arg.indices
             PROVE  Copy(arg.leaves[i], Value[arg.indices[i]]) = Value[arg.indices[i]]
  BY DEF AcceptedLeavesAreInTree
<1> DEFINE OnPath == computed \cup Requested
           Good(k) == k \in DOMAIN db /\ Holds(Value[k], db[k])
           Bad == {k \in OnPath : ~ Good(k)}
<1>1. /\ Folding /\ Walked
      /\ li = Len(arg.indices) /\ cur = 1
      /\ Elements(reqIndices) \cap (computed \cup Requested) = {}
      /\ Requested \cap computed = {}
      /\ Good(1)
  BY ValueFills, NodeFacts
     DEF IInv, Folding, Walked, WalkedInv, ResultInv, IndependentIndices, Holds
<1>2. OnPath \subseteq Nodes /\ DOMAIN arg.indices = 1 .. Len(arg.indices)
  BY InputTypes DEF IInv, TypeInv, TypeOK
<1>3. Begun = Requested
  BY <1>1, <1>2 DEF Begun, Requested, Elements
<1>4. \A k \in OnPath : k = 1 \/ getParent(k) \in computed
  BY <1>1, <1>3 DEF IInv, ClimbInv
<1>5. Bad = {}
  <2>1. SUFFICES ASSUME Bad # {} PROVE FALSE
    OBVIOUS
  <2>2. PICK m \in Bad : \A k \in Bad : m <= k
    BY <1>2, <2>1, NodeFacts, LeastNat
  <2>3. m \in Nodes /\ m # 1 /\ getParent(m) \in computed
    BY <1>1, <1>2, <1>4, <2>2
  <2> DEFINE p == getParent(m)
  <2>4. /\ p \in Nat /\ m \in Nat /\ p < m
        /\ m = 2 * p \/ m = 2 * p + 1
        /\ Value[p] = hashFn(Value[2 * p], Value[2 * p + 1])
    BY <2>3, IndexArithmetic, NodeFacts
  <2> HIDE DEF p
  <2>5. Good(p)
    <3>1. p \in OnPath
      BY <2>3 DEF p
    <3>2. p \notin Bad
      BY <2>2, <2>4
    <3> QED BY <3>1, <3>2
  <2>6. p \in DOMAIN db \ Given
    BY <1>1, <2>3, <2>5 DEF Given, p
  <2>7. /\ {2 * p, 2 * p + 1} \subseteq DOMAIN db
        /\ \E l, r : /\ db[p] = hashFn(l, r)
                     /\ Holds(l, db[2 * p]) /\ Holds(r, db[2 * p + 1])
    BY <1>1, <2>6 DEF IInv, DbInv
  <2>8. Holds(Value[2 * p], db[2 * p]) /\ Holds(Value[2 * p + 1], db[2 * p + 1])
    <3>1. PICK l, r : /\ db[p] = hashFn(l, r)
                      /\ Holds(l, db[2 * p]) /\ Holds(r, db[2 * p + 1])
      BY <2>7
    <3>2. hashFn(l, r) = Value[p]
      BY <2>5, <3>1, DigestFills DEF Holds
    <3>3. l = Value[2 * p] /\ r = Value[2 * p + 1]
      BY <2>4, <3>2, HashInjective
    <3> QED BY <3>1, <3>3
  <2>9. Good(m)
    BY <2>4, <2>7, <2>8
  <2> QED BY <2>2, <2>9
<1>6. Good(arg.indices[i]) /\ arg.indices[i] \in Requested
  <2>1. arg.indices[i] \in Requested
    BY DEF Requested, Elements
  <2> QED BY <1>5, <2>1
<1>7. LastAt(arg.indices, arg.indices[i]) = i
  <2>1. arg.indices \in Seq(Nodes) /\ arg.indices[i] \in Elements(arg.indices)
    BY InputTypes DEF IInv, TypeInv, Elements
  <2>2. /\ LastAt(arg.indices, arg.indices[i]) \in DOMAIN arg.indices
        /\ arg.indices[LastAt(arg.indices, arg.indices[i])] = arg.indices[i]
    BY <2>1, LastAtIndex
  <2> QED BY <2>2 DEF IndependentIndices
<1> QED BY <1>1, <1>6, <1>7 DEF IInv, DbInv, Holds

(* VerifyMultiproof is sound for every tree, index list and proof.         *)
THEOREM Soundness == Spec => []AcceptedLeavesAreInTree
<1> QED BY Invariance, AcceptedLeavesAreInTree_Inv, PTL

(* An honest proof is never answered with false.                           *)
THEOREM HonestNeverFalse == Spec => []HonestProofNeverFalse
<1>1. IInv => HonestProofNeverFalse
  BY DEF IInv, HonestInv, ResultInv, HonestProofNeverFalse, Folding
<1> QED BY Invariance, <1>1, PTL
---------------------------------------------------------------------------
(***************************************************************************)
(* Linear work.  A pair is hashed only when its parent is not in db, and   *)
(* the parent is then in db for good.  The nodes hashed are nodes the      *)
(* climb has counted: the one at hand was given, was computed or is a      *)
(* sibling met on the way up, and the parents of all these are computed.   *)
(***************************************************************************)
Hashed == DOMAIN db \ Given

(* The climb notes the parent of every sibling, and the required indices   *)
(* are siblings.                                                           *)
SiblingInv == /\ IsFiniteSet(computed)
              /\ \A k \in required : getParent(k) \in computed
              /\ Elements(reqIndices) \subseteq required

(* The work list grew by one entry for each node hashed.                   *)
CountInv ==
    keys # << >> =>
        /\ phase \in {"fold", "compare", "done"}
        /\ Elements(keys) \subseteq DOMAIN db
        /\ Hashed \subseteq computed
        /\ Len(keys) = Len(arg.indices) + Len(reqIndices) + Cardinality(Hashed)

(* Sorting keeps the length: keys begins with one entry per index.         *)
LEMMA SortDescLen ==
    ASSUME NEW T \in SUBSET Nat, NEW s \in Seq(T)
    PROVE  /\ SortDesc(s) \in Seq(Elements(s))
           /\ Len(SortDesc(s)) = Len(s)
<1>1. DOMAIN s = 1 .. Len(s) /\ Len(s) \in Nat
  OBVIOUS
<1>2. IsFiniteSet(1 .. Len(s)) /\ Cardinality(1 .. Len(s)) = Len(s)
  <2> DEFINE n == Len(s)
  <2>1. n \in Nat
    BY <1>1
  <2> HIDE DEF n
  <2>2. /\ IsFiniteSet(1 .. n)
        /\ Cardinality(1 .. n) = IF 1 > n THEN 0 ELSE n - 1 + 1
    BY <2>1, FS_Interval
  <2>3. Cardinality(1 .. n) = n
    BY <2>1, <2>2
  <2> QED BY <2>2, <2>3 DEF n
<1>3. IsFiniteSet(DOMAIN s) /\ Cardinality(DOMAIN s) = Len(s)
  BY <1>1, <1>2
<1>4. Elements(s) \subseteq Nat
  <2>1. \A j \in DOMAIN s : s[j] \in T
    BY <1>1
  <2> QED BY <2>1 DEF Elements
<1>5. SortDesc(s) \in Seq(Elements(s))
  BY <1>3, <1>4, SortDescType
<1>6. DOMAIN SortDesc(s) = 1 .. Cardinality(DOMAIN s)
  BY DEF SortDesc
<1> HIDE DEF SortDesc
<1>7. DOMAIN SortDesc(s) = 1 .. Len(SortDesc(s)) /\ Len(SortDesc(s)) \in Nat
  BY <1>5
<1> QED BY <1>1, <1>3, <1>5, <1>6, <1>7

(* Climb notes a sibling together with the parent the two share.           *)
LEMMA SiblingStep == TypeInv /\ SiblingInv /\ [Next]_vars => SiblingInv'
<1> SUFFICES ASSUME TypeInv, SiblingInv, [Next]_vars PROVE SiblingInv'
  OBVIOUS
<1> USE DEF SiblingInv
<1>1. CASE Climb
  <2>1. getParent(getSibling(cur)) = getParent(cur)
    <3>1. cur \in Nat /\ cur > 1
      BY <1>1, NodeFacts DEF Climb, TypeInv, TypeOK
    <3> QED BY <3>1 DEF getParent, getSibling
  <2>2. IsFiniteSet(computed')
    BY <1>1, FS_AddElement DEF Climb
  <2> QED BY <1>1, <2>1, <2>2 DEF Climb
<1>2. CASE CollectRequired
  <2> DEFINE S == (required \ computed) \ Requested
  <2>1. S \in SUBSET required /\ S \in SUBSET Nat
    BY NodeFacts DEF TypeInv, TypeOK
  <2>2. IsFiniteSet(S)
    BY <2>1, FS_Subset DEF TypeInv
  <2>3. reqIndices' = SetToSortedDesc(S) /\ UNCHANGED <<required, computed>>
    BY <1>2 DEF CollectRequired, walkVars
  <2> HIDE DEF S
  <2>4. reqIndices' \in Seq(S)
    BY <2>1, <2>2, <2>3, SetToSortedDescType
  <2>5. Elements(reqIndices') \subseteq S
    BY <2>4 DEF Elements
  <2> QED BY <2>1, <2>3, <2>5
<1>3. CASE UNCHANGED <<required, computed, reqIndices>>
  BY <1>3 DEF Elements
<1> QED BY <1>1, <1>2, <1>3
        DEF Next, vars, walkVars, CheckLeafCount, NextLeaf, Load, ReachRoot,
            SkipKnownParent, MissingNode, HashPair, KeysExhausted, CompareRoot,
            Returned

(* One entry of the work list for each node hashed, and none twice.        *)
LEMMA CountStep ==
    IInv /\ SiblingInv /\ CountInv /\ [Next]_vars => CountInv'
<1> SUFFICES ASSUME IInv, SiblingInv, CountInv, [Next]_vars, keys' # << >>
             PROVE  CountInv'
  BY DEF CountInv
<1> USE DEF CountInv
<1>1. CASE Load
  <2> DEFINE s == arg.indices \o reqIndices
  <2>1. /\ arg.indices \in Seq(Nodes) /\ reqIndices \in Seq(Nodes)
        /\ Nodes \in SUBSET Nat
    BY InputTypes, NodeFacts DEF IInv, TypeInv, TypeOK
  <2>2. s \in Seq(Nodes) /\ Len(s) = Len(arg.indices) + Len(reqIndices)
    BY <2>1
  <2>3. Elements(s) = Given
    <3>1. Elements(s) \subseteq Given
      BY <2>1 DEF Elements, Given, Requested
    <3>2. ASSUME NEW i \in DOMAIN arg.indices PROVE arg.indices[i] \in Elements(s)
      <4>1. i \in DOMAIN s /\ s[i] = arg.indices[i]
        BY <2>1
      <4> QED BY <4>1 DEF Elements
    <3>3. ASSUME NEW i \in DOMAIN reqIndices PROVE reqIndices[i] \in Elements(s)
      <4>1. /\ Len(arg.indices) + i \in DOMAIN s
            /\ s[Len(arg.indices) + i] = reqIndices[i]
        BY <2>1
      <4> QED BY <4>1 DEF Elements
    <3> HIDE DEF s
    <3> QED BY <3>1, <3>2, <3>3 DEF Given, Requested, Elements
  <2>4. /\ keys' = SortDesc(s) /\ DOMAIN db' = Given /\ phase' = "fold"
        /\ arg' = arg /\ reqIndices' = reqIndices
    BY <1>1 DEF Load, Given
  <2> HIDE DEF s
  <2>5. keys' \in Seq(Given) /\ Len(keys') = Len(s)
    BY <2>1, <2>2, <2>3, <2>4, SortDescLen
  <2>6. Elements(keys') \subseteq Given
    BY <2>5 DEF Elements
  <2>7. Hashed' = {}
    BY <2>4 DEF Hashed, Given, Requested
  <2>8. Len(arg.indices) + Len(reqIndices) \in Nat
    BY <2>1
  <2> QED BY <2>2, <2>4, <2>5, <2>6, <2>7, <2>8, FS_EmptySet
<1>2. CASE HashPair
  <2> DEFINE k == keys[pos]
             p == getParent(k)
  <2>1. /\ k \in Nodes \ {1} /\ k \in Elements(keys) /\ keys # << >>
        /\ keys \in Seq(Nodes)
    BY <1>2 DEF HashPair, IInv, TypeInv, TypeOK, Elements
  <2>2. /\ p \notin DOMAIN db /\ DOMAIN db' = DOMAIN db \cup {p}
        /\ keys' = Append(keys, p) /\ phase' = "fold"
        /\ arg' = arg /\ reqIndices' = reqIndices /\ computed' = computed
    BY <1>2 DEF HashPair, walkVars
  <2> HIDE DEF k
  <2>3. /\ Given \subseteq DOMAIN db
        /\ cur = 1 /\ li = Len(arg.indices)
    BY <1>2 DEF HashPair, IInv, DbInv, WalkedInv, Walked, Folding
  <2>4. Begun = Requested
    BY <2>3, InputTypes DEF IInv, TypeInv, Begun, Requested, Elements
  <2>5. p \in computed
    <3>1. k \in Requested \cup Elements(reqIndices) \cup computed
      BY <2>1 DEF Hashed, Given
    <3>2. CASE k \in Requested \cup computed
      BY <2>1, <2>3, <2>4, <3>2 DEF IInv, ClimbInv
    <3>3. CASE k \in Elements(reqIndices)
      BY <3>3 DEF SiblingInv
    <3> QED BY <3>1, <3>2, <3>3
  <2> HIDE DEF p
  <2>6. Hashed' = Hashed \cup {p} /\ p \notin Hashed
    BY <2>2, <2>3 DEF Hashed, Given, Requested
  <2>7. IsFiniteSet(Hashed)
    BY <2>1, FS_Subset DEF SiblingInv
  <2>8. Cardinality(Hashed') = Cardinality(Hashed) + 1
    BY <2>6, <2>7, FS_AddElement
  <2>9. Len(keys') = Len(keys) + 1 /\ Elements(keys') \subseteq Elements(keys) \cup {p}
    <3>1. \A j \in DOMAIN keys' : keys'[j] = p \/ (j \in DOMAIN keys /\ keys'[j] = keys[j])
      BY <2>1, <2>2
    <3> QED BY <2>1, <2>2, <3>1 DEF Elements
  <2>10. /\ Len(arg.indices) \in Nat /\ Len(reqIndices) \in Nat
         /\ Cardinality(Hashed) \in Nat
    BY <2>7, InputTypes, FS_CardinalityType DEF IInv, TypeInv, TypeOK
  <2>11. Elements(keys') \subseteq DOMAIN db' /\ Hashed' \subseteq computed'
    BY <2>1, <2>2, <2>5, <2>6, <2>9
  <2>12. Len(keys') = Len(arg'.indices) + Len(reqIndices') + Cardinality(Hashed')
    BY <2>1, <2>2, <2>8, <2>9, <2>10
  <2> QED BY <2>2, <2>11, <2>12
<1>3. CASE /\ UNCHANGED <<arg, reqIndices, db, keys, computed>>
           /\ phase' \in {"fold", "compare", "done"}
  <2>1. Hashed' = Hashed
    BY <1>3 DEF Hashed, Given, Requested
  <2> QED BY <1>3, <2>1 DEF Elements
<1>4. CASE CheckLeafCount \/ NextLeaf \/ Climb \/ CollectRequired
  BY <1>4 DEF CheckLeafCount, NextLeaf, Climb, CollectRequired, foldVars
<1>5. CASE ReachRoot \/ SkipKnownParent \/ MissingNode \/ KeysExhausted \/ CompareRoot
  BY <1>3, <1>5 DEF ReachRoot, SkipKnownParent, MissingNode, KeysExhausted,
     CompareRoot, Return, walkVars, foldVars
<1>6. CASE UNCHANGED vars
  BY <1>3, <1>6 DEF vars, walkVars, foldVars
<1> QED BY <1>1, <1>2, <1>4, <1>5, <1>6 DEF Next, Returned

(* The fold hashes no pair twice: its work is linear in the leaves, the    *)
(* hashes and the nodes computed, for every tree and all arguments.        *)
THEOREM LinearWork == Spec => []NoNodeHashedTwice
<1>1. Init => SiblingInv /\ CountInv
  BY FS_EmptySet DEF Init, SiblingInv, CountInv, Elements
<1>2. IInv /\ SiblingInv /\ CountInv /\ [Next]_vars => SiblingInv' /\ CountInv'
  BY SiblingStep, CountStep DEF IInv
<1>3. IInv /\ SiblingInv /\ CountInv => NoNodeHashedTwice
  <2> SUFFICES ASSUME IInv, SiblingInv, CountInv
               PROVE  Len(keys) <= Len(arg.indices) + Len(reqIndices)
                                     + Cardinality(computed)
    BY DEF NoNodeHashedTwice
  <2>1. /\ Len(arg.indices) \in Nat /\ Len(reqIndices) \in Nat
        /\ Cardinality(computed) \in Nat
    BY InputTypes, FS_CardinalityType DEF IInv, TypeInv, TypeOK, SiblingInv
  <2>2. CASE keys = << >>
    BY <2>1, <2>2
  <2>3. CASE keys # << >>
    <3>1. IsFiniteSet(Hashed) /\ Cardinality(Hashed) <= Cardinality(computed)
      BY <2>3, FS_Subset DEF CountInv, SiblingInv
    <3>2. Cardinality(Hashed) \in Nat
      BY <3>1, FS_CardinalityType
    <3> QED BY <2>1, <2>3, <3>1, <3>2 DEF CountInv
  <2> QED BY <2>2, <2>3
<1> QED BY Invariance, <1>1, <1>2, <1>3, PTL DEF Spec

---------------------------------------------------------------------------
(***************************************************************************)
(* The required indices are the exact complement.  Ancestors is defined by *)
(* recursion, and such a function exists: the nodes above k, k included,   *)
(* are those in every set that has k and the parent of each of its nodes.  *)
(***************************************************************************)
Closed(S) == \A n \in S : n > 1 => getParent(n) \in S
Up(k) == {m \in Nat : \A S \in SUBSET Nat : k \in S /\ Closed(S) => m \in S}

(* What is above a node is the node and what is above its parent.          *)
LEMMA UpSteps ==
    ASSUME NEW k \in Nat
    PROVE  Up(k) = {k} \cup (IF k <= 1 THEN {} ELSE Up(getParent(k)))
<1> DEFINE p == getParent(k)
           U == {k} \cup (IF k <= 1 THEN {} ELSE Up(p))
<1>1. p \in Nat /\ \A n \in Nat : getParent(n) \in Nat
  BY DEF getParent
<1>2. U \subseteq Up(k)
  <2>1. k \in Up(k)
    BY DEF Up
  <2>2. ASSUME k > 1, NEW m \in Up(p) PROVE m \in Up(k)
    <3>1. m \in Nat /\ \A S \in SUBSET Nat : p \in S /\ Closed(S) => m \in S
      BY <2>2 DEF Up
    <3>2. \A S \in SUBSET Nat : k \in S /\ Closed(S) => p \in S
      BY <2>2 DEF Closed
    <3> HIDE DEF p
    <3> QED BY <3>1, <3>2 DEF Up
  <2>3. k > 1 \/ k <= 1
    OBVIOUS
  <2> HIDE DEF p
  <2> QED BY <2>1, <2>2, <2>3
<1>3. Up(k) \subseteq U
  <2>1. U \in SUBSET Nat /\ k \in U
    BY DEF Up
  <2>2. ASSUME k > 1 PROVE p \in Up(p)
    BY <1>1 DEF Up
  <2>3. ASSUME k > 1, NEW n \in Up(p), n > 1 PROVE getParent(n) \in Up(p)
    <3>1. \A S \in SUBSET Nat : p \in S /\ Closed(S) => n \in S /\ getParent(n) \in S
      BY <2>3 DEF Up, Closed
    <3>2. n \in Nat
      BY <2>3 DEF Up
    <3> QED BY <1>1, <3>1, <3>2 DEF Up
  <2>4. Closed(U)
    <3> SUFFICES ASSUME NEW n \in U, n > 1 PROVE getParent(n) \in U
      BY DEF Closed
    <3>1. CASE n = k
      BY <2>2, <3>1
    <3>2. CASE n # k
      BY <2>3, <3>2
    <3> QED BY <3>1, <3>2
  <2> HIDE DEF U
  <2> QED BY <2>1, <2>4 DEF Up
<1> QED BY <1>2, <1>3

(* What CHOOSE finds where Ancestors is defined.                           *)
AncestorsRec(f) ==
    f = [k \in Nat |-> IF k <= 1 THEN {} ELSE {getParent(k)} \cup f[getParent(k)]]

(* The recursion defines what it says.                                     *)
LEMMA AncestorsSteps ==
    \A k \in Nat : Ancestors[k] = IF k <= 1 THEN {}
                                  ELSE {getParent(k)} \cup Ancestors[getParent(k)]
<1> DEFINE A == [k \in Nat |-> IF k <= 1 THEN {} ELSE Up(getParent(k))]
           c == CHOOSE f : AncestorsRec(f)
<1>1. ASSUME NEW k \in Nat
      PROVE  A[k] = IF k <= 1 THEN {} ELSE {getParent(k)} \cup A[getParent(k)]
  <2> DEFINE p == getParent(k)
  <2>1. p \in Nat
    BY DEF getParent
  <2>2. Up(p) = {p} \cup (IF p <= 1 THEN {} ELSE Up(getParent(p)))
    BY <2>1, UpSteps
  <2>3. A[p] = IF p <= 1 THEN {} ELSE Up(getParent(p))
    BY <2>1
  <2>4. A[k] = IF k <= 1 THEN {} ELSE Up(p)
    OBVIOUS
  <2> HIDE DEF A, p
  <2> QED BY <2>2, <2>3, <2>4 DEF p
<1>2. A = [k \in Nat |-> A[k]]
  OBVIOUS
<1> HIDE DEF A
<1>3. AncestorsRec(A)
  BY <1>1, <1>2 DEF AncestorsRec
<1>4. AncestorsRec(c)
  BY <1>3
<1> HIDE DEF c
<1>5. Ancestors = c
  BY DEF Ancestors, AncestorsRec, c
<1>6. \A k \in Nat : c[k] = IF k <= 1 THEN {} ELSE {getParent(k)} \cup c[getParent(k)]
  BY <1>4 DEF AncestorsRec
<1> QED BY <1>5, <1>6

(* The way from a node up to the root.                                     *)
Path(k) == Ancestors[k] \cup {k}

(* Below a node of a path that is not its foot there is another.           *)
HasChildOn(a, k) == \E c \in Path(k) : c > 1 /\ getParent(c) = a

IsPath(k) ==
    /\ Path(k) \subseteq Nodes /\ 1 \in Path(k)
    /\ \A a \in Ancestors[k] : a < k /\ HasChildOn(a, k) /\ Ancestors[a] \subseteq Ancestors[k]
    /\ \A a \in Path(k) : a > 1 => getParent(a) \in Ancestors[k]
    /\ \A x, y \in Path(k) : x = y \/ x \in Ancestors[y] \/ y \in Ancestors[x]

(* A path goes up node by node, stays in the tree and ends at the root;    *)
(* of two nodes on it one is above the other.                              *)
LEMMA Paths == \A k \in Nodes : IsPath(k)
<1> DEFINE Bad == {k \in Nodes : ~ IsPath(k)}
<1>1. SUFFICES ASSUME Bad # {} PROVE FALSE
  OBVIOUS
<1>2. PICK k \in Bad : \A n \in Bad : k <= n
  BY <1>1, NodeFacts, LeastNat
<1>3. k \in Nodes /\ k \in Nat /\ k >= 1 /\ ~ IsPath(k)
  BY <1>2, NodeFacts
<1>4. CASE k = 1
  <2>1. Ancestors[1] = {} /\ Path(1) = {1}
    <3>1. 1 \in Nat /\ 1 <= 1
      OBVIOUS
    <3>2. Ancestors[1] = {}
      BY ONLY <3>1, AncestorsSteps
    <3> QED BY <3>2 DEF Path
  <2>2. IsPath(1)
    BY <2>1, NodeFacts DEF IsPath
  <2> QED BY <1>3, <1>4, <2>2
<1>5. CASE k # 1
  <2> DEFINE p == getParent(k)
  <2>1. p \in Nodes /\ p \in Nat /\ p < k /\ k > 1
    BY <1>3, <1>5, IndexArithmetic
  <2> HIDE DEF p
  <2>2. IsPath(p)
    BY <1>2, <1>3, <2>1
  <2>3. Ancestors[k] = Path(p) /\ Path(k) = Path(p) \cup {k}
    <3>1. k \in Nat /\ ~ (k <= 1)
      BY <1>3, <2>1
    <3>2. Ancestors[k] = {getParent(k)} \cup Ancestors[getParent(k)]
      BY ONLY <3>1, AncestorsSteps
    <3> QED BY <3>2 DEF Path, p
  <2>4. Path(k) \subseteq Nodes /\ 1 \in Path(k)
    BY <1>3, <2>2, <2>3 DEF IsPath
  <2>5. ASSUME NEW a \in Ancestors[k]
        PROVE  a < k /\ HasChildOn(a, k) /\ Ancestors[a] \subseteq Ancestors[k]
    <3>1. CASE a = p
      <4>1. k \in Path(k) /\ getParent(k) = a
        BY <3>1 DEF Path, p
      <4> QED BY <2>1, <2>3, <3>1, <4>1 DEF HasChildOn, Path
    <3>2. CASE a # p
      <4>1. a \in Ancestors[p]
        BY <2>3, <3>2 DEF Path
      <4>2. a < p /\ HasChildOn(a, p) /\ Ancestors[a] \subseteq Ancestors[p]
        BY <2>2, <4>1 DEF IsPath
      <4>3. a \in Nat
        BY <2>4, NodeFacts DEF Path
      <4>4. a < k
        BY <2>1, <4>2, <4>3
      <4> QED BY <2>3, <4>2, <4>4 DEF HasChildOn, Path
    <3> QED BY <3>1, <3>2
  <2>6. ASSUME NEW a \in Path(k), a > 1 PROVE getParent(a) \in Ancestors[k]
    <3>1. CASE a = k
      BY <2>3, <3>1 DEF Path, p
    <3>2. CASE a \in Path(p)
      BY <2>2, <2>3, <2>6, <3>2 DEF IsPath, Path
    <3> QED BY <2>3, <3>1, <3>2
  <2>7. ASSUME NEW x \in Path(k), NEW y \in Path(k)
        PROVE  x = y \/ x \in Ancestors[y] \/ y \in Ancestors[x]
    <3>1. CASE x = k \/ y = k
      BY <2>3, <3>1
    <3>2. CASE x # k /\ y # k
      BY <2>2, <2>3, <3>2 DEF IsPath
    <3> QED BY <3>1, <3>2
  <2>8. IsPath(k)
    BY <2>4, <2>5, <2>6, <2>7 DEF IsPath
  <2> QED BY <1>3, <2>8
<1> QED BY <1>4, <1>5

(* What the climb has noted: the ancestors of the indices begun but for    *)
(* those still ahead; the sibling of everything passed; and no others.     *)
WalkInv ==
    /\ computed \cup Ancestors[cur] = UNION {Ancestors[k] : k \in Begun}
    /\ cur = 1 \/ cur \in Begun \cup computed
    /\ \A z \in Begun \cup computed : z = 1 \/ z = cur \/ getSibling(z) \in required
    /\ \A s \in required : \E z \in Begun \cup computed : z # 1 /\ s = getSibling(z)

(* What getRequiredIndices returned.                                       *)
CollectInv ==
    phase \in {"load", "fold", "compare"} =>
        reqIndices = SetToSortedDesc((required \ computed) \ Requested)

(* Nothing is noted when VerifyMultiproof is called.                       *)
LEMMA InitWalkInv == Init => WalkInv /\ CollectInv
<1> SUFFICES ASSUME Init PROVE WalkInv /\ CollectInv
  OBVIOUS
<1>1. Ancestors[1] = {}
  <2>1. 1 \in Nat /\ 1 <= 1
    OBVIOUS
  <2> QED BY ONLY <2>1, AncestorsSteps
<1>2. cur = 1 /\ required = {} /\ computed = {} /\ phase = "start" /\ li = 0
  BY DEF Init
<1>3. Begun = {}
  BY <1>2 DEF Begun
<1> QED BY <1>1, <1>2, <1>3 DEF WalkInv, CollectInv

(* A step of the climb moves one ancestor from ahead to computed.          *)
LEMMA WalkStep == TypeInv /\ WalkInv /\ [Next]_vars => WalkInv'
<1> SUFFICES ASSUME TypeInv, WalkInv, [Next]_vars PROVE WalkInv'
  OBVIOUS
<1>0. /\ computed \cup Ancestors[cur] = UNION {Ancestors[k] : k \in Begun}
      /\ cur = 1 \/ cur \in Begun \cup computed
      /\ \A z \in Begun \cup computed : z = 1 \/ z = cur \/ getSibling(z) \in required
      /\ \A s \in required : \E z \in Begun \cup computed : z # 1 /\ s = getSibling(z)
  BY DEF WalkInv
<1>1. CASE NextLeaf
  <2>1. cur = 1 /\ computed' = computed /\ required' = required
    BY <1>1, NodeFacts DEF NextLeaf, TypeInv, TypeOK
  <2>2. li \in Nat /\ li' = li + 1 /\ 1 .. li' = (1 .. li) \cup {li'}
    BY <1>1, InputTypes DEF NextLeaf, TypeInv, TypeOK
  <2>3. Begun' = Begun \cup {cur'}
    BY <1>1, <2>2 DEF NextLeaf, Begun
  <2>4. Ancestors[1] = {}
    <3>1. 1 \in Nat /\ 1 <= 1
      OBVIOUS
    <3> QED BY ONLY <3>1, AncestorsSteps
  <2>5. computed = UNION {Ancestors[k] : k \in Begun}
    BY <1>0, <2>1, <2>4
  <2>6. computed' \cup Ancestors[cur'] = UNION {Ancestors[k] : k \in Begun'}
    BY <2>1, <2>3, <2>5
  <2> QED BY <1>0, <2>1, <2>3, <2>6 DEF WalkInv
<1>2. CASE Climb
  <2>1. /\ cur \in Nat /\ ~ (cur <= 1) /\ cur # 1
        /\ computed' = computed \cup {getParent(cur)} /\ cur' = getParent(cur)
        /\ required' = required \cup {getSibling(cur)}
        /\ arg' = arg /\ li' = li
    BY <1>2, NodeFacts DEF Climb, TypeInv, TypeOK
  <2>2. Begun' = Begun
    BY <2>1 DEF Begun
  <2>3. Ancestors[cur] = {getParent(cur)} \cup Ancestors[getParent(cur)]
    BY ONLY <2>1, AncestorsSteps
  <2>4. computed' \cup Ancestors[cur'] = UNION {Ancestors[k] : k \in Begun'}
    BY <1>0, <2>1, <2>2, <2>3
  <2>5. cur \in Begun \cup computed
    BY <1>0, <2>1
  <2>6. \A z \in Begun' \cup computed' : z = 1 \/ z = cur' \/ getSibling(z) \in required'
    BY <1>0, <2>1, <2>2
  <2>7. \A s \in required' : \E z \in Begun' \cup computed' : z # 1 /\ s = getSibling(z)
    BY <1>0, <2>1, <2>2, <2>5
  <2> QED BY <2>1, <2>2, <2>4, <2>6, <2>7 DEF WalkInv
<1>3. CASE UNCHANGED <<arg, walkVars>>
  <2>1. computed' = computed /\ required' = required /\ cur' = cur /\ li' = li /\ arg' = arg
    BY <1>3 DEF walkVars
  <2>2. Begun' = Begun
    BY <2>1 DEF Begun
  <2> QED BY <1>0, <2>1, <2>2 DEF WalkInv
<1> QED BY <1>1, <1>2, <1>3
        DEF Next, vars, CheckLeafCount, CollectRequired, Load, ReachRoot,
            SkipKnownParent, MissingNode, HashPair, KeysExhausted, CompareRoot,
            Returned

(* The list is what is left of the siblings when the climb is over.        *)
LEMMA CollectStep == CollectInv /\ [Next]_vars => CollectInv'
<1> SUFFICES ASSUME CollectInv, [Next]_vars PROVE CollectInv'
  OBVIOUS
<1> USE DEF CollectInv
<1>1. CASE CollectRequired
  <2>1. arg' = arg /\ required' = required /\ computed' = computed
    BY <1>1 DEF CollectRequired, walkVars
  <2> QED BY <1>1, <2>1 DEF CollectRequired, Requested
<1>2. CASE CheckLeafCount \/ NextLeaf \/ Climb
  BY <1>2 DEF CheckLeafCount, NextLeaf, Climb, Return
<1>3. CASE MissingNode \/ CompareRoot
  BY <1>3 DEF MissingNode, CompareRoot, Return
<1>4. CASE Load \/ ReachRoot \/ SkipKnownParent \/ HashPair \/ KeysExhausted
  BY <1>4 DEF Load, ReachRoot, SkipKnownParent, HashPair, KeysExhausted, walkVars, Requested
<1>5. CASE UNCHANGED vars
  BY <1>5 DEF vars, walkVars, Requested
<1> QED BY <1>1, <1>2, <1>3, <1>4, <1>5 DEF Next, Returned

Collected == phase \in {"load", "fold", "compare"}

(* When the climb is over, everything is noted: the ancestors of the       *)
(* indices are computed, whatever was passed has its sibling required, and *)
(* the list is what remains.                                               *)
WalkOver ==
    /\ Requested \subseteq Nodes /\ computed \subseteq Nodes /\ required \subseteq Nodes
    /\ computed = UNION {Ancestors[k] : k \in Requested}
    /\ \A z \in Requested \cup computed : z = 1 \/ getSibling(z) \in required
    /\ \A s \in required : \E z \in Requested \cup computed : z # 1 /\ s = getSibling(z)
    /\ Elements(reqIndices) = (required \ computed) \ Requested
    /\ \A i, j \in DOMAIN reqIndices : i < j => reqIndices[i] > reqIndices[j]

(* It is over when getRequiredIndices has returned.                        *)
LEMMA WalkIsOver == IInv /\ WalkInv /\ CollectInv /\ Collected => WalkOver
<1> SUFFICES ASSUME IInv, WalkInv, CollectInv, Collected PROVE WalkOver
  OBVIOUS
<1>1. /\ li = Len(arg.indices) /\ cur = 1
  BY DEF IInv, WalkedInv, Walked, Folding, Collected
<1>2. /\ Requested \subseteq Nodes /\ computed \subseteq Nodes /\ required \subseteq Nodes
      /\ IsFiniteSet(required) /\ DOMAIN arg.indices = 1 .. Len(arg.indices)
  BY InputTypes DEF IInv, TypeInv, TypeOK
<1>3. Begun = Requested
  BY <1>1, <1>2 DEF Begun, Requested, Elements
<1>4. Ancestors[1] = {}
  <2>1. 1 \in Nat /\ 1 <= 1
    OBVIOUS
  <2> QED BY ONLY <2>1, AncestorsSteps
<1>5. computed = UNION {Ancestors[k] : k \in Requested}
  BY <1>1, <1>3, <1>4 DEF WalkInv
<1>6. /\ \A z \in Requested \cup computed : z = 1 \/ getSibling(z) \in required
      /\ \A s \in required : \E z \in Requested \cup computed : z # 1 /\ s = getSibling(z)
  BY <1>1, <1>3 DEF WalkInv
<1> DEFINE S == (required \ computed) \ Requested
<1>7. S \in SUBSET Nat /\ IsFiniteSet(S)
  <2>1. S \in SUBSET required /\ S \in SUBSET Nat
    BY <1>2, NodeFacts
  <2> HIDE DEF S
  <2> QED BY <1>2, <2>1, FS_Subset
<1>8. reqIndices = SetToSortedDesc(S)
  BY DEF CollectInv, Collected
<1> HIDE DEF S
<1>9. /\ Elements(reqIndices) = S
      /\ \A i, j \in DOMAIN reqIndices : i < j => reqIndices[i] > reqIndices[j]
  BY <1>7, <1>8, SetToSortedDescType
<1> QED BY <1>2, <1>5, <1>6, <1>9 DEF WalkOver, S

(* What lies above a requested or required node is computed: siblings have *)
(* the same ancestors.                                                     *)
LEMMA AboveIsComputed ==
    ASSUME WalkOver, NEW y \in Requested \cup required
    PROVE  Ancestors[y] \subseteq computed
<1>1. CASE y \in Requested
  BY <1>1 DEF WalkOver
<1>2. CASE y \in required
  <2>1. PICK z \in Requested \cup computed : z # 1 /\ y = getSibling(z)
    BY <1>2 DEF WalkOver
  <2>2. z \in Nodes /\ z \in Nat /\ z > 1 /\ y \in Nat
    BY <1>2, <2>1, NodeFacts DEF WalkOver
  <2>3. getParent(y) = getParent(z) /\ y > 1
    BY <2>1, <2>2 DEF getParent, getSibling
  <2>4. y \in Nat /\ ~ (y <= 1) /\ z \in Nat /\ ~ (z <= 1)
    BY <2>2, <2>3
  <2>5. /\ Ancestors[y] = {getParent(y)} \cup Ancestors[getParent(y)]
        /\ Ancestors[z] = {getParent(z)} \cup Ancestors[getParent(z)]
    BY ONLY <2>4, AncestorsSteps
  <2>6. Ancestors[y] = Ancestors[z]
    BY <2>3, <2>5
  <2>7. Ancestors[z] \subseteq computed
    <3>1. CASE z \in Requested
      BY <3>1 DEF WalkOver
    <3>2. CASE z \in computed
      <4>1. PICK k \in Requested : z \in Ancestors[k]
        BY <3>2 DEF WalkOver
      <4>2. IsPath(k)
        BY Paths DEF WalkOver
      <4>3. Ancestors[z] \subseteq Ancestors[k]
        BY <4>1, <4>2 DEF IsPath
      <4> QED BY <4>3 DEF WalkOver
    <3> QED BY <2>1, <3>1, <3>2
  <2> QED BY <2>6, <2>7
<1> QED BY <1>1, <1>2

(* Every path from a bottom node meets the indices or the list: at the     *)
(* child of the lowest computed node on it, or at the root.                *)
LEMMA CutExists ==
    ASSUME WalkOver, Requested # {}, NEW b \in Nodes, 2 * b \notin Nodes
    PROVE  \E x \in Path(b) : x \in Given
<1> DEFINE D == Path(b) \cap computed
<1>1. IsPath(b) /\ b \in Nat
  BY Paths, NodeFacts
<1>2. Given = Requested \cup ((required \ computed) \ Requested)
  BY DEF WalkOver, Given
<1>3. CASE D = {}
  <2>1. 1 \in Path(b) /\ 1 \notin computed
    BY <1>1, <1>3 DEF IsPath
  <2>2. PICK r \in Requested : TRUE
    OBVIOUS
  <2>3. 1 \in Path(r)
    BY <2>2, Paths DEF IsPath, WalkOver
  <2>4. r = 1
    BY <2>1, <2>2, <2>3 DEF Path, WalkOver
  <2> QED BY <2>1, <2>2, <2>4 DEF Given
<1>4. CASE D # {}
  <2> DEFINE T == {b - x : x \in D}
  <2>1. \A x \in D : x \in Nat /\ b - x \in Nat
    <3> TAKE x \in D
    <3>1. x \in Nat /\ (x = b \/ x < b)
      BY <1>1, NodeFacts DEF IsPath, Path
    <3> QED BY <1>1, <3>1
  <2>2. T \in SUBSET Nat /\ T # {}
    BY <1>4, <2>1
  <2>3. PICK t \in T : \A u \in T : t <= u
    BY <2>2, LeastNat
  <2>4. PICK m \in D : t = b - m
    BY <2>3
  <2>5. \A x \in D : ~ (x > m)
    <3> TAKE x \in D
    <3>1. b - m <= b - x
      BY <2>3, <2>4
    <3> QED BY <1>1, <2>1, <3>1
  <2>6. PICK k \in Requested : m \in Ancestors[k]
    BY <2>4 DEF WalkOver
  <2>7. IsPath(k)
    BY Paths DEF WalkOver
  <2>8. PICK d \in Path(k) : d > 1 /\ getParent(d) = m
    BY <2>6, <2>7 DEF IsPath, HasChildOn
  <2>9. /\ d \in Nodes /\ d \in Nat /\ d # 1 /\ m \in Nat
        /\ d = 2 * m \/ d = 2 * m + 1
    <3>1. d \in Nodes /\ d \in Nat /\ d > 1
      BY <2>7, <2>8, NodeFacts DEF IsPath
    <3> QED BY <2>8, <3>1 DEF getParent
  <2>10. m # b
    <3>1. getSibling(d) \in Nodes
      BY <2>9, IndexArithmetic
    <3>2. d = 2 * m + 1 => getSibling(d) = 2 * m
      BY <2>9 DEF getSibling
    <3> QED BY <2>9, <3>1, <3>2
  <2>11. PICK c \in Path(b) : c > 1 /\ getParent(c) = m
    BY <1>1, <2>4, <2>10 DEF IsPath, HasChildOn, Path
  <2>12. c \in Nodes /\ c \in Nat /\ c > m /\ (c = 2 * m \/ c = 2 * m + 1)
    <3>1. c \in Nodes /\ c \in Nat /\ c > 1
      BY <1>1, <2>11, NodeFacts DEF IsPath
    <3> QED BY <2>11, <3>1 DEF getParent
  <2>13. c \notin computed
    BY <2>5, <2>11, <2>12
  <2>14. d \in Requested \cup computed
    BY <2>6, <2>8 DEF Path, WalkOver
  <2>15. CASE c = d
    BY <2>11, <2>13, <2>14, <2>15 DEF Given
  <2>16. CASE c # d
    <3>1. c = getSibling(d)
      BY <2>9, <2>12, <2>16 DEF getSibling
    <3>2. c \in required
      BY <2>9, <2>14, <3>1 DEF WalkOver
    <3> QED BY <1>2, <2>11, <2>13, <3>2
  <2> QED BY <2>15, <2>16
<1> QED BY <1>3, <1>4

(* It meets them only once: what is above is computed, and given to no one.*)
LEMMA CutIsUnique ==
    ASSUME WalkOver, IndependentIndices, NEW b \in Nodes,
           NEW x \in Path(b), NEW y \in Path(b), x \in Given, y \in Given
    PROVE  x = y
<1>1. IsPath(b)
  BY Paths
<1>2. /\ Given \subseteq Requested \cup required
      /\ Given \cap computed = {}
  BY DEF WalkOver, Given, IndependentIndices
<1>3. Ancestors[x] \subseteq computed /\ Ancestors[y] \subseteq computed
  BY <1>2, AboveIsComputed
<1>4. x = y \/ x \in Ancestors[y] \/ y \in Ancestors[x]
  BY <1>1 DEF IsPath
<1> QED BY <1>2, <1>3, <1>4

(* The list of getRequiredIndices is the exact complement of the indices,  *)
(* in every tree and for all indices.                                      *)
LEMMA CompleteWhenOver ==
    IInv /\ WalkInv /\ CollectInv => RequiredIndicesComplete
<1> SUFFICES ASSUME IInv, WalkInv, CollectInv, Collected
             PROVE  /\ computed = UNION {Ancestors[k] : k \in Requested}
                    /\ \A i \in 1 .. Len(reqIndices) - 1 : reqIndices[i] > reqIndices[i + 1]
                    /\ IndependentIndices /\ Requested # {} =>
                         \A b \in {k \in Nodes : 2 * k \notin Nodes} :
                            Cardinality((Ancestors[b] \cup {b})
                              \cap (Requested \cup Elements(reqIndices))) = 1
  BY DEF RequiredIndicesComplete, Collected
<1>1. WalkOver
  BY WalkIsOver
<1>2. reqIndices \in Seq(Nodes)
  BY DEF IInv, TypeInv, TypeOK
<1>3. ASSUME NEW i \in 1 .. Len(reqIndices) - 1 PROVE reqIndices[i] > reqIndices[i + 1]
  <2>1. i \in DOMAIN reqIndices /\ i + 1 \in DOMAIN reqIndices /\ i < i + 1
    BY <1>2
  <2> QED BY <1>1, <2>1 DEF WalkOver
<1>4. ASSUME IndependentIndices, Requested # {}, NEW b \in Nodes, 2 * b \notin Nodes
      PROVE  Cardinality((Ancestors[b] \cup {b})
                            \cap (Requested \cup Elements(reqIndices))) = 1
  <2>1. PICK x \in Path(b) : x \in Given
    BY <1>1, <1>4, CutExists
  <2>2. Path(b) \cap Given = {x}
    BY <1>1, <1>4, <2>1, CutIsUnique
  <2>3. Cardinality({x}) = 1
    BY FS_Singleton
  <2> QED BY <2>2, <2>3 DEF Path, Given
<1>5. computed = UNION {Ancestors[k] : k \in Requested}
  BY <1>1 DEF WalkOver
<1> QED BY <1>3, <1>4, <1>5

(* getRequiredIndices asks for exactly what the proof needs, in every      *)
(* tree and for all indices.                                               *)
THEOREM RequiredIsComplement == Spec => []RequiredIndicesComplete
<1>1. IInv /\ WalkInv /\ CollectInv /\ [Next]_vars => WalkInv' /\ CollectInv'
  BY WalkStep, CollectStep DEF IInv
<1> QED BY Invariance, InitWalkInv, <1>1, CompleteWhenOver, PTL DEF Spec

---------------------------------------------------------------------------
(***************************************************************************)
(* Indices on one path.  A list of the work that is in decreasing order    *)
(* reaches a sibling of the path only after the node below it has been     *)
(* seen, whose parent, the other child, is then in db.                     *)
(***************************************************************************)

(* The work list names what is in db.  An index of a proof hash comes      *)
(* after every larger index given; what has been passed has its parent in  *)
(* db; and the list does not end before the root is there.                 *)
QueueInv ==
    /\ phase \in {"fold", "compare"} =>
         /\ Elements(keys) = DOMAIN db
         /\ \A j \in DOMAIN keys : keys[j] \in Elements(reqIndices) =>
               \A s \in Given : s > keys[j] => \E i \in 1 .. j - 1 : keys[i] = s
         /\ \A j \in 1 .. pos - 1 : keys[j] # 1 /\ getParent(keys[j]) \in DOMAIN db
    /\ phase = "compare" /\ Requested # {} => 1 \in DOMAIN db

(* What the sorted list of all indices given contains, and in what order.  *)
LEMMA SortedGiven ==
    ASSUME IInv
    PROVE  LET down == SortDesc(arg.indices \o reqIndices)
           IN  /\ down \in Seq(Given) /\ Elements(down) = Given /\ Given \subseteq Nat
               /\ \A i, j \in DOMAIN down : i < j => down[i] >= down[j]
<1> DEFINE s == arg.indices \o reqIndices
<1>1. /\ arg.indices \in Seq(Nodes) /\ reqIndices \in Seq(Nodes)
      /\ Nodes \in SUBSET Nat
  BY InputTypes, NodeFacts DEF IInv, TypeInv, TypeOK
<1>2. s \in Seq(Nodes)
  BY <1>1
<1>3. Elements(s) = Given
  <2>1. Elements(s) \subseteq Given
    BY <1>1 DEF Elements, Given, Requested
  <2>2. ASSUME NEW i \in DOMAIN arg.indices PROVE arg.indices[i] \in Elements(s)
    <3>1. i \in DOMAIN s /\ s[i] = arg.indices[i]
      BY <1>1
    <3> QED BY <3>1 DEF Elements
  <2>3. ASSUME NEW i \in DOMAIN reqIndices PROVE reqIndices[i] \in Elements(s)
    <3>1. /\ Len(arg.indices) + i \in DOMAIN s
          /\ s[Len(arg.indices) + i] = reqIndices[i]
      BY <1>1
    <3> QED BY <3>1 DEF Elements
  <2> HIDE DEF s
  <2> QED BY <2>1, <2>2, <2>3 DEF Given, Requested, Elements
<1> HIDE DEF s
<1>4. IsFiniteSet(DOMAIN s)
  <2>1. DOMAIN s = 1 .. Len(s) /\ Len(s) \in Nat
    BY <1>2
  <2>2. IsFiniteSet(1 .. Len(s))
    BY <2>1, FS_Interval
  <2> QED BY <2>1, <2>2
<1>5. Given \subseteq Nat
  <2>1. \A j \in DOMAIN s : s[j] \in Nodes
    BY <1>2
  <2>2. Elements(s) \subseteq Nat
    BY <1>1, <2>1 DEF Elements
  <2> QED BY <1>3, <2>2
<1>6. SortDesc(s) \in Seq(Given)
  BY <1>3, <1>4, <1>5, SortDescType
<1>7. /\ Elements(SortDesc(s)) = Given
      /\ \A i, j \in DOMAIN SortDesc(s) : i < j => SortDesc(s)[i] >= SortDesc(s)[j]
  BY <1>3, <1>4, <1>5, SortDescOrder
<1> QED BY <1>5, <1>6, <1>7 DEF s

(* Sorting sets the order up; a hashed pair adds a computed node at the    *)
(* end; and nothing is passed that leaves no parent in db.                 *)
LEMMA QueueStep ==
    IInv /\ CountInv' /\ QueueInv /\ [Next]_vars => QueueInv'
<1> SUFFICES ASSUME IInv, CountInv', QueueInv, [Next]_vars PROVE QueueInv'
  OBVIOUS
<1>1. CASE Load
  <2> DEFINE down == SortDesc(arg.indices \o reqIndices)
  <2>1. /\ down \in Seq(Given) /\ Elements(down) = Given /\ Given \subseteq Nat
        /\ \A i, j \in DOMAIN down : i < j => down[i] >= down[j]
    BY SortedGiven
  <2>2. /\ keys' = down /\ DOMAIN db' = Given /\ phase' = "fold" /\ pos' = 1
        /\ arg' = arg /\ reqIndices' = reqIndices
    BY <1>1 DEF Load, Given
  <2>3. Given' = Given
    BY <2>2 DEF Given, Requested
  <2> HIDE DEF down
  <2>4. ASSUME NEW j \in DOMAIN down, NEW s \in Given, s > down[j]
        PROVE  \E i \in 1 .. j - 1 : down[i] = s
    <3>1. PICK i \in DOMAIN down : down[i] = s
      BY <2>1 DEF Elements
    <3>2. /\ s \in Nat /\ down[j] \in Nat /\ DOMAIN down = 1 .. Len(down)
          /\ Len(down) \in Nat
      <4>1. /\ DOMAIN down = 1 .. Len(down) /\ Len(down) \in Nat
            /\ \A l \in DOMAIN down : down[l] \in Given
        BY <2>1
      <4> QED BY <2>1, <4>1
    <3>3. i # j /\ ~ (j < i)
      BY <2>1, <2>4, <3>1, <3>2
    <3>4. i \in 1 .. j - 1
      BY <3>2, <3>3
    <3> QED BY <3>1, <3>4
  <2> QED BY <2>1, <2>2, <2>3, <2>4 DEF QueueInv
<1>2. CASE HashPair
  <2> DEFINE k == keys[pos]
             p == getParent(k)
  <2>1. /\ keys \in Seq(Nodes) /\ pos \in 1 .. Len(keys) /\ k # 1 /\ phase = "fold"
    BY <1>2 DEF HashPair, IInv, TypeInv, TypeOK
  <2>2. /\ p \notin DOMAIN db /\ DOMAIN db' = DOMAIN db \cup {p}
        /\ keys' = Append(keys, p) /\ phase' = "fold" /\ pos' = pos + 1
        /\ arg' = arg /\ reqIndices' = reqIndices /\ computed' = computed
    BY <1>2 DEF HashPair, walkVars
  <2>3. Given' = Given /\ Given \subseteq DOMAIN db
    BY <2>1, <2>2 DEF Given, Requested, IInv, DbInv, Folding
  <2>4. p \notin Elements(reqIndices)
    BY <2>2, <2>3 DEF Given
  <2>5. /\ DOMAIN keys = 1 .. Len(keys) /\ Len(keys) \in Nat
        /\ DOMAIN keys' = 1 .. Len(keys) + 1
        /\ keys'[Len(keys) + 1] = p
        /\ \A j \in 1 .. Len(keys) : keys'[j] = keys[j]
    <3> HIDE DEF p, k
    <3>1. k \in Nodes
      BY <2>1 DEF k
    <3>2. p \in Nodes
      BY <2>1, <3>1, IndexArithmetic DEF p
    <3> QED BY <2>1, <2>2, <3>2
  <2>6. Elements(keys') = DOMAIN db'
    <3>1. Elements(keys) = DOMAIN db
      BY <2>1 DEF QueueInv
    <3> HIDE DEF p, k
    <3>2. Elements(keys') \subseteq Elements(keys) \cup {p}
      <4>1. ASSUME NEW j \in DOMAIN keys' PROVE keys'[j] \in Elements(keys) \cup {p}
        <5>1. j = Len(keys) + 1 \/ j \in 1 .. Len(keys)
          BY <2>5
        <5> QED BY <2>5, <5>1 DEF Elements
      <4> QED BY <4>1 DEF Elements
    <3>3. ASSUME NEW j \in DOMAIN keys PROVE keys[j] \in Elements(keys')
      <4>1. j \in DOMAIN keys' /\ keys'[j] = keys[j]
        BY <2>5
      <4> QED BY <4>1 DEF Elements
    <3>4. p \in Elements(keys')
      <4>1. Len(keys) + 1 \in DOMAIN keys'
        BY <2>5
      <4> QED BY <2>5, <4>1 DEF Elements
    <3>5. Elements(keys) \subseteq Elements(keys')
      BY <3>3 DEF Elements
    <3> QED BY <2>2, <3>1, <3>2, <3>4, <3>5
  <2> HIDE DEF p
  <2>7. ASSUME NEW j \in DOMAIN keys', keys'[j] \in Elements(reqIndices),
               NEW s \in Given, s > keys'[j]
        PROVE  \E i \in 1 .. j - 1 : keys'[i] = s
    <3>1. j \in 1 .. Len(keys) /\ keys'[j] = keys[j]
      BY <2>4, <2>5, <2>7
    <3>2. PICK i \in 1 .. j - 1 : keys[i] = s
      BY <2>1, <2>5, <2>7, <3>1 DEF QueueInv
    <3>3. i \in 1 .. Len(keys)
      BY <2>5, <3>1
    <3> QED BY <2>5, <3>2, <3>3
  <2>8. ASSUME NEW j \in 1 .. pos' - 1
        PROVE  keys'[j] # 1 /\ getParent(keys'[j]) \in DOMAIN db'
    <3>1. j = pos \/ j \in 1 .. pos - 1
      BY <2>1, <2>2
    <3>2. j \in 1 .. Len(keys)
      BY <2>1, <2>2, <2>5
    <3>3. keys'[j] = keys[j]
      BY <2>5, <3>2
    <3>4. CASE j = pos
      BY <2>1, <2>2, <3>3, <3>4 DEF p
    <3>5. CASE j \in 1 .. pos - 1
      BY <2>1, <2>2, <3>3, <3>5 DEF QueueInv
    <3> QED BY <3>1, <3>4, <3>5
  <2> QED BY <2>2, <2>3, <2>6, <2>7, <2>8 DEF QueueInv
<1>3. CASE SkipKnownParent
  <2>1. /\ phase = "fold" /\ phase' = phase /\ pos' = pos + 1 /\ pos \in 1 .. Len(keys)
        /\ keys[pos] # 1 /\ getParent(keys[pos]) \in DOMAIN db
        /\ keys \in Seq(Nodes)
        /\ UNCHANGED <<arg, reqIndices, db, keys>>
    BY <1>3 DEF SkipKnownParent, IInv, TypeInv, TypeOK
  <2>2. Given' = Given /\ Elements(keys') = Elements(keys)
    BY <2>1 DEF Given, Requested, Elements
  <2>3. ASSUME NEW j \in 1 .. pos' - 1
        PROVE  keys[j] # 1 /\ getParent(keys[j]) \in DOMAIN db
    <3>1. j = pos \/ j \in 1 .. pos - 1
      BY <2>1
    <3> QED BY <2>1, <3>1 DEF QueueInv
  <2> QED BY <2>1, <2>2, <2>3 DEF QueueInv
<1>4. CASE ReachRoot \/ KeysExhausted
  <2>1. /\ phase = "fold" /\ phase' = "compare"
        /\ UNCHANGED <<arg, reqIndices, db, keys, pos>>
        /\ keys \in Seq(Nodes) /\ pos \in 1 .. Len(keys) + 1
    BY <1>4 DEF ReachRoot, KeysExhausted, foldVars, IInv, TypeInv, TypeOK
  <2>2. /\ Given' = Given /\ Requested' = Requested /\ Elements(keys') = Elements(keys)
        /\ Given \subseteq DOMAIN db
    BY <2>1 DEF Given, Requested, Elements, IInv, DbInv, Folding
  <2>3. Elements(keys) = DOMAIN db
    BY <2>1 DEF QueueInv
  <2>4. ASSUME Requested # {} PROVE 1 \in DOMAIN db
    <3>1. CASE ReachRoot
      BY <2>1, <2>3, <3>1 DEF ReachRoot, Elements
    <3>2. CASE KeysExhausted
      <4>1. DOMAIN db \in SUBSET Nat /\ DOMAIN db # {} /\ DOMAIN db \subseteq Nodes
        BY <2>2, <2>4, NodeFacts DEF Given, IInv, TypeInv, TypeOK
      <4>2. PICK m \in DOMAIN db : \A n \in DOMAIN db : m <= n
        BY <4>1, LeastNat
      <4>3. PICK j \in DOMAIN keys : keys[j] = m
        BY <2>3 DEF Elements
      <4>4. j \in 1 .. pos - 1
        BY <2>1, <3>2 DEF KeysExhausted
      <4>5. m # 1 /\ getParent(m) \in DOMAIN db
        BY <2>1, <4>3, <4>4 DEF QueueInv
      <4>6. getParent(m) < m /\ getParent(m) \in Nat /\ m \in Nat
        BY <4>1, <4>5, IndexArithmetic
      <4> QED BY <4>2, <4>5, <4>6
    <3> QED BY <1>4, <3>1, <3>2
  <2> QED BY <2>1, <2>2, <2>4 DEF QueueInv
<1>5. CASE CheckLeafCount \/ NextLeaf \/ Climb
  BY <1>5 DEF CheckLeafCount, NextLeaf, Climb, Return, QueueInv
<1>6. CASE CollectRequired \/ MissingNode \/ CompareRoot
  BY <1>6 DEF CollectRequired, MissingNode, CompareRoot, Return, QueueInv
<1>7. CASE UNCHANGED vars
  <2>1. UNCHANGED <<arg, phase, reqIndices, db, keys, pos, result>>
    BY <1>7 DEF vars, foldVars
  <2>2. Given' = Given /\ Requested' = Requested /\ Elements(keys)' = Elements(keys)
    BY <2>1 DEF Given, Requested, Elements
  <2> QED BY <2>1, <2>2 DEF QueueInv
<1> QED BY <1>1, <1>2, <1>3, <1>4, <1>5, <1>6, <1>7 DEF Next, Returned

(* With all indices on the path of one of them, the path is what is given  *)
(* and computed, and its siblings are the required indices.                *)
LEMMA PathAndSides ==
    ASSUME WalkOver, NEW K \in Requested, Requested \subseteq Path(K)
    PROVE  /\ IsPath(K)
           /\ Path(K) = {K} \cup computed
           /\ Requested \cup computed \subseteq Path(K)
           /\ \A z \in Path(K) : z = 1 \/ getSibling(z) \in Elements(reqIndices)
           /\ \A s \in Elements(reqIndices) :
                \E z \in Path(K) : z # 1 /\ s = getSibling(z)
<1>1. K \in Nodes /\ IsPath(K)
  BY Paths DEF WalkOver
<1>2. ASSUME NEW x \in Path(K) PROVE Ancestors[x] \subseteq Ancestors[K]
  <2>1. x = K \/ x \in Ancestors[K]
    BY DEF Path
  <2> QED BY <1>1, <2>1 DEF IsPath
<1>3. computed = Ancestors[K]
  BY <1>2 DEF WalkOver
<1>4. /\ Path(K) = {K} \cup computed
      /\ Requested \cup computed \subseteq Path(K)
  BY <1>3 DEF Path
<1>5. ASSUME NEW z \in Path(K), z # 1 PROVE getSibling(z) \notin Path(K)
  <2> DEFINE s == getSibling(z)
  <2>0. SUFFICES ASSUME s \in Path(K) PROVE FALSE
    OBVIOUS
  <2>1. z \in Nodes /\ s \in Nodes
    BY <1>1, <2>0 DEF IsPath
  <2>2. z \in Nat /\ z > 1 /\ s \in Nat /\ s > 1 /\ s # z /\ getParent(s) = getParent(z)
    BY <1>5, <2>1, NodeFacts DEF getSibling, getParent
  <2>3. /\ z \in Nat /\ ~ (z <= 1) /\ s \in Nat /\ ~ (s <= 1)
    BY <2>2
  <2> HIDE DEF s
  <2>4. /\ Ancestors[z] = {getParent(z)} \cup Ancestors[getParent(z)]
        /\ Ancestors[s] = {getParent(s)} \cup Ancestors[getParent(s)]
    BY ONLY <2>3, AncestorsSteps
  <2>5. z = s \/ z \in Ancestors[s] \/ s \in Ancestors[z]
    BY <1>1, <2>0 DEF IsPath
  <2>6. (\A a \in Ancestors[s] : a < s) /\ (\A a \in Ancestors[z] : a < z)
    BY <2>1, Paths DEF IsPath
  <2>7. Ancestors[s] = Ancestors[z]
    BY <2>2, <2>4
  <2>8. ~ (s < s) /\ ~ (z < z)
    BY <2>2
  <2> QED BY <2>2, <2>5, <2>6, <2>7, <2>8
<1>6. ASSUME NEW z \in Path(K), z # 1 PROVE getSibling(z) \in Elements(reqIndices)
  <2>1. getSibling(z) \in required
    BY <1>4, <1>6 DEF WalkOver
  <2>2. getSibling(z) \notin computed \cup Requested
    BY <1>4, <1>5, <1>6
  <2> QED BY <2>1, <2>2 DEF WalkOver
<1>7. \A s \in Elements(reqIndices) : \E z \in Path(K) : z # 1 /\ s = getSibling(z)
  BY <1>4 DEF WalkOver
<1> QED BY <1>1, <1>4, <1>6, <1>7

(* A node is the sibling of its sibling, and the two are the children of   *)
(* their parent.                                                           *)
LEMMA Pairs ==
    ASSUME NEW z \in Nodes, z # 1
    PROVE  LET s == getSibling(z)
           IN  /\ s \in Nodes /\ s # 1 /\ getParent(s) = getParent(z)
               /\ {leftOf(z), rightOf(z)} = {z, s}
               /\ {leftOf(s), rightOf(s)} = {z, s}
<1>1. z \in Nat /\ z > 1 /\ getSibling(z) \in Nodes
  BY NodesAssumption
<1> QED BY <1>1 DEF getSibling, getParent, leftOf, rightOf

(* Both children of a parent that is taken up are there.                   *)
LEMMA NothingMissing ==
    IInv /\ WalkInv /\ CollectInv /\ CountInv /\ QueueInv /\ OnOnePath => ~ MissingNode
<1> SUFFICES ASSUME IInv, WalkInv, CollectInv, CountInv, QueueInv, OnOnePath, MissingNode
             PROVE  FALSE
  OBVIOUS
<1> DEFINE k == keys[pos]
<1>1. /\ phase = "fold" /\ pos \in 1 .. Len(keys) /\ keys \in Seq(Nodes)
      /\ k # 1 /\ getParent(k) \notin DOMAIN db
      /\ ~ ({leftOf(k), rightOf(k)} \subseteq DOMAIN db)
  BY DEF MissingNode, IInv, TypeInv, TypeOK
<1>2. WalkOver
  BY <1>1, WalkIsOver DEF Collected
<1>3. PICK K \in Requested : Requested \subseteq Path(K)
  BY DEF OnOnePath, Path
<1>4. /\ IsPath(K)
      /\ Path(K) = {K} \cup computed
      /\ Requested \cup computed \subseteq Path(K)
      /\ \A z \in Path(K) : z = 1 \/ getSibling(z) \in Elements(reqIndices)
      /\ \A s \in Elements(reqIndices) : \E z \in Path(K) : z # 1 /\ s = getSibling(z)
  BY <1>2, <1>3, PathAndSides
<1>5. /\ Given \subseteq DOMAIN db /\ DOMAIN db \subseteq Given \cup computed
      /\ k \in DOMAIN db /\ k \in Nodes
  <2>1. keys # << >>
    BY <1>1
  <2>2. DOMAIN keys = 1 .. Len(keys)
    BY <1>1
  <2>3. k \in Elements(keys) /\ k \in Nodes
    BY <1>1, <2>2 DEF Elements
  <2> HIDE DEF k
  <2> QED BY <1>1, <2>1, <2>3 DEF CountInv, Hashed, IInv, DbInv, Folding
<1>6. CASE k \in Path(K)
  <2>1. getSibling(k) \in DOMAIN db
    BY <1>1, <1>4, <1>5, <1>6 DEF Given
  <2> HIDE DEF k
  <2>2. {leftOf(k), rightOf(k)} = {k, getSibling(k)}
    BY <1>1, <1>5, Pairs
  <2> QED BY <1>1, <1>5, <2>1, <2>2
<1>7. CASE k \notin Path(K)
  <2>1. k \in Elements(reqIndices)
    BY <1>4, <1>5, <1>7 DEF Given
  <2>2. PICK z \in Path(K) : z # 1 /\ k = getSibling(z)
    BY <1>4, <2>1
  <2>3. /\ z \in Nodes /\ {leftOf(k), rightOf(k)} = {z, k} /\ getParent(k) = getParent(z)
    BY <1>4, <2>2, Pairs DEF IsPath
  <2>4. CASE z = K
    BY <1>1, <1>3, <1>5, <2>3, <2>4 DEF Given
  <2>5. CASE z # K
    <3>1. z \in Ancestors[K]
      BY <2>5 DEF Path
    <3>2. PICK c \in Path(K) : c > 1 /\ getParent(c) = z
      BY <1>4, <3>1 DEF IsPath, HasChildOn
    <3> DEFINE s == getSibling(c)
    <3>3. c \in Nodes /\ c \in Nat /\ c # 1 /\ z \in Nat /\ z > 1 /\ k \in Nat
      <4>1. c \in Nodes /\ z \in Nodes /\ k \in Nodes
        BY <1>4, <1>5, <2>3, <3>2 DEF IsPath
      <4> HIDE DEF k
      <4> QED BY <2>2, <3>2, <4>1, NodeFacts
    <3>4. s \in Elements(reqIndices) /\ getParent(s) = z /\ s \in Nodes /\ s \in Nat
      BY <1>4, <3>2, <3>3, Pairs, NodeFacts
    <3>5. s > k
      <4>1. k <= z + 1
        BY <2>2, <3>3 DEF getSibling
      <4>2. s >= 2 * z
        BY <3>4 DEF getParent
      <4> HIDE DEF k, s
      <4> QED BY <3>3, <3>4, <4>1, <4>2
    <3> HIDE DEF s
    <3>6. PICK i \in 1 .. pos - 1 : keys[i] = s
      BY <1>1, <2>1, <3>4, <3>5 DEF QueueInv, Given
    <3>7. getParent(s) \in DOMAIN db
      BY <1>1, <3>6 DEF QueueInv
    <3> QED BY <1>1, <1>5, <2>3, <3>4, <3>7
  <2> QED BY <2>4, <2>5
<1> QED BY <1>6, <1>7

(* No error is reported of an honest proof of indices on one path.         *)
AcceptInv == HonestLeaves /\ HonestProof /\ OnOnePath => result # "error"

(* The two checks of lengths, the search for children and the comparison   *)
(* with the root each pass.                                                *)
LEMMA AcceptStep ==
    /\ IInv /\ WalkInv /\ CollectInv /\ CountInv /\ QueueInv /\ AcceptInv
    /\ [Next]_vars
    => AcceptInv'
<1> SUFFICES ASSUME IInv, WalkInv, CollectInv, CountInv, QueueInv, AcceptInv, [Next]_vars,
                    HonestLeaves', HonestProof', OnOnePath'
             PROVE  result' # "error"
  BY DEF AcceptInv
<1>1. CASE CheckLeafCount
  BY <1>1 DEF CheckLeafCount, Return, HonestLeaves, IInv, ResultInv
<1>2. CASE CollectRequired
  BY <1>2 DEF CollectRequired, Return, HonestProof, IInv, ResultInv
<1>3. CASE MissingNode
  <2>1. OnOnePath
    BY <1>3 DEF MissingNode, OnOnePath, Requested
  <2> QED BY <1>3, <2>1, NothingMissing
<1>4. CASE CompareRoot
  <2>1. Requested # {}
    BY <1>4 DEF CompareRoot, OnOnePath, Requested
  <2> QED BY <1>4, <2>1 DEF CompareRoot, Return, QueueInv
<1>5. CASE NextLeaf \/ Climb \/ Load
  BY <1>5 DEF NextLeaf, Climb, Load, IInv, ResultInv
<1>6. CASE ReachRoot \/ SkipKnownParent \/ HashPair \/ KeysExhausted
  BY <1>6 DEF ReachRoot, SkipKnownParent, HashPair, KeysExhausted, IInv, ResultInv
<1>7. CASE UNCHANGED vars
  BY <1>7 DEF vars, AcceptInv, HonestLeaves, HonestProof, OnOnePath, Requested
<1> QED BY <1>1, <1>2, <1>3, <1>4, <1>5, <1>6, <1>7 DEF Next, Returned

(* An honest proof of indices on one path is accepted, in every tree.      *)
THEOREM HonestPathIsAccepted == Spec => []HonestPathAccepted
<1> DEFINE Inv == /\ IInv /\ SiblingInv /\ CountInv
                  /\ WalkInv /\ CollectInv /\ QueueInv /\ AcceptInv
<1>1. Init => Inv
  <2> SUFFICES ASSUME Init PROVE Inv
    OBVIOUS
  <2>1. IInv /\ WalkInv /\ CollectInv
    BY InitIInv, InitWalkInv
  <2>2. SiblingInv
    BY FS_EmptySet DEF Init, SiblingInv, Elements
  <2>3. CountInv /\ QueueInv /\ AcceptInv
    BY DEF Init, CountInv, QueueInv, AcceptInv
  <2> QED BY <2>1, <2>2, <2>3
<1>2. Inv /\ [Next]_vars => Inv'
  <2> SUFFICES ASSUME Inv, [Next]_vars PROVE Inv'
    OBVIOUS
  <2>1. IInv'
    BY TypeStep, ClimbStep, WalkedStep, DbStep, HonestStep, ResultStep DEF IInv
  <2>2. SiblingInv' /\ CountInv'
    BY SiblingStep, CountStep DEF IInv
  <2>3. WalkInv' /\ CollectInv'
    BY WalkStep, CollectStep DEF IInv
  <2>4. QueueInv'
    BY <2>2, QueueStep
  <2>5. AcceptInv'
    BY AcceptStep
  <2> QED BY <2>1, <2>2, <2>3, <2>4, <2>5
<1>3. Inv => HonestPathAccepted
  BY DEF IInv, HonestInv, ResultInv, AcceptInv, HonestPathAccepted, Folding, TypeInv, TypeOK
<1> QED BY <1>1, <1>2, <1>3, PTL DEF Spec
===========================================================================
