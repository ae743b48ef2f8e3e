------------------------- MODULE SharedTree_proofs ------------------------
(***************************************************************************)
(* Goroutines that hash trees over one memory find the hashes of the       *)
(* leaves, for any number of goroutines, any trees and any memory in       *)
(* which the leaves lie Safe.                                              *)
(***************************************************************************)
EXTENDS SharedTree, SequenceTheorems, TLAPS

Table(f, S) == f = [x \in S |-> f[x]]

Calls == [tree : 1 .. 2, node : Branches]

(* The calls return bottom up: 2, 3, 1, and then perhaps another tree.     *)
Chain(w) ==
    /\ w \in Seq(Calls)
    /\ \A k \in 1 .. Len(w) - 1 :
          /\ w[k].node = 2 => w[k + 1] = Call(w[k].tree, 3)
          /\ w[k].node = 3 => w[k + 1] = Call(w[k].tree, 1)
          /\ w[k].node = 1 => w[k + 1].node = 2

TypeInv ==
    /\ tree \in [1 .. 2 -> Trees]
    /\ Table(memory, 1 .. Cells)
    /\ Table(work, Goroutines) /\ \A g \in Goroutines : Chain(work[g])
    /\ Table(joined, Goroutines)
    /\ Table(hash, Goroutines) /\ \A g \in Goroutines : Table(hash[g], Branches)
    /\ Table(value, 1 .. 2) /\ \A i \in 1 .. 2 : Table(value[i], Branches)
    /\ \A g \in Goroutines : joined[g] # << >> => work[g] # << >>

(* The leaves are as they were made.                                       *)
LeafInv == \A c \in LeafCells : memory[c] = Cell(c)

ValueInv == \A i \in 1 .. 2, n \in Branches : value[i][n] \in {Nil, TrueValue(i, n)}

(* What the next call needs of the calls before it has been returned.      *)
HashInv ==
    \A g \in Goroutines : work[g] # << >> =>
        /\ work[g][1].node \in {3, 1} => hash[g][2] = TrueValue(work[g][1].tree, 2)
        /\ work[g][1].node = 1 => hash[g][3] = TrueValue(work[g][1].tree, 3)

(* What has been concatenated for the node n of tree i.                    *)
JoinedFor(j, i, n) ==
    \/ j = <<"new", TrueValue(i, 2 * n), TrueValue(i, 2 * n + 1)>>
    \/ /\ n \in {2, 3} /\ tree[i][2 * n].room
       /\ j = <<"at", tree[i][2 * n].at>>
       /\ memory[tree[i][2 * n].at + 1] = TrueValue(i, 2 * n + 1)

JoinedInv ==
    \A g \in Goroutines :
        joined[g] # << >> => JoinedFor(joined[g], work[g][1].tree, work[g][1].node)

IInv == TypeInv /\ (Safe => LeafInv /\ ValueInv /\ HashInv /\ JoinedInv)

---------------------------------------------------------------------------
(* A goroutine with work has a branch of a tree at the head of it.         *)
LEMMA HeadOfWork ==
    ASSUME TypeInv, NEW g \in Goroutines, work[g] # << >>
    PROVE  /\ Head(work[g]) = work[g][1]
           /\ work[g][1].tree \in 1 .. 2
           /\ work[g][1].node \in Branches
           /\ Chain(Tail(work[g]))
           /\ Tail(work[g]) # << >> =>
                 /\ work[g][1].node = 2 => Tail(work[g])[1] = Call(work[g][1].tree, 3)
                 /\ work[g][1].node = 3 => Tail(work[g])[1] = Call(work[g][1].tree, 1)
                 /\ work[g][1].node = 1 => Tail(work[g])[1].node = 2
<1> DEFINE w == work[g]
<1>1. w \in Seq(Calls) /\ w # << >>
  BY DEF TypeInv, Chain
<1>2. Len(w) \in Nat /\ Len(w) >= 1 /\ w[1] \in Calls
  <2> HIDE DEF w
  <2>1. Len(w) \in Nat /\ Len(w) # 0
    BY <1>1, EmptySeq
  <2>2. Len(w) >= 1
    BY <2>1
  <2>3. w[1] \in Calls
    BY <1>1, <2>1, <2>2
  <2> QED
    BY <2>1, <2>2, <2>3
<1>3. /\ Head(w) = w[1]
      /\ Tail(w) \in Seq(Calls)
      /\ Len(Tail(w)) = Len(w) - 1
      /\ \A k \in 1 .. Len(Tail(w)) : Tail(w)[k] = w[k + 1]
  BY <1>1
<1>4. Chain(Tail(w))
  <2>1. ASSUME NEW k \in 1 .. Len(Tail(w)) - 1
        PROVE  /\ Tail(w)[k].node = 2 => Tail(w)[k + 1] = Call(Tail(w)[k].tree, 3)
               /\ Tail(w)[k].node = 3 => Tail(w)[k + 1] = Call(Tail(w)[k].tree, 1)
               /\ Tail(w)[k].node = 1 => Tail(w)[k + 1].node = 2
    <3>1. k + 1 \in 1 .. Len(w) - 1 /\ k \in 1 .. Len(Tail(w)) /\ k + 1 \in 1 .. Len(Tail(w))
      BY <1>2, <1>3
    <3>2. Tail(w)[k] = w[k + 1] /\ Tail(w)[k + 1] = w[(k + 1) + 1]
      BY <1>3, <3>1
    <3> QED
      BY <3>1, <3>2 DEF TypeInv, Chain
  <2> QED
    BY <1>3, <2>1 DEF Chain
<1>5. ASSUME Tail(w) # << >>
      PROVE  /\ w[1].node = 2 => Tail(w)[1] = Call(w[1].tree, 3)
             /\ w[1].node = 3 => Tail(w)[1] = Call(w[1].tree, 1)
             /\ w[1].node = 1 => Tail(w)[1].node = 2
  <2>1. Len(Tail(w)) >= 1
    BY <1>3, <1>5
  <2>2. 1 \in 1 .. Len(w) - 1 /\ Tail(w)[1] = w[1 + 1]
    BY <1>2, <1>3, <2>1
  <2> QED
    BY <2>2 DEF TypeInv, Chain
<1>6. w[1].tree \in 1 .. 2 /\ w[1].node \in Branches
  BY <1>2 DEF Calls
<1> QED
  BY <1>3, <1>4, <1>5, <1>6

(* Where the leaves of a tree lie.                                         *)
LEMMA LeafPlaces ==
    ASSUME TypeInv, NEW i \in 1 .. 2, NEW n \in Leaves
    PROVE  /\ tree[i][n].at \in 1 .. Cells - 1
           /\ tree[i][n].at + 1 \in 1 .. Cells
           /\ tree[i][n].at \in LeafCells
           /\ tree[i][n].room \in BOOLEAN
<1>1. tree[i] \in Trees
  BY DEF TypeInv
<1>2. tree[i][n].at \in 1 .. Cells - 1 /\ tree[i][n].room \in BOOLEAN
  BY <1>1, CellsAssumption DEF Leaves
<1> QED
  BY <1>2, CellsAssumption DEF LeafCells

(* An append in place is one of the writes that Safe looks at.             *)
LEMMA AppendIsWrite ==
    ASSUME NEW i \in 1 .. 2, NEW n \in {2, 3}, tree[i][2 * n].room
    PROVE  TrueValue(i, 2 * n + 1) \in WritesTo(tree[i][2 * n].at + 1)
<1>1. CASE n = 2
  <2>1. 2 * n = 4 /\ 2 * n + 1 = 5
    BY <1>1
  <2>2. TrueValue(i, 5) = Cell(tree[i][5].at)
    BY DEF TrueValue, Leaves
  <2>3. Cell(tree[i][5].at) \in WritesTo(tree[i][4].at + 1)
    BY <2>1 DEF WritesTo
  <2> QED
    BY <2>1, <2>2, <2>3
<1>2. CASE n = 3
  <2>1. 2 * n = 6 /\ 2 * n + 1 = 7
    BY <1>2
  <2>2. TrueValue(i, 7) = Zero
    BY DEF TrueValue, Leaves
  <2>3. Zero \in WritesTo(tree[i][6].at + 1)
    BY <2>1 DEF WritesTo
  <2> QED
    BY <2>1, <2>2, <2>3
<1> QED
  BY <1>1, <1>2

(* The hash of a branch is made of the values of its children.             *)
LEMMA HashOfChildren ==
    ASSUME NEW i \in 1 .. 2, NEW n \in Branches
    PROVE  TrueValue(i, n) = hashFn(TrueValue(i, 2 * n), TrueValue(i, 2 * n + 1))
<1>1. /\ TrueValue(i, 4) = Cell(tree[i][4].at)
      /\ TrueValue(i, 5) = Cell(tree[i][5].at)
      /\ TrueValue(i, 6) = Cell(tree[i][6].at)
      /\ TrueValue(i, 7) = Zero
  BY DEF TrueValue, Leaves
<1>2. /\ TrueValue(i, 3) = hashFn(TrueValue(i, 6), TrueValue(i, 7))
      /\ TrueValue(i, 2) = hashFn(TrueValue(i, 4), TrueValue(i, 5))
  BY <1>1 DEF TrueValue, Leaves
<1>3. TrueValue(i, 1) = hashFn(TrueValue(i, 2), TrueValue(i, 3))
  BY <1>1, <1>2 DEF TrueValue, Leaves
<1>4. n = 1 \/ n = 2 \/ n = 3
  BY DEF Branches
<1> QED
  BY <1>2, <1>3, <1>4

(* What hashNode returned to g for the children of the node at the head.   *)
LEMMA ReturnedIsTrue ==
    ASSUME TypeInv, LeafInv, HashInv, NEW g \in Goroutines, work[g] # << >>
    PROVE  LET i == work[g][1].tree
               n == work[g][1].node
           IN  /\ Returned(g, i, 2 * n) = TrueValue(i, 2 * n)
               /\ Returned(g, i, 2 * n + 1) = TrueValue(i, 2 * n + 1)
<1> DEFINE i == work[g][1].tree
           n == work[g][1].node
<1>1. i \in 1 .. 2 /\ (n = 1 \/ n = 2 \/ n = 3)
  BY HeadOfWork DEF Branches
<1>2. /\ n \in {3, 1} => hash[g][2] = TrueValue(i, 2)
      /\ n = 1 => hash[g][3] = TrueValue(i, 3)
  BY DEF HashInv
<1> HIDE DEF i, n
<1>3. ASSUME NEW m \in Leaves
      PROVE  Returned(g, i, m) = TrueValue(i, m)
  <2>1. memory[tree[i][m].at] = Cell(tree[i][m].at)
    BY <1>1, <1>3, LeafPlaces DEF LeafInv
  <2>2. m \notin Branches /\ TrueValue(i, m) = Cell(tree[i][m].at)
    BY <1>3 DEF Branches, Leaves, TrueValue
  <2>3. Returned(g, i, m) = memory[tree[i][m].at]
    BY <1>3, <2>2 DEF Returned, Branches, Leaves
  <2> QED
    BY <2>1, <2>2, <2>3
<1>4. Returned(g, i, 7) = Zero /\ TrueValue(i, 7) = Zero
  BY DEF Returned, TrueValue, Leaves, Branches
<1>5. Returned(g, i, 2) = hash[g][2] /\ Returned(g, i, 3) = hash[g][3]
  BY DEF Returned, Leaves, Branches
<1>6. 4 \in Leaves /\ 5 \in Leaves /\ 6 \in Leaves
  BY DEF Leaves
<1>7. /\ Returned(g, i, 2 * n) = TrueValue(i, 2 * n)
      /\ Returned(g, i, 2 * n + 1) = TrueValue(i, 2 * n + 1)
  <2>1. CASE n = 1
    <3>1. 2 * n = 2 /\ 2 * n + 1 = 3
      BY <2>1
    <3> QED
      BY <1>2, <1>5, <2>1, <3>1
  <2>2. CASE n = 2
    <3>1. 2 * n = 4 /\ 2 * n + 1 = 5
      BY <2>2
    <3> QED
      BY <1>3, <1>6, <3>1
  <2>3. CASE n = 3
    <3>1. 2 * n = 6 /\ 2 * n + 1 = 7
      BY <2>3
    <3> QED
      BY <1>3, <1>4, <1>6, <3>1
  <2> QED
    BY <1>1, <2>1, <2>2, <2>3
<1> QED
  BY <1>7 DEF i, n

(* The shape of the calls at the start.                                    *)
LEMMA StartingChains ==
    /\ Chain(<< >>)
    /\ \A i \in 1 .. 2 : Chain(Returns(i)) /\ Returns(i)[1].node = 2
    /\ Chain(ReturnsBoth) /\ ReturnsBoth[1].node = 2
<1>1. Chain(<< >>)
  BY DEF Chain
<1>2. \A i \in 1 .. 2, n \in Branches :
        Call(i, n) \in Calls /\ Call(i, n).tree = i /\ Call(i, n).node = n
  BY DEF Call, Calls
<1>3. 1 \in Branches /\ 2 \in Branches /\ 3 \in Branches
  BY DEF Branches
<1>4. ASSUME NEW i \in 1 .. 2
      PROVE  Chain(Returns(i)) /\ Returns(i)[1].node = 2
  <2>1. Returns(i) \in Seq(Calls) /\ Len(Returns(i)) = 3
    BY <1>2, <1>3 DEF Returns
  <2>2. /\ Returns(i)[1] = Call(i, 2)
        /\ Returns(i)[2] = Call(i, 3)
        /\ Returns(i)[3] = Call(i, 1)
    BY DEF Returns
  <2>3. \A k \in 1 .. Len(Returns(i)) - 1 : k = 1 \/ k = 2
    BY <2>1
  <2> QED
    BY <1>2, <1>3, <2>1, <2>2, <2>3 DEF Chain
<1>5. Chain(ReturnsBoth) /\ ReturnsBoth[1].node = 2
  <2>1. ReturnsBoth \in Seq(Calls) /\ Len(ReturnsBoth) = 6
    BY <1>2, <1>3 DEF ReturnsBoth
  <2>2. /\ ReturnsBoth[1] = Call(1, 2) /\ ReturnsBoth[2] = Call(1, 3)
        /\ ReturnsBoth[3] = Call(1, 1) /\ ReturnsBoth[4] = Call(2, 2)
        /\ ReturnsBoth[5] = Call(2, 3) /\ ReturnsBoth[6] = Call(2, 1)
    BY DEF ReturnsBoth
  <2>3. \A k \in 1 .. Len(ReturnsBoth) - 1 : k = 1 \/ k = 2 \/ k = 3 \/ k = 4 \/ k = 5
    BY <2>1
  <2> QED
    BY <1>2, <1>3, <2>1, <2>2, <2>3 DEF Chain
<1> QED
  BY <1>1, <1>4, <1>5

---------------------------------------------------------------------------
(* The first state.                                                        *)
LEMMA InitIInv == Init => IInv
<1> SUFFICES ASSUME Init PROVE IInv
  OBVIOUS
<1>1. TypeInv /\ HashInv
  <2>1. /\ Table(work, Goroutines)
        /\ \A g \in Goroutines : Chain(work[g])
        /\ \A g \in Goroutines : work[g] # << >> => work[g][1].node = 2
    <3>1. CASE \E of \in [Goroutines -> 1 .. 2] : work = [g \in Goroutines |-> Returns(of[g])]
      BY <3>1, StartingChains DEF Table
    <3>2. CASE \E h \in Goroutines :
                 work = [g \in Goroutines |-> IF g = h THEN ReturnsBoth ELSE << >>]
      BY <3>2, StartingChains DEF Table
    <3> QED
      BY <3>1, <3>2 DEF Init
  <2>2. HashInv
    BY <2>1 DEF HashInv
  <2> QED
    BY <2>1, <2>2 DEF Init, TypeInv, Table
<1>2. LeafInv
  <2>1. LeafCells \subseteq 1 .. Cells
    BY <1>1, LeafPlaces, CellsAssumption DEF LeafCells
  <2> QED
    BY <2>1 DEF Init, LeafInv
<1>3. ValueInv
  BY DEF Init, ValueInv
<1>4. JoinedInv
  BY DEF Init, JoinedInv
<1> QED
  BY <1>1, <1>2, <1>3, <1>4 DEF IInv

---------------------------------------------------------------------------
(* What is said of the trees does not change with them.                    *)
LEMMA SameTrees ==
    ASSUME tree' = tree
    PROVE  /\ \A i, n : TrueValue(i, n)' = TrueValue(i, n)
           /\ \A c : WritesTo(c)' = WritesTo(c)
           /\ LeafCells' = LeafCells
           /\ Disjoint' = Disjoint
           /\ OneWrite' = OneWrite
<1>1. \A i, n : TrueValue(i, n)' = TrueValue(i, n)
  BY DEF TrueValue
<1>2. \A c : WritesTo(c)' = WritesTo(c)
  BY DEF WritesTo
<1>3. LeafCells' = LeafCells
  BY DEF LeafCells
<1>4. Disjoint' = Disjoint
  BY <1>2, <1>3 DEF Disjoint
<1>5. OneWrite' = OneWrite
  BY <1>2 DEF OneWrite
<1> QED
  BY <1>1, <1>2, <1>3, <1>4, <1>5

(* A goroutine that is alone after a step was alone before it.             *)
LEMMA SafeBefore ==
    ASSUME TypeInv, NEW a \in Goroutines, Append32(a) \/ Digest(a), Safe'
    PROVE  Safe
<1>1. tree' = tree
  BY DEF Append32, Digest
<1>2. Disjoint /\ (OneWrite \/ \E g \in Goroutines : Alone(g)')
  BY <1>1, SameTrees DEF Safe
<1>3. ASSUME NEW g \in Goroutines, Alone(g)'
      PROVE  Alone(g)
  <2>1. a = g
    <3> SUFFICES ASSUME a # g PROVE FALSE
      OBVIOUS
    <3>1. joined'[a] = << >> /\ hash'[a] = [n \in Branches |-> Nil]
      BY <1>3 DEF Alone
    <3>2. CASE Append32(a)
      <4>1. PICK x : x # << >> /\ joined' = [joined EXCEPT ![a] = x]
        <5>1. \A at : <<"at", at>> # << >>
          OBVIOUS
        <5>2. \A l, r : <<"new", l, r>> # << >>
          OBVIOUS
        <5>3. \/ \E at : joined' = [joined EXCEPT ![a] = <<"at", at>>]
              \/ \E l, r : joined' = [joined EXCEPT ![a] = <<"new", l, r>>]
          BY <3>2 DEF Append32
        <5> QED
          BY <5>1, <5>2, <5>3
      <4> QED
        BY <3>1, <4>1 DEF TypeInv, Table
    <3>3. CASE Digest(a)
      <4> DEFINE n == Head(work[a]).node
      <4>1. n \in Branches
        BY <3>3, HeadOfWork DEF Digest
      <4>2. PICK l, r : hash' = [hash EXCEPT ![a][n] = hashFn(l, r)]
        BY <3>3 DEF Digest
      <4> HIDE DEF n
      <4>3. \A x, y : hashFn(x, y) # Nil
        BY DEF hashFn, Nil
      <4>4. Table(hash, Goroutines) /\ Table(hash[a], Branches)
        BY DEF TypeInv
      <4>5. hash'[a][n] = hashFn(l, r)
        BY <4>1, <4>2, <4>4 DEF Table
      <4> QED
        BY <3>1, <4>1, <4>3, <4>5
    <3> QED
      BY <3>2, <3>3
  <2>2. ASSUME NEW h \in Goroutines \ {g}
        PROVE  work'[h] = work[h] /\ joined'[h] = joined[h] /\ hash'[h] = hash[h]
    BY <2>1, <2>2 DEF Append32, Digest, TypeInv, Table
  <2> QED
    BY <1>3, <2>2 DEF Alone
<1> QED
  BY <1>2, <1>3 DEF Safe

(* While two goroutines are at work, Safe means that the places appended   *)
(* to have one content each.                                               *)
LEMMA TwoAtWork ==
    ASSUME Safe, NEW a \in Goroutines, NEW h \in Goroutines, a # h,
           work[a] # << >>, joined[h] # << >>
    PROVE  OneWrite
BY DEF Safe, Alone

---------------------------------------------------------------------------
(* Each step keeps the types.                                              *)
LEMMA TypeStep ==
    ASSUME TypeInv, NEW a \in Goroutines, Append32(a) \/ Digest(a)
    PROVE  TypeInv'
<1>1. CASE Append32(a)
  <2>1. Table(memory', 1 .. Cells) /\ Table(joined', Goroutines)
    BY <1>1 DEF Append32, TypeInv, Table
  <2>2. ASSUME NEW g \in Goroutines, joined'[g] # << >>
        PROVE  work'[g] # << >>
    BY <1>1, <2>2 DEF Append32, TypeInv, Table
  <2>3. Chain(work[a])' = Chain(work[a])
    BY <1>1 DEF Append32, Chain
  <2> QED
    BY <1>1, <2>1, <2>2 DEF Append32, TypeInv, Table, Chain
<1>2. CASE Digest(a)
  <2>1. work' = [work EXCEPT ![a] = Tail(@)] /\ Chain(Tail(work[a]))
    BY <1>2, HeadOfWork DEF Digest
  <2>2. Table(work', Goroutines) /\ \A g \in Goroutines : Chain(work'[g])
    BY <2>1 DEF TypeInv, Table
  <2>3. /\ Table(joined', Goroutines)
        /\ \A g \in Goroutines : joined'[g] # << >> => work'[g] # << >>
    BY <1>2, <2>1 DEF Digest, TypeInv, Table
  <2>4. Table(hash', Goroutines) /\ \A g \in Goroutines : Table(hash'[g], Branches)
    BY <1>2 DEF Digest, TypeInv, Table
  <2>5. Table(value', 1 .. 2) /\ \A i \in 1 .. 2 : Table(value'[i], Branches)
    <3>1. PICK i, n, r : value' = [value EXCEPT ![i][n] = r]
      BY <1>2 DEF Digest
    <3>2. Table(value, 1 .. 2) /\ \A k \in 1 .. 2 : Table(value[k], Branches)
      BY DEF TypeInv
    <3>3. value' = [k \in 1 .. 2 |-> IF k = i THEN [value[k] EXCEPT ![n] = r] ELSE value[k]]
      BY <3>1, <3>2 DEF Table
    <3>4. \A k \in 1 .. 2 : Table([value[k] EXCEPT ![n] = r], Branches)
      BY <3>2 DEF Table
    <3>5. \A k \in 1 .. 2 : Table(value'[k], Branches)
      BY <3>2, <3>3, <3>4
    <3> QED
      BY <3>3, <3>5 DEF Table
  <2>6. tree' \in [1 .. 2 -> Trees] /\ Table(memory', 1 .. Cells)
    BY <1>2 DEF Digest, TypeInv
  <2> QED
    BY <2>2, <2>3, <2>4, <2>5, <2>6 DEF TypeInv, Chain
<1> QED
  BY <1>1, <1>2

(* The leaves stay and every slice that waits for its hash stays what it   *)
(* has to be: an append writes what belongs behind the leaf, and nothing   *)
(* else while somebody else waits.                                         *)
LEMMA AppendStep ==
    ASSUME TypeInv, NEW a \in Goroutines, Append32(a), Safe,
           LeafInv, ValueInv, HashInv, JoinedInv
    PROVE  (LeafInv /\ ValueInv /\ HashInv /\ JoinedInv)'
<1> DEFINE i == work[a][1].tree
           n == work[a][1].node
           at == tree[i][2 * n].at
           right == TrueValue(i, 2 * n + 1)
<1>1. work[a] # << >> /\ joined[a] = << >> /\ Head(work[a]) = work[a][1]
  BY HeadOfWork DEF Append32
<1>2. i \in 1 .. 2 /\ n \in Branches
  BY <1>1, HeadOfWork
<1>3. Returned(a, i, 2 * n) = TrueValue(i, 2 * n) /\ Returned(a, i, 2 * n + 1) = right
  BY <1>1, ReturnedIsTrue
<1>4. /\ UNCHANGED <<tree, work, hash, value>>
      /\ \/ /\ 2 * n \in Leaves /\ tree[i][2 * n].room
            /\ memory' = [memory EXCEPT ![at + 1] = right]
            /\ joined' = [joined EXCEPT ![a] = <<"at", at>>]
         \/ /\ memory' = memory
            /\ joined' = [joined EXCEPT ![a] = <<"new", TrueValue(i, 2 * n), right>>]
  BY <1>1, <1>3 DEF Append32
<1> HIDE DEF i, n, at, right
<1>5. /\ \A k, m : TrueValue(k, m)' = TrueValue(k, m)
      /\ LeafCells' = LeafCells
  BY <1>4, SameTrees
<1>6. ValueInv' /\ HashInv'
  BY <1>4, <1>5 DEF ValueInv, HashInv
<1>7. Table(memory, 1 .. Cells) /\ Table(joined, Goroutines)
  BY DEF TypeInv
<1>8. LeafCells \subseteq 1 .. Cells
  BY LeafPlaces, CellsAssumption DEF LeafCells
<1>9. CASE /\ 2 * n \in Leaves /\ tree[i][2 * n].room
           /\ memory' = [memory EXCEPT ![at + 1] = right]
           /\ joined' = [joined EXCEPT ![a] = <<"at", at>>]
  <2>1. n \in {2, 3}
    BY <1>2, <1>9 DEF Leaves, Branches
  <2>2. at + 1 \in 1 .. Cells
    BY <1>2, <1>9, LeafPlaces DEF at
  <2>3. right \in WritesTo(at + 1)
    BY <1>2, <1>9, <2>1, AppendIsWrite DEF at, right
  <2>4. \A c \in 1 .. Cells : memory'[c] = IF c = at + 1 THEN right ELSE memory[c]
    BY <1>7, <1>9 DEF Table
  <2>5. LeafInv'
    <3>1. ASSUME NEW c \in LeafCells PROVE memory'[c] = Cell(c)
      <4>1. CASE c = at + 1
        <5>1. right = Cell(c)
          BY <2>3, <4>1 DEF Safe, Disjoint
        <5> QED
          BY <2>2, <2>4, <4>1, <5>1
      <4>2. CASE c # at + 1
        BY <1>8, <2>4, <4>2 DEF LeafInv
      <4> QED
        BY <4>1, <4>2
    <3> QED
      BY <1>5, <3>1 DEF LeafInv, Cell
  <2>6. ASSUME NEW g \in Goroutines, joined'[g] # << >>
        PROVE  JoinedFor(joined[g], work[g][1].tree, work[g][1].node)'
    <3> DEFINE k == work[g][1].tree
               m == work[g][1].node
               there == tree[k][2 * m].at + 1
    <3>1. CASE g = a
      <4>1. joined'[g] = <<"at", at>> /\ k = i /\ m = n
        BY <1>7, <1>9, <3>1 DEF Table, i, n
      <4>2. memory'[at + 1] = right
        BY <2>2, <2>4
      <4> QED
        BY <1>4, <1>5, <1>9, <2>1, <4>1, <4>2 DEF JoinedFor, at, right
    <3>2. CASE g # a
      <4>1. joined'[g] = joined[g]
        BY <1>7, <1>9, <3>2 DEF Table
      <4>2. JoinedFor(joined[g], k, m)
        BY <2>6, <4>1 DEF JoinedInv
      <4>3. OneWrite
        BY <1>1, <2>6, <3>2, <4>1, TwoAtWork
      <4>4. k \in 1 .. 2
        BY <2>6, <4>1, HeadOfWork DEF TypeInv
      <4> HIDE DEF k, m
      <4>5. CASE joined[g] = <<"new", TrueValue(k, 2 * m), TrueValue(k, 2 * m + 1)>>
        BY <1>4, <1>5, <4>1, <4>5 DEF JoinedFor, k, m
      <4>6. CASE /\ m \in {2, 3} /\ tree[k][2 * m].room
                 /\ joined[g] = <<"at", tree[k][2 * m].at>>
                 /\ memory[there] = TrueValue(k, 2 * m + 1)
        <5>1. TrueValue(k, 2 * m + 1) \in WritesTo(there)
          BY <4>4, <4>6, AppendIsWrite
        <5>2. 2 * m \in Leaves
          BY <4>6 DEF Leaves
        <5>3. there \in 1 .. Cells
          BY <4>4, <5>2, LeafPlaces
        <5>4. there = at + 1 => right = TrueValue(k, 2 * m + 1)
          BY <2>2, <2>3, <4>3, <5>1 DEF OneWrite
        <5>5. memory'[there] = TrueValue(k, 2 * m + 1)
          BY <2>4, <4>6, <5>3, <5>4
        <5> QED
          BY <1>4, <1>5, <4>1, <4>6, <5>5 DEF JoinedFor, k, m
      <4> QED
        BY <4>2, <4>5, <4>6 DEF JoinedFor
    <3> QED
      BY <3>1, <3>2
  <2> QED
    BY <1>6, <2>5, <2>6 DEF JoinedInv
<1>10. CASE /\ memory' = memory
            /\ joined' = [joined EXCEPT ![a] = <<"new", TrueValue(i, 2 * n), right>>]
  <2>1. LeafInv'
    BY <1>5, <1>10 DEF LeafInv, Cell
  <2>2. ASSUME NEW g \in Goroutines, joined'[g] # << >>
        PROVE  JoinedFor(joined[g], work[g][1].tree, work[g][1].node)'
    <3>1. CASE g = a
      <4>1. joined'[g] = <<"new", TrueValue(i, 2 * n), right>>
        BY <1>7, <1>10, <3>1 DEF Table
      <4> QED
        BY <1>4, <1>5, <3>1, <4>1 DEF JoinedFor, i, n, right
    <3>2. CASE g # a
      <4>1. joined'[g] = joined[g]
        BY <1>7, <1>10, <3>2 DEF Table
      <4>2. JoinedFor(joined[g], work[g][1].tree, work[g][1].node)
        BY <2>2, <4>1 DEF JoinedInv
      <4> QED
        BY <1>4, <1>5, <1>10, <4>1, <4>2 DEF JoinedFor
    <3> QED
      BY <3>1, <3>2
  <2> QED
    BY <1>6, <2>1, <2>2 DEF JoinedInv
<1> QED
  BY <1>4, <1>9, <1>10

(* What is hashed is what was appended.                                    *)
LEMMA DigestStep ==
    ASSUME TypeInv, NEW a \in Goroutines, Digest(a), Safe,
           LeafInv, ValueInv, HashInv, JoinedInv
    PROVE  (LeafInv /\ ValueInv /\ HashInv /\ JoinedInv)'
<1> DEFINE i == work[a][1].tree
           n == work[a][1].node
<1>1. /\ work[a] # << >> /\ joined[a] # << >> /\ Head(work[a]) = work[a][1]
      /\ i \in 1 .. 2 /\ n \in Branches
  BY HeadOfWork DEF Digest
<1>2. JoinedFor(joined[a], i, n)
  BY <1>1 DEF JoinedInv
<1>3. /\ hash' = [hash EXCEPT ![a][n] = TrueValue(i, n)]
      /\ value' = [value EXCEPT ![i][n] = TrueValue(i, n)]
  <2> DEFINE j == joined[a]
             result == IF j[1] = "at" THEN hashFn(memory[j[2]], memory[j[2] + 1])
                       ELSE hashFn(j[2], j[3])
  <2>1. /\ hash' = [hash EXCEPT ![a][n] = result]
        /\ value' = [value EXCEPT ![i][n] = result]
    BY <1>1 DEF Digest
  <2>2. result = hashFn(TrueValue(i, 2 * n), TrueValue(i, 2 * n + 1))
    <3> HIDE DEF i, n
    <3>1. CASE j = <<"new", TrueValue(i, 2 * n), TrueValue(i, 2 * n + 1)>>
      BY <3>1
    <3>2. CASE /\ n \in {2, 3} /\ tree[i][2 * n].room
               /\ j = <<"at", tree[i][2 * n].at>>
               /\ memory[tree[i][2 * n].at + 1] = TrueValue(i, 2 * n + 1)
      <4>1. 2 * n \in Leaves
        BY <3>2 DEF Leaves
      <4>2. TrueValue(i, 2 * n) = Cell(tree[i][2 * n].at)
        <5>1. \A m \in Leaves : TrueValue(i, m) = Cell(tree[i][m].at)
          BY DEF TrueValue, Leaves
        <5> QED
          BY <4>1, <5>1
      <4>3. memory[tree[i][2 * n].at] = Cell(tree[i][2 * n].at)
        BY <1>1, <4>1, LeafPlaces DEF LeafInv
      <4>4. j[1] = "at" /\ j[2] = tree[i][2 * n].at
        BY <3>2
      <4> HIDE DEF j
      <4>5. result = hashFn(memory[tree[i][2 * n].at], memory[tree[i][2 * n].at + 1])
        BY <4>4
      <4> QED
        BY <3>2, <4>2, <4>3, <4>5
    <3> QED
      BY <1>2, <3>1, <3>2 DEF JoinedFor
  <2>3. result = TrueValue(i, n)
    BY <1>1, <2>2, HashOfChildren
  <2> QED
    BY <2>1, <2>3
<1>4. /\ work' = [work EXCEPT ![a] = Tail(work[a])]
      /\ joined' = [joined EXCEPT ![a] = << >>]
      /\ UNCHANGED <<tree, memory>>
  BY DEF Digest
<1>5. /\ \A k, m : TrueValue(k, m)' = TrueValue(k, m)
      /\ LeafCells' = LeafCells
  BY <1>4, SameTrees
<1>6. /\ Table(work, Goroutines) /\ Table(joined, Goroutines)
      /\ Table(hash, Goroutines) /\ Table(hash[a], Branches)
      /\ Table(value, 1 .. 2) /\ \A k \in 1 .. 2 : Table(value[k], Branches)
  BY DEF TypeInv
<1>7. LeafInv'
  BY <1>4, <1>5 DEF LeafInv, Cell
<1>8. ValueInv'
  <2> HIDE DEF i, n
  <2>1. ASSUME NEW k \in 1 .. 2, NEW m \in Branches
        PROVE  value'[k][m] \in {Nil, TrueValue(k, m)}
    <3>1. value'[k][m] = IF k = i /\ m = n THEN TrueValue(i, n) ELSE value[k][m]
      BY <1>1, <1>3, <1>6 DEF Table
    <3> QED
      BY <3>1 DEF ValueInv
  <2> QED
    BY <1>5, <2>1 DEF ValueInv, Nil
<1>9. HashInv'
  <2>1. ASSUME NEW g \in Goroutines, work'[g] # << >>
        PROVE  /\ work'[g][1].node \in {3, 1} =>
                     hash'[g][2] = TrueValue(work'[g][1].tree, 2)
               /\ work'[g][1].node = 1 =>
                     hash'[g][3] = TrueValue(work'[g][1].tree, 3)
    <3>1. CASE g # a
      <4>1. work'[g] = work[g] /\ hash'[g] = hash[g]
        BY <1>3, <1>4, <1>6, <3>1 DEF Table
      <4> QED
        BY <2>1, <4>1 DEF HashInv
    <3>2. CASE g = a
      <4>1. work'[a] = Tail(work[a]) /\ Tail(work[a]) # << >>
        BY <1>4, <1>6, <2>1, <3>2 DEF Table
      <4>2. /\ n = 2 => work'[a][1] = Call(i, 3)
            /\ n = 3 => work'[a][1] = Call(i, 1)
            /\ n = 1 => work'[a][1].node = 2
        BY <1>1, <4>1, HeadOfWork
      <4>3. n = 3 => hash[a][2] = TrueValue(i, 2)
        BY <1>1 DEF HashInv
      <4> HIDE DEF i, n
      <4>4. \A m \in Branches : hash'[a][m] = IF m = n THEN TrueValue(i, n) ELSE hash[a][m]
        BY <1>1, <1>3, <1>6 DEF Table
      <4>5. n = 1 \/ n = 2 \/ n = 3
        BY <1>1 DEF Branches
      <4>6. \A k, m : Call(k, m).tree = k /\ Call(k, m).node = m
        BY DEF Call
      <4>7. 2 \in Branches /\ 3 \in Branches
        BY DEF Branches
      <4> QED
        BY <3>2, <4>2, <4>3, <4>4, <4>5, <4>6, <4>7
    <3> QED
      BY <3>1, <3>2
  <2> QED
    BY <1>5, <2>1 DEF HashInv
<1>10. JoinedInv'
  <2>1. ASSUME NEW g \in Goroutines, joined'[g] # << >>
        PROVE  JoinedFor(joined[g], work[g][1].tree, work[g][1].node)'
    <3>1. g # a /\ joined'[g] = joined[g] /\ work'[g] = work[g]
      BY <1>4, <1>6, <2>1 DEF Table
    <3>2. JoinedFor(joined[g], work[g][1].tree, work[g][1].node)
      BY <2>1, <3>1 DEF JoinedInv
    <3> QED
      BY <1>4, <1>5, <3>1, <3>2 DEF JoinedFor
  <2> QED
    BY <2>1 DEF JoinedInv
<1> QED
  BY <1>7, <1>8, <1>9, <1>10

---------------------------------------------------------------------------
(* Each step keeps the invariant.                                          *)
LEMMA StepIInv == IInv /\ [Next]_vars => IInv'
<1> SUFFICES ASSUME IInv, [Next]_vars PROVE IInv'
  OBVIOUS
<1>1. ASSUME NEW a \in Goroutines, Append32(a) \/ Digest(a)
      PROVE  IInv'
  <2>1. TypeInv'
    BY <1>1, TypeStep DEF IInv
  <2>2. ASSUME Safe' PROVE (LeafInv /\ ValueInv /\ HashInv /\ JoinedInv)'
    <3>1. Safe
      BY <1>1, <2>2, SafeBefore DEF IInv
    <3>2. TypeInv /\ LeafInv /\ ValueInv /\ HashInv /\ JoinedInv
      BY <3>1 DEF IInv
    <3>3. CASE Append32(a)
      BY <3>1, <3>2, <3>3, AppendStep
    <3>4. CASE Digest(a)
      BY <3>1, <3>2, <3>4, DigestStep
    <3> QED
      BY <1>1, <3>3, <3>4
  <2> QED
    BY <2>1, <2>2 DEF IInv
<1>2. CASE UNCHANGED vars
  <2>1. /\ \A i, n : TrueValue(i, n)' = TrueValue(i, n)
        /\ LeafCells' = LeafCells /\ Disjoint' = Disjoint /\ OneWrite' = OneWrite
    BY <1>2, SameTrees DEF vars
  <2>2. Safe' = Safe
    BY <1>2, <2>1 DEF Safe, Alone, vars
  <2>3. TypeInv' = TypeInv
    BY <1>2 DEF TypeInv, Table, Chain, vars
  <2>4. LeafInv' = LeafInv /\ ValueInv' = ValueInv /\ HashInv' = HashInv
    BY <1>2, <2>1 DEF LeafInv, ValueInv, HashInv, Cell, vars
  <2>5. JoinedInv' = JoinedInv
    BY <1>2, <2>1 DEF JoinedInv, JoinedFor, vars
  <2> QED
    BY <2>2, <2>3, <2>4, <2>5 DEF IInv
<1> QED
  BY <1>1, <1>2 DEF Next, Stop

(* Whatever the trees, the memory and the number of goroutines: if no leaf *)
(* lies in the room behind another, and either one goroutine hashes alone  *)
(* or every place appended to has one content, hashNode leaves the leaves  *)
(* as they are and n.value of each branch is nil or its hash.              *)
THEOREM HashesOfTheLeavesAlways == Spec => []HashesOfTheLeaves
<1>1. IInv => HashesOfTheLeaves
  BY DEF IInv, LeafInv, ValueInv, HashesOfTheLeaves
<1> QED
  BY <1>1, InitIInv, StepIInv, PTL DEF Spec
===========================================================================
