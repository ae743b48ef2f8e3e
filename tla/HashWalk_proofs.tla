------------------------- MODULE HashWalk_proofs --------------------------
(***************************************************************************)
(* The generated HashTreeRootWith computes SSZ's roots on the Hasher, and  *)
(* on the Wrapper builds the trees that have them.  First the set that     *)
(* digests and nodes are taken from, then cells, chunks and the levels of  *)
(* a tree; what each operation of the Hasher does to its buffer, the trees *)
(* that TreeFromNodes builds and what each operation of the Wrapper does   *)
(* to its nodes; and last the steps of a walk and its invariant.           *)
(***************************************************************************)
EXTENDS HashWalk, Induction

(***************************************************************************)
(* A universe: a set that has the cells of data, and with any chunks and   *)
(* nodes made of it the digests and nodes made of those.                   *)
(***************************************************************************)
ChunkOf(X) == [1 .. U -> X]
NodeOf(X)  == [root : ChunkOf(X), empty : BOOLEAN,
               kids : {<< >>} \cup {<<l, r>> : l \in X, r \in X}]
PairsOf(X) == {<<l, r>> : l \in ChunkOf(X), r \in ChunkOf(X)}

IsUniverse(X) ==
    /\ \A v \in Int : <<v>> \in X
    /\ PairsOf(X) \subseteq X
    /\ NodeOf(X) \subseteq X

(* The stages in which a universe comes about, up to the n-th.             *)
Grown(S) == S \cup PairsOf(S) \cup NodeOf(S)
IsStages(f, n) ==
    /\ f[0] = {<<v>> : v \in Int}
    /\ \A i \in 1 .. n : f[i] = Grown(f[i - 1])
Stage(n) == (CHOOSE f : IsStages(f, n))[n]

LEMMA StageIs ==
    /\ Stage(0) = {<<v>> : v \in Int}
    /\ \A n \in Nat : Stage(n + 1) = Grown(Stage(n))
<1>1. \A n \in Nat : \E f : IsStages(f, n)
  <2> DEFINE T == {n \in Nat : \E f : IsStages(f, n)}
  <2>1. 0 \in T
    <3> DEFINE f == [i \in {0} |-> {<<v>> : v \in Int}]
    <3>1. IsStages(f, 0)
      BY DEF IsStages
    <3> QED BY <3>1
  <2>2. ASSUME NEW n \in Nat, n \in T PROVE n + 1 \in T
    <3>1. PICK f : IsStages(f, n)
      BY <2>2
    <3> DEFINE g == [i \in 0 .. n + 1 |-> IF i = n + 1 THEN Grown(f[n]) ELSE f[i]]
    <3>2. /\ \A i \in 0 .. n : g[i] = f[i]
          /\ g[n + 1] = Grown(f[n])
      <4>1. \A i \in 0 .. n : i \in 0 .. n + 1 /\ i # n + 1
        OBVIOUS
      <4>2. n + 1 \in 0 .. n + 1
        OBVIOUS
      <4> QED BY <4>1, <4>2
    <3> HIDE DEF g
    <3>3. ASSUME NEW i \in 1 .. n + 1 PROVE g[i] = Grown(g[i - 1])
      <4>1. CASE i = n + 1
        <5>1. i - 1 = n /\ n \in 0 .. n
          BY <4>1
        <5> QED BY <3>2, <4>1, <5>1
      <4>2. CASE i # n + 1
        <5>1. i \in 1 .. n /\ i \in 0 .. n /\ i - 1 \in 0 .. n
          BY <4>2
        <5>2. f[i] = Grown(f[i - 1])
          BY <3>1, <5>1 DEF IsStages
        <5> QED BY <3>2, <5>1, <5>2
      <4> QED BY <4>1, <4>2
    <3>4. IsStages(g, n + 1)
      BY <3>1, <3>2, <3>3 DEF IsStages
    <3> QED BY <3>4
  <2> HIDE DEF T
  <2>3. \A n \in Nat : n \in T
    BY <2>1, <2>2, SetInduction
  <2> QED BY <2>3 DEF T
<1>2. ASSUME NEW n \in Nat PROVE Stage(n + 1) = Grown(Stage(n))
  <2> DEFINE f == CHOOSE x : IsStages(x, n)
             g == CHOOSE x : IsStages(x, n + 1)
  <2>1. IsStages(f, n)
    BY <1>1
  <2>2. IsStages(g, n + 1)
    <3>1. n + 1 \in Nat
      OBVIOUS
    <3>2. \E x : IsStages(x, n + 1)
      BY <1>1, <3>1
    <3> QED BY <3>2
  <2>3. Stage(n) = f[n] /\ Stage(n + 1) = g[n + 1]
    BY DEF Stage
  <2> HIDE DEF f, g
  <2>4. f[0] = g[0]
    BY <2>1, <2>2 DEF IsStages
  <2>5. \A i \in 1 .. n : f[i - 1] = g[i - 1] => f[i] = g[i]
    <3> SUFFICES ASSUME NEW i \in 1 .. n, f[i - 1] = g[i - 1] PROVE f[i] = g[i]
      OBVIOUS
    <3>1. i \in 1 .. n + 1
      OBVIOUS
    <3> QED BY <2>1, <2>2, <3>1 DEF IsStages
  <2>6. f[n] = g[n]
    <3>1. \A i \in 0 .. n : f[i] = g[i]
      BY <2>4, <2>5, StepsAgree
    <3> QED BY <3>1
  <2>7. n + 1 \in 1 .. n + 1 /\ (n + 1) - 1 = n
    OBVIOUS
  <2>8. g[n + 1] = Grown(g[n])
    BY <2>2, <2>7 DEF IsStages
  <2> QED BY <2>3, <2>6, <2>8
<1>3. Stage(0) = {<<v>> : v \in Int}
  <2>1. \E f : IsStages(f, 0)
    BY <1>1
  <2> QED BY <2>1 DEF Stage, IsStages
<1> QED BY <1>2, <1>3

LEMMA StageGrows ==
    ASSUME NEW m \in Nat, NEW k \in Nat
    PROVE  Stage(m) \subseteq Stage(m + k)
<1> DEFINE T == {n \in Nat : Stage(m) \subseteq Stage(m + n)}
<1>1. 0 \in T
  OBVIOUS
<1>2. ASSUME NEW n \in Nat, n \in T PROVE n + 1 \in T
  <2>1. m + n \in Nat /\ m + (n + 1) = (m + n) + 1
    OBVIOUS
  <2>2. Stage((m + n) + 1) = Grown(Stage(m + n))
    BY <2>1, StageIs
  <2>3. Stage(m) \subseteq Stage((m + n) + 1)
    BY <1>2, <2>2 DEF Grown
  <2>4. Stage(m) \subseteq Stage(m + (n + 1))
    BY <2>1, <2>3
  <2> QED BY <2>4
<1> HIDE DEF T
<1>3. \A n \in Nat : n \in T
  BY <1>1, <1>2, SetInduction
<1> QED BY <1>3 DEF T

(* There is one.                                                           *)
LEMMA UniverseExists == \E X : IsUniverse(X)
<1> DEFINE X == UNION {Stage(n) : n \in Nat}
<1>1. \A x \in X : \E n \in Nat : x \in Stage(n)
  OBVIOUS
<1>2. \A n \in Nat : Stage(n) \subseteq X
  OBVIOUS
<1> HIDE DEF X
<1>3. \A a, b \in Nat : \E n \in Nat : Stage(a) \subseteq Stage(n) /\ Stage(b) \subseteq Stage(n)
  <2> TAKE a, b \in Nat
  <2>1. CASE a <= b
    <3>1. b - a \in Nat /\ a + (b - a) = b
      BY <2>1
    <3>2. Stage(a) \subseteq Stage(a + (b - a))
      BY <3>1, StageGrows
    <3> QED BY <3>1, <3>2
  <2>2. CASE b <= a
    <3>1. a - b \in Nat /\ b + (a - b) = a
      BY <2>2
    <3>2. Stage(b) \subseteq Stage(b + (a - b))
      BY <3>1, StageGrows
    <3> QED BY <3>1, <3>2
  <2> QED BY <2>1, <2>2
<1>4. ASSUME NEW c \in ChunkOf(X) PROVE \E n \in Nat : c \in ChunkOf(Stage(n))
  <2> DEFINE T == {k \in Nat : \E n \in Nat : \A i \in 1 .. U : i <= k => c[i] \in Stage(n)}
  <2>0. U \in Nat
    BY ChunkAssumption
  <2>1. 0 \in T
    <3>1. \A i \in 1 .. U : i <= 0 => c[i] \in Stage(0)
      BY <2>0
    <3> QED BY <3>1
  <2>2. ASSUME NEW k \in Nat, k \in T PROVE k + 1 \in T
    <3>1. PICK n \in Nat : \A i \in 1 .. U : i <= k => c[i] \in Stage(n)
      BY <2>2
    <3>2. CASE k + 1 \in 1 .. U
      <4>1. PICK m \in Nat : c[k + 1] \in Stage(m)
        BY <1>1, <3>2 DEF ChunkOf
      <4>2. PICK q \in Nat : Stage(n) \subseteq Stage(q) /\ Stage(m) \subseteq Stage(q)
        BY <1>3
      <4>3. \A i \in 1 .. U : i <= k + 1 => c[i] \in Stage(q)
        <5> SUFFICES ASSUME NEW i \in 1 .. U, i <= k + 1 PROVE c[i] \in Stage(q)
          OBVIOUS
        <5>1. i \in Nat
          BY <2>0
        <5>2. i <= k \/ i = k + 1
          BY <5>1
        <5> QED BY <3>1, <4>1, <4>2, <5>2
      <4> QED BY <4>3
    <3>3. CASE k + 1 \notin 1 .. U
      <4>1. \A i \in 1 .. U : i <= k + 1 => i <= k
        BY <2>0, <3>3
      <4>2. \A i \in 1 .. U : i <= k + 1 => c[i] \in Stage(n)
        BY <3>1, <4>1
      <4> QED BY <4>2
    <3> QED BY <3>2, <3>3
  <2> HIDE DEF T
  <2>3. U \in T
    BY <2>0, <2>1, <2>2, SetInduction
  <2>4. PICK n \in Nat : \A i \in 1 .. U : i <= U => c[i] \in Stage(n)
    BY <2>3 DEF T
  <2>5. \A i \in 1 .. U : c[i] \in Stage(n)
    BY <2>0, <2>4
  <2>6. c \in ChunkOf(Stage(n))
    BY <2>5 DEF ChunkOf
  <2> QED BY <2>6
<1>5. \A S, R : S \subseteq R => ChunkOf(S) \subseteq ChunkOf(R)
  BY DEF ChunkOf
<1>6. \A v \in Int : <<v>> \in X
  <2>1. \A v \in Int : <<v>> \in Stage(0)
    BY StageIs
  <2> QED BY <1>2, <2>1
<1>7. ASSUME NEW l \in ChunkOf(X), NEW r \in ChunkOf(X) PROVE <<l, r>> \in X
  <2>1. PICK a \in Nat : l \in ChunkOf(Stage(a))
    BY <1>4
  <2>2. PICK b \in Nat : r \in ChunkOf(Stage(b))
    BY <1>4
  <2>3. PICK n \in Nat : Stage(a) \subseteq Stage(n) /\ Stage(b) \subseteq Stage(n)
    BY <1>3
  <2>4. l \in ChunkOf(Stage(n)) /\ r \in ChunkOf(Stage(n))
    BY <1>5, <2>1, <2>2, <2>3
  <2>5. <<l, r>> \in Stage(n + 1) /\ n + 1 \in Nat
    BY <2>4, StageIs DEF Grown, PairsOf
  <2> QED BY <1>2, <2>5
<1>8. ASSUME NEW x \in NodeOf(X) PROVE x \in X
  <2>1. /\ x.root \in ChunkOf(X) /\ x.empty \in BOOLEAN
        /\ x = [root |-> x.root, empty |-> x.empty, kids |-> x.kids]
        /\ x.kids = << >> \/ \E l, r \in X : x.kids = <<l, r>>
    BY DEF NodeOf
  <2>2. PICK a \in Nat : x.root \in ChunkOf(Stage(a))
    BY <1>4, <2>1
  <2>3. ASSUME NEW n \in Nat, Stage(a) \subseteq Stage(n),
               x.kids \in {<< >>} \cup {<<l, r>> : l \in Stage(n), r \in Stage(n)}
        PROVE  x \in X
    <3>1. x.root \in ChunkOf(Stage(n))
      BY <1>5, <2>2, <2>3
    <3>2. x \in NodeOf(Stage(n))
      BY <2>1, <2>3, <3>1 DEF NodeOf
    <3>3. x \in Stage(n + 1) /\ n + 1 \in Nat
      BY <3>2, StageIs DEF Grown
    <3> QED BY <1>2, <3>3
  <2>4. CASE x.kids = << >>
    BY <2>3, <2>4
  <2>5. CASE \E l, r \in X : x.kids = <<l, r>>
    <3>1. PICK l \in X, r \in X : x.kids = <<l, r>>
      BY <2>5
    <3>2. PICK b \in Nat : l \in Stage(b)
      BY <1>1
    <3>3. PICK d \in Nat : r \in Stage(d)
      BY <1>1
    <3>4. PICK e \in Nat : Stage(a) \subseteq Stage(e) /\ Stage(b) \subseteq Stage(e)
      BY <1>3
    <3>5. PICK n \in Nat : Stage(e) \subseteq Stage(n) /\ Stage(d) \subseteq Stage(n)
      BY <1>3
    <3>6. l \in Stage(n) /\ r \in Stage(n) /\ Stage(a) \subseteq Stage(n)
      BY <3>2, <3>3, <3>4, <3>5
    <3> QED BY <2>3, <3>1, <3>6
  <2> QED BY <2>1, <2>4, <2>5
<1>9. IsUniverse(X)
  BY <1>6, <1>7, <1>8 DEF IsUniverse, PairsOf
<1> QED BY <1>9

---------------------------------------------------------------------------
(***************************************************************************)
(* Cells and chunks.                                                       *)
(***************************************************************************)
LEMMA Position ==
    ASSUME NEW n \in Nat
    PROVE  /\ n * U \in Nat
           /\ \A j \in 0 .. n - 1, k \in 1 .. U :
                 /\ j * U + k \in 1 .. n * U
                 /\ (j * U + k - 1) \div U = j
           /\ \A c \in 1 .. n * U :
                 /\ (c - 1) \div U \in 0 .. n - 1
                 /\ c - ((c - 1) \div U) * U \in 1 .. U
<1>0. U \in Nat \ {0}
  BY ChunkAssumption
<1>1. n * U \in Nat
  BY <1>0
<1>2. ASSUME NEW j \in 0 .. n - 1, NEW k \in 1 .. U
      PROVE  /\ j * U + k \in 1 .. n * U
             /\ (j * U + k - 1) \div U = j
  <2>1. j \in Nat /\ k - 1 \in 0 .. U - 1 /\ n - 1 - j \in Nat
    BY <1>0
  <2>2. (j * U + (k - 1)) \div U = j
    BY <1>0, <2>1
  <2>3. j * U + (k - 1) = j * U + k - 1 /\ j * U \in Nat
    BY <1>0, <2>1
  <2>4. n * U = j * U + U + (n - 1 - j) * U /\ (n - 1 - j) * U \in Nat
    BY <1>0, <2>1
  <2>5. j * U + k <= n * U
    <3> DEFINE a == j * U
               b == (n - 1 - j) * U
               d == n * U
    <3>1. a \in Nat /\ b \in Nat /\ d = a + U + b
      BY <2>3, <2>4
    <3> HIDE DEF a, b, d
    <3>2. a + k <= d
      BY <1>0, <3>1
    <3> QED BY <3>2 DEF a, d
  <2> QED BY <1>0, <1>1, <2>2, <2>3, <2>5
<1>3. ASSUME NEW c \in 1 .. n * U
      PROVE  /\ (c - 1) \div U \in 0 .. n - 1
             /\ c - ((c - 1) \div U) * U \in 1 .. U
  <2> DEFINE b == c - 1
             q == b \div U
             r == b % U
  <2>1. b \in Nat /\ c = b + 1 /\ b < n * U
    BY <1>1
  <2>2. q \in Nat /\ r \in 0 .. U - 1 /\ b = q * U + r
    BY <1>0, <2>1
  <2> HIDE DEF b, q, r
  <2>3. q < n
    <3>1. SUFFICES ASSUME q >= n PROVE FALSE
      BY <2>2
    <3>2. q = n + (q - n) /\ q - n \in Nat
      BY <2>2, <3>1
    <3>3. q * U = n * U + (q - n) * U /\ (q - n) * U \in Nat /\ q * U \in Nat
      BY <1>0, <3>2, <2>2
    <3> QED BY <1>0, <1>1, <2>1, <2>2, <3>3
  <2>4. q * U \in Nat
    BY <1>0, <2>2
  <2>5. c - q * U = r + 1
    BY <1>0, <2>1, <2>2, <2>4
  <2>6. q \in 0 .. n - 1 /\ c - q * U \in 1 .. U
    BY <1>0, <2>2, <2>3, <2>5
  <2> QED BY <2>6 DEF q, b
<1> QED BY <1>1, <1>2, <1>3

LEMMA CeilIs ==
    /\ \A a \in Nat : /\ CeilDiv(a, U) \in Nat
                      /\ a <= CeilDiv(a, U) * U /\ CeilDiv(a, U) * U < a + U
    /\ \A a, n \in Nat : a <= n * U /\ n * U < a + U => CeilDiv(a, U) = n
    /\ \A n \in Nat : CeilDiv(n * U, U) = n /\ (n * U) \div U = n
    /\ \A a, n \in Nat : a <= n * U => CeilDiv(a, U) <= n
    /\ \A a \in Nat : CeilDiv(a, U) = 0 <=> a = 0
    /\ \A a \in Nat : CeilDiv(a, U) <= a
<1>0. U \in Nat \ {0}
  BY ChunkAssumption
<1>1. ASSUME NEW a \in Nat
      PROVE  /\ CeilDiv(a, U) \in Nat
             /\ a <= CeilDiv(a, U) * U /\ CeilDiv(a, U) * U < a + U
  <2> DEFINE b == a + U - 1
             q == b \div U
             r == b % U
  <2>1. b \in Nat
    BY <1>0
  <2>2. q \in Nat /\ r \in 0 .. U - 1 /\ b = q * U + r /\ q * U \in Nat
    BY <1>0, <2>1
  <2> HIDE DEF q, r
  <2>3. a <= q * U /\ q * U < a + U
    <3> DEFINE p == q * U
    <3>1. p \in Nat /\ a + U - 1 = p + r
      BY <2>2
    <3> HIDE DEF p
    <3>2. a <= p /\ p < a + U
      BY <1>0, <2>2, <3>1
    <3> QED BY <3>2 DEF p
  <2> QED BY <2>2, <2>3 DEF q, CeilDiv
<1>2. ASSUME NEW m \in Nat, NEW n \in Nat, n * U < m * U + U
      PROVE  n <= m
  <2>1. SUFFICES ASSUME n >= m + 1 PROVE FALSE
    OBVIOUS
  <2>2. n = (m + 1) + (n - (m + 1)) /\ n - (m + 1) \in Nat
    BY <2>1
  <2>3. n * U = m * U + U + (n - (m + 1)) * U /\ (n - (m + 1)) * U \in Nat
    BY <1>0, <2>2
  <2>4. m * U \in Nat /\ n * U \in Nat
    BY <1>0
  <2> QED BY <1>0, <1>2, <2>3, <2>4
<1>3. ASSUME NEW a \in Nat, NEW n \in Nat, a <= n * U PROVE CeilDiv(a, U) <= n
  <2> DEFINE q == CeilDiv(a, U)
  <2>1. q \in Nat /\ q * U < a + U
    BY <1>1
  <2> HIDE DEF q
  <2>2. q * U \in Nat /\ n * U \in Nat
    BY <1>0, <2>1
  <2>3. q * U < n * U + U
    BY <1>0, <1>3, <2>1, <2>2
  <2> QED BY <1>2, <2>1, <2>3 DEF q
<1>4. ASSUME NEW a \in Nat, NEW n \in Nat, a <= n * U, n * U < a + U
      PROVE  CeilDiv(a, U) = n
  <2> DEFINE q == CeilDiv(a, U)
  <2>1. q \in Nat /\ a <= q * U
    BY <1>1
  <2>2. q <= n
    BY <1>3, <1>4
  <2> HIDE DEF q
  <2>3. q * U \in Nat /\ n * U \in Nat
    BY <1>0, <2>1
  <2>4. n * U < q * U + U
    BY <1>0, <1>4, <2>1, <2>3
  <2>5. n <= q
    BY <1>2, <2>1, <2>4
  <2>6. q = n
    BY <2>1, <2>2, <2>5
  <2> QED BY <2>6 DEF q
<1>5. ASSUME NEW n \in Nat PROVE CeilDiv(n * U, U) = n /\ (n * U) \div U = n
  <2>1. n * U \in Nat /\ n * U <= n * U /\ n * U < n * U + U
    BY <1>0
  <2>2. CeilDiv(n * U, U) = n
    BY <1>4, <2>1
  <2>3. (n * U + 0) \div U = n
    BY <1>0
  <2>4. n * U + 0 = n * U
    BY <2>1
  <2> QED BY <2>2, <2>3, <2>4
<1>6. ASSUME NEW a \in Nat PROVE CeilDiv(a, U) = 0 <=> a = 0
  <2>1. 0 * U = 0
    BY <1>0
  <2>2. a = 0 => CeilDiv(a, U) = 0
    BY <1>5, <2>1
  <2>3. CeilDiv(a, U) = 0 => a <= 0
    BY <1>1, <2>1
  <2> QED BY <2>2, <2>3
<1>7. ASSUME NEW a \in Nat PROVE CeilDiv(a, U) <= a
  <2>1. a <= a * U
    <3>1. a * U = a + a * (U - 1) /\ a * (U - 1) \in Nat
      BY <1>0
    <3>2. a * U \in Nat
      BY <1>0
    <3> QED BY <3>1, <3>2
  <2> QED BY <1>3, <2>1
<1> QED BY <1>1, <1>3, <1>4, <1>5, <1>6, <1>7

(* The cells of one chunk of many.                                         *)
LEMMA ChunkCells ==
    ASSUME NEW X, NEW cells \in Seq(X), NEW j \in Nat, (j + 1) * U <= Len(cells)
    PROVE  /\ ChunkAt(cells, j) \in ChunkOf(X)
           /\ \A k \in 1 .. U : ChunkAt(cells, j)[k] = cells[j * U + k]
<1>0. U \in Nat \ {0}
  BY ChunkAssumption
<1> DEFINE a == j * U
           b == (j + 1) * U
<1>1. a \in Nat /\ b = a + U /\ b <= Len(cells) /\ ChunkAt(cells, j) = SubSeq(cells, a + 1, b)
  BY <1>0 DEF ChunkAt
<1> HIDE DEF a, b
<1>3. \A k \in 1 .. U : a + k \in 1 .. Len(cells)
  BY <1>0, <1>1
<1>4. \A k \in 1 .. U : cells[a + k] \in X
  BY <1>3
<1> DEFINE t == SubSeq(cells, a + 1, b)
<1>5. t \in Seq(X) /\ Len(t) = U /\ \A k \in 1 .. U : t[k] = cells[a + k]
  <2>1. /\ a + 1 \in Int /\ b \in Int /\ \A i \in a + 1 .. b : cells[i] \in X
        /\ a + 1 <= b /\ b - (a + 1) + 1 = U
        /\ \A k \in 1 .. U : (a + 1) + k - 1 = a + k
    BY <1>0, <1>1
  <2>2. /\ t \in Seq(X)
        /\ Len(t) = IF a + 1 <= b THEN b - (a + 1) + 1 ELSE 0
        /\ \A k \in 1 .. b - (a + 1) + 1 : t[k] = cells[(a + 1) + k - 1]
    BY <2>1, SubSeqProperties
  <2> HIDE DEF t
  <2> QED BY <2>1, <2>2
<1> HIDE DEF t
<1>6. t \in ChunkOf(X)
  BY <1>0, <1>5 DEF ChunkOf
<1> QED BY <1>1, <1>5, <1>6 DEF a, t

(* A chunk is known by its cells.                                          *)
LEMMA SameChunk ==
    ASSUME NEW X, NEW a \in ChunkOf(X), NEW b \in ChunkOf(X),
           \A k \in 1 .. U : a[k] = b[k]
    PROVE  a = b
<1>1. a = [k \in 1 .. U |-> a[k]] /\ b = [k \in 1 .. U |-> b[k]]
  BY DEF ChunkOf
<1> QED BY <1>1

(* Sequences of chunks, flattened.                                         *)
LEMMA FlatChunks ==
    ASSUME NEW X, NEW cs \in Seq(ChunkOf(X))
    PROVE  /\ cs \in Seq(Seq(X)) /\ \A j \in 1 .. Len(cs) : Len(cs[j]) = U
           /\ FlattenSeq(cs) \in Seq(X)
           /\ Len(FlattenSeq(cs)) = Len(cs) * U
           /\ \A j \in 0 .. Len(cs) - 1 :
                 /\ ChunkAt(FlattenSeq(cs), j) = cs[j + 1]
                 /\ \A k \in 1 .. U : FlattenSeq(cs)[j * U + k] = cs[j + 1][k]
<1>0. U \in Nat \ {0}
  BY ChunkAssumption
<1>1. \A c \in ChunkOf(X) : c \in Seq(X) /\ Len(c) = U
  BY <1>0 DEF ChunkOf
<1>2. cs \in Seq(Seq(X)) /\ \A j \in 1 .. Len(cs) : cs[j] \in ChunkOf(X) /\ Len(cs[j]) = U
  BY <1>1
<1> DEFINE f == FlattenSeq(cs)
           p(i) == FlattenSeq(SubSeq(cs, 1, i))
<1>3. /\ f \in Seq(X)
      /\ p(Len(cs)) = f
      /\ \A i \in 0 .. Len(cs) :
            /\ p(i) \in Seq(X) /\ Len(p(i)) <= Len(f)
            /\ \A j \in 1 .. Len(p(i)) : f[j] = p(i)[j]
      /\ \A i \in 1 .. Len(cs) : p(i) = p(i - 1) \o cs[i]
  BY <1>2, FlattenPieces
<1>4. Len(f) = Len(cs) * U /\ \A i \in 0 .. Len(cs) : Len(p(i)) = i * U
  BY <1>0, <1>2, FlattenEven
<1>5. ASSUME NEW j \in 0 .. Len(cs) - 1
      PROVE  /\ \A k \in 1 .. U : f[j * U + k] = cs[j + 1][k]
             /\ (j + 1) * U <= Len(f) /\ j \in Nat
  <2> DEFINE q == p(j + 1)
             r == p(j)
             a == j * U
             b == (j + 1) * U
  <2>1. j + 1 \in 1 .. Len(cs) /\ j + 1 \in 0 .. Len(cs) /\ j \in 0 .. Len(cs) /\ (j + 1) - 1 = j
    OBVIOUS
  <2>2. /\ q \in Seq(X) /\ r \in Seq(X) /\ q = r \o cs[j + 1]
        /\ Len(q) <= Len(f) /\ \A i \in 1 .. Len(q) : f[i] = q[i]
    <3>1. p(j + 1) = p((j + 1) - 1) \o cs[j + 1]
      BY <1>3, <2>1
    <3>2. p((j + 1) - 1) = p(j)
      BY <2>1
    <3> QED BY <1>3, <2>1, <3>1, <3>2
  <2>3. Len(q) = b /\ Len(r) = a
    BY <1>4, <2>1
  <2>4. a \in Nat /\ b = a + U
    BY <1>0
  <2>5. cs[j + 1] \in Seq(X) /\ Len(cs[j + 1]) = U
    BY <1>1, <1>2, <2>1
  <2> HIDE DEF p, q, r, a, b, f
  <2>6. \A k \in 1 .. U : q[a + k] = cs[j + 1][k] /\ a + k \in 1 .. Len(q)
    <3> DEFINE e == cs[j + 1]
    <3>1. e \in Seq(X) /\ Len(e) = U /\ q = r \o e
      BY <2>2, <2>5
    <3> HIDE DEF e
    <3>2. r \in Seq(X) /\ Len(r) = a /\ Len(q) = b /\ U \in Nat
      BY <1>0, <2>2, <2>3
    <3>3. \A k \in 1 .. U : q[a + k] = e[k] /\ a + k \in 1 .. Len(q)
      BY ONLY <3>1, <3>2, <2>4
    <3> QED BY ONLY <3>3 DEF e
  <2>7. \A k \in 1 .. U : f[a + k] = cs[j + 1][k]
    BY <2>2, <2>6
  <2> QED BY <2>2, <2>3, <2>7 DEF a, b
<1> HIDE DEF f, p
<1>6. ASSUME NEW j \in 0 .. Len(cs) - 1
      PROVE  ChunkAt(f, j) = cs[j + 1]
  <2>1. /\ ChunkAt(f, j) \in ChunkOf(X)
        /\ \A k \in 1 .. U : ChunkAt(f, j)[k] = f[j * U + k]
    BY <1>3, <1>5, ChunkCells
  <2>2. cs[j + 1] \in ChunkOf(X)
    <3>1. j + 1 \in 1 .. Len(cs)
      OBVIOUS
    <3> QED BY <1>2, <3>1
  <2>3. \A k \in 1 .. U : ChunkAt(f, j)[k] = cs[j + 1][k]
    BY <1>5, <2>1
  <2> QED BY <2>1, <2>2, <2>3, SameChunk
<1> QED BY <1>2, <1>3, <1>4, <1>5, <1>6 DEF f

(* Whole chunks are known by the cells of each.                            *)
LEMMA SameCells ==
    ASSUME NEW X, NEW n \in Nat, NEW s \in Seq(X), NEW t \in Seq(X),
           Len(s) = n * U, Len(t) = n * U,
           \A j \in 0 .. n - 1, k \in 1 .. U : s[j * U + k] = t[j * U + k]
    PROVE  s = t
<1>0. U \in Nat \ {0}
  BY ChunkAssumption
<1>1. ASSUME NEW c \in 1 .. n * U PROVE s[c] = t[c]
  <2> DEFINE j == (c - 1) \div U
             k == c - j * U
  <2>1. j \in 0 .. n - 1 /\ k \in 1 .. U
    BY Position
  <2>2. c = j * U + k
    <3>1. n * U \in Nat /\ j \in Nat
      BY <1>0, <2>1
    <3> HIDE DEF j
    <3>2. j * U \in Nat /\ c \in Int
      BY <1>0, <3>1
    <3> QED BY <3>2
  <2> HIDE DEF j, k
  <2> QED BY <2>1, <2>2
<1>2. n * U \in Nat
  BY <1>0
<1> QED BY <1>1, <1>2

LEMMA ChunksExist ==
    ASSUME NEW X, NEW n \in Nat, NEW cells \in Seq(X), Len(cells) = n * U
    PROVE  \E cs \in Seq(ChunkOf(X)) : Len(cs) = n /\ FlattenSeq(cs) = cells
<1>0. U \in Nat \ {0}
  BY ChunkAssumption
<1> DEFINE cs == [j \in 1 .. n |-> ChunkAt(cells, j - 1)]
<1>1. ASSUME NEW j \in 1 .. n
      PROVE  /\ ChunkAt(cells, j - 1) \in ChunkOf(X)
             /\ \A k \in 1 .. U : ChunkAt(cells, j - 1)[k] = cells[(j - 1) * U + k]
  <2> DEFINE i == j - 1
  <2>1. i \in Nat /\ i + 1 = j /\ n - j \in Nat
    OBVIOUS
  <2> HIDE DEF i
  <2>2. (i + 1) * U <= Len(cells)
    <3>1. n * U = (i + 1) * U + (n - j) * U /\ (n - j) * U \in Nat /\ (i + 1) * U \in Nat
      BY <1>0, <2>1
    <3> QED BY <3>1
  <2>3. /\ ChunkAt(cells, i) \in ChunkOf(X)
        /\ \A k \in 1 .. U : ChunkAt(cells, i)[k] = cells[i * U + k]
    BY <2>1, <2>2, ChunkCells
  <2> QED BY <2>3 DEF i
<1>2. cs \in Seq(ChunkOf(X)) /\ Len(cs) = n /\ \A j \in 1 .. n : cs[j] = ChunkAt(cells, j - 1)
  BY <1>1
<1> HIDE DEF cs
<1>3. /\ FlattenSeq(cs) \in Seq(X) /\ Len(FlattenSeq(cs)) = n * U
      /\ \A j \in 0 .. n - 1, k \in 1 .. U : FlattenSeq(cs)[j * U + k] = cs[j + 1][k]
  BY <1>2, FlatChunks
<1>4. ASSUME NEW j \in 0 .. n - 1, NEW k \in 1 .. U
      PROVE  FlattenSeq(cs)[j * U + k] = cells[j * U + k]
  <2>1. j + 1 \in 1 .. n /\ (j + 1) - 1 = j
    OBVIOUS
  <2>2. cs[j + 1][k] = cells[((j + 1) - 1) * U + k]
    BY <1>1, <1>2, <2>1
  <2> QED BY <1>3, <2>1, <2>2
<1> DEFINE f == FlattenSeq(cs)
<1>5. f \in Seq(X) /\ Len(f) = n * U /\ \A j \in 0 .. n - 1, k \in 1 .. U : f[j * U + k] = cells[j * U + k]
  BY <1>3, <1>4
<1> HIDE DEF f
<1>6. f = cells
  BY <1>5, SameCells
<1> QED BY <1>2, <1>6 DEF f

---------------------------------------------------------------------------
(***************************************************************************)
(* Levels: the chunks of a layer, and of each layer above it.              *)
(***************************************************************************)
LEMMA ChunkTypes ==
    ASSUME NEW X, IsUniverse(X)
    PROVE  /\ Zero \in X /\ Stale \in X /\ DigestTail \in X
           /\ ZeroChunk \in ChunkOf(X)
           /\ \A l, r \in ChunkOf(X) : hashPair(l, r) \in ChunkOf(X)
           /\ \A n \in Nat : Zeros(n) \in Seq(X) /\ Len(Zeros(n)) = n
           /\ \A n \in Nat : LengthChunk(n) \in ChunkOf(X)
<1>0. U \in Nat \ {0}
  BY ChunkAssumption
<1>1. Zero \in X /\ Stale \in X /\ DigestTail \in X
  <2>1. 0 \in Int /\ -1 \in Int /\ -2 \in Int
    OBVIOUS
  <2> QED BY <2>1 DEF IsUniverse, Zero, Stale, DigestTail
<1>2. ZeroChunk \in ChunkOf(X)
  BY <1>0, <1>1 DEF ZeroChunk, Zeros, ChunkOf
<1>3. \A l, r \in ChunkOf(X) : hashPair(l, r) \in ChunkOf(X)
  <2> TAKE l, r \in ChunkOf(X)
  <2>1. <<l, r>> \in X
    BY DEF IsUniverse, PairsOf
  <2> QED BY <1>1, <2>1 DEF hashPair, ChunkOf
<1>4. \A n \in Nat : Zeros(n) \in Seq(X) /\ Len(Zeros(n)) = n
  <2> TAKE n \in Nat
  <2>1. Zeros(n) \in [1 .. n -> X]
    BY <1>1 DEF Zeros
  <2> QED BY <2>1, FunctionIsSeq
<1>5. ASSUME NEW n \in Nat PROVE LengthChunk(n) \in ChunkOf(X)
  <2> DEFINE a == << <<n>> >>
             z == Zeros(U - 1)
  <2>1. U - 1 \in Nat /\ n \in Int
    BY <1>0
  <2>2. <<n>> \in X
    BY <2>1 DEF IsUniverse
  <2>3. a \in Seq(X) /\ Len(a) = 1
    BY <2>2
  <2>4. z \in Seq(X) /\ Len(z) = U - 1
    BY <1>4, <2>1
  <2> HIDE DEF a, z
  <2>5. a \o z \in Seq(X) /\ Len(a \o z) = U
    <3>1. a \o z \in Seq(X) /\ Len(a \o z) = Len(a) + Len(z)
      BY <2>3, <2>4, ConcatProperties
    <3> QED BY <1>0, <2>3, <2>4, <3>1
  <2> DEFINE b == a \o z
  <2> HIDE DEF b
  <2>6. b \in [1 .. U -> X]
    <3>1. b \in Seq(X) /\ Len(b) = U
      BY <2>5 DEF b
    <3> QED BY <1>0, <3>1
  <2> QED BY <2>6 DEF ChunkOf, LengthChunk, a, b, z
<1> QED BY <1>1, <1>2, <1>3, <1>4, <1>5

LEMMA ZeroHashes ==
    /\ zeroHashes[0] = ZeroChunk
    /\ \A i \in 1 .. MaxTreeDepth :
          zeroHashes[i] = hashPair(zeroHashes[i - 1], zeroHashes[i - 1])
    /\ \A X : IsUniverse(X) => \A i \in 0 .. MaxTreeDepth : zeroHashes[i] \in ChunkOf(X)
<1>0. MaxTreeDepth \in Nat
  BY ChunkAssumption
<1> DEFINE M == MaxTreeDepth
           Rec(f) == f = [i \in 0 .. M |->
                            IF i = 0 THEN ZeroChunk ELSE hashPair(f[i - 1], f[i - 1])]
<1>1. PICK X : IsUniverse(X)
  BY UniverseExists
<1>2. \E f : Rec(f)
  <2> DEFINE D == ChunkOf(X)
             step == [i \in 1 .. M |-> [x \in D |-> hashPair(x, x)]]
  <2>1. ZeroChunk \in D /\ \A x \in D : hashPair(x, x) \in D
    BY <1>1, ChunkTypes
  <2> HIDE DEF D, M
  <2>2. step \in [1 .. M -> [D -> D]] /\ \A i \in 1 .. M, x \in D : step[i][x] = hashPair(x, x)
    BY <2>1
  <2> HIDE DEF step
  <2>3. M \in Nat
    BY <1>0 DEF M
  <2>4. PICK f \in [0 .. M -> D] : Steps(f, M, ZeroChunk, step)
    BY <2>1, <2>2, <2>3, StepsExist, Zenon
  <2>5. ASSUME NEW i \in 0 .. M
        PROVE  f[i] = IF i = 0 THEN ZeroChunk ELSE hashPair(f[i - 1], f[i - 1])
    <3>1. CASE i = 0
      BY <2>4, <3>1 DEF Steps
    <3>2. CASE i # 0
      <4>1. i \in 1 .. M /\ i - 1 \in 0 .. M
        BY <2>3, <3>2
      <4>2. f[i - 1] \in D /\ f[i] = step[i][f[i - 1]]
        BY <2>4, <4>1 DEF Steps
      <4> QED BY <2>2, <3>2, <4>1, <4>2
    <3> QED BY <3>1, <3>2
  <2>6. f = [i \in 0 .. M |-> f[i]]
    BY <2>4
  <2>7. Rec(f)
    BY <2>5, <2>6
  <2> QED BY <2>7
<1>3. Rec(CHOOSE f : Rec(f))
  BY <1>2
<1> DEFINE z == CHOOSE f : Rec(f)
<1>4. zeroHashes = z
  BY DEF zeroHashes
<1>5. \A i \in 0 .. M : z[i] = IF i = 0 THEN ZeroChunk ELSE hashPair(z[i - 1], z[i - 1])
  <2>1. Rec(z)
    BY <1>3
  <2> HIDE DEF z
  <2> QED BY <2>1
<1> HIDE DEF z, Rec
<1>6. z[0] = ZeroChunk /\ \A i \in 1 .. M : z[i] = hashPair(z[i - 1], z[i - 1])
  <2>1. 0 \in 0 .. M /\ \A i \in 1 .. M : i \in 0 .. M /\ i # 0
    BY <1>0
  <2> QED BY <1>5, <2>1
<1>7. ASSUME NEW Y, IsUniverse(Y) PROVE \A i \in 0 .. M : z[i] \in ChunkOf(Y)
  <2> DEFINE T == {i \in Nat : i <= M => z[i] \in ChunkOf(Y)}
  <2>1. 0 \in T
    BY <1>6, <1>7, ChunkTypes
  <2>2. ASSUME NEW i \in Nat, i \in T PROVE i + 1 \in T
    <3>1. SUFFICES ASSUME i + 1 <= M PROVE z[i + 1] \in ChunkOf(Y)
      OBVIOUS
    <3>2. z[i] \in ChunkOf(Y)
      BY <1>0, <2>2, <3>1
    <3>3. i + 1 \in 1 .. M /\ (i + 1) - 1 = i
      BY <1>0, <3>1
    <3>4. z[i + 1] = hashPair(z[i], z[i])
      BY <1>6, <3>3
    <3> QED BY <1>7, <3>2, <3>4, ChunkTypes
  <2> HIDE DEF T
  <2>3. \A i \in Nat : i \in T
    BY <2>1, <2>2, SetInduction
  <2> QED BY <2>3 DEF T
<1> QED BY <1>4, <1>6, <1>7

(* The depth for a limit that a tree of the greatest depth has room for.   *)
LEMMA DepthIs ==
    ASSUME NEW n \in Nat, n <= 2^MaxTreeDepth
    PROVE  /\ DepthFor(n) \in 0 .. MaxTreeDepth
           /\ n <= 2^DepthFor(n)
           /\ \A e \in 0 .. DepthFor(n) - 1 : 2^e < n
           /\ n <= 1 => DepthFor(n) = 0
           /\ n > 1 => DepthFor(n) > 0
<1>0. MaxTreeDepth \in Nat
  BY ChunkAssumption
<1> DEFINE T == {d \in 0 .. MaxTreeDepth : n <= 2^d}
<1>1. MaxTreeDepth \in T
  BY <1>0
<1>2. PICK d \in T : \A e \in T : d <= e
  <2>1. T \in SUBSET Nat /\ T # {}
    BY <1>1
  <2> HIDE DEF T
  <2> QED BY <2>1, LeastNat
<1>3. \A e \in 0 .. d - 1 : 2^e < n
  <2> TAKE e \in 0 .. d - 1
  <2>1. e \in 0 .. MaxTreeDepth /\ ~ (d <= e)
    BY <1>0, <1>2
  <2>2. e \notin T
    BY <1>2, <2>1
  <2>3. ~ (n <= 2^e)
    BY <2>1, <2>2
  <2>4. 2^e \in Nat
    BY <2>1, TwoPowers
  <2> QED BY <2>3, <2>4
<1> DEFINE P(x) == 2^x >= n /\ \A e \in 0 .. x - 1 : 2^e < n
<1>4. d \in 0 .. MaxTreeDepth /\ P(d)
  <2>1. d \in 0 .. MaxTreeDepth /\ n <= 2^d
    BY <1>2
  <2>2. 2^d \in Nat
    BY <2>1, TwoPowers
  <2>3. 2^d >= n
    BY <2>1, <2>2
  <2> QED BY <1>3, <2>1, <2>3
<1> DEFINE c == CHOOSE x \in 0 .. MaxTreeDepth : P(x)
<1>5. DepthFor(n) = c
  BY DEF DepthFor
<1>6. c \in 0 .. MaxTreeDepth /\ P(c)
  BY <1>4
<1> HIDE DEF c
<1>7. n <= 2^c
  <2>1. 2^c \in Nat
    BY <1>6, TwoPowers
  <2> QED BY <1>6, <2>1
<1>8. n <= 1 => c = 0
  <2>1. SUFFICES ASSUME n <= 1, c # 0 PROVE FALSE
    OBVIOUS
  <2>2. 0 \in 0 .. c - 1
    BY <1>6, <2>1
  <2>3. 2^0 < n
    BY <1>6, <2>2
  <2> QED BY <2>1, <2>3, TwoPowers
<1>9. n > 1 => c > 0
  <2>1. SUFFICES ASSUME n > 1, c = 0 PROVE FALSE
    BY <1>6
  <2>2. n <= 2^0
    BY <1>7, <2>1
  <2>3. n <= 1
    BY <2>2, TwoPowers
  <2> QED BY <2>1, <2>3
<1> QED BY <1>5, <1>6, <1>7, <1>8, <1>9

(* The layer above: the hashes of pairs, z beside a last one that is alone.*)
LayerAbove(cs, z) ==
    [p \in 1 .. (Len(cs) + 1) \div 2 |->
        hashPair(cs[2 * p - 1], IF 2 * p <= Len(cs) THEN cs[2 * p] ELSE z)]

(* The layers over cs, up to the d-th.                                     *)
IsLevels(L, cs, d) ==
    L[0] = cs /\ \A e \in 1 .. d : L[e] = LayerAbove(L[e - 1], zeroHashes[e - 1])

LEMMA AboveType ==
    ASSUME NEW X, IsUniverse(X), NEW cs \in Seq(ChunkOf(X)), NEW z \in ChunkOf(X)
    PROVE  /\ LayerAbove(cs, z) \in Seq(ChunkOf(X))
           /\ Len(LayerAbove(cs, z)) = (Len(cs) + 1) \div 2
           /\ \A p \in 1 .. (Len(cs) + 1) \div 2 :
                 /\ 2 * p - 1 \in 1 .. Len(cs)
                 /\ LayerAbove(cs, z)[p] =
                      hashPair(cs[2 * p - 1], IF 2 * p <= Len(cs) THEN cs[2 * p] ELSE z)
<1> DEFINE m == (Len(cs) + 1) \div 2
           el(p) == hashPair(cs[2 * p - 1], IF 2 * p <= Len(cs) THEN cs[2 * p] ELSE z)
<1>1. m \in Nat /\ \A p \in 1 .. m : 2 * p - 1 \in 1 .. Len(cs)
  OBVIOUS
<1>2. ASSUME NEW p \in 1 .. m PROVE el(p) \in ChunkOf(X)
  <2>1. cs[2 * p - 1] \in ChunkOf(X)
    BY <1>1
  <2>2. (IF 2 * p <= Len(cs) THEN cs[2 * p] ELSE z) \in ChunkOf(X)
    <3>1. 2 * p <= Len(cs) => 2 * p \in 1 .. Len(cs)
      BY <1>1
    <3> QED BY <3>1
  <2> QED BY <2>1, <2>2, ChunkTypes
<1>3. LayerAbove(cs, z) = [p \in 1 .. m |-> el(p)]
  BY DEF LayerAbove
<1> HIDE DEF m, el
<1>4. LayerAbove(cs, z) \in [1 .. m -> ChunkOf(X)] /\ \A p \in 1 .. m : LayerAbove(cs, z)[p] = el(p)
  BY <1>2, <1>3
<1>5. LayerAbove(cs, z) \in Seq(ChunkOf(X)) /\ Len(LayerAbove(cs, z)) = m
  BY <1>1, <1>4, FunctionIsSeq
<1> QED BY <1>1, <1>4, <1>5 DEF m, el

(* Layers up to a last one of one chunk.                                   *)
LevelsOf(X, cs, d) ==
    {L \in [0 .. d -> Seq(ChunkOf(X))] :
        /\ IsLevels(L, cs, d)
        /\ \A e \in 0 .. d : Len(L[e]) = 0 <=> cs = << >>
        /\ cs # << >> => Len(L[d]) = 1}

LEMMA LevelsExist ==
    ASSUME NEW X, NEW cs, NEW d, IsUniverse(X), cs \in Seq(ChunkOf(X)),
           d \in 0 .. MaxTreeDepth, Len(cs) <= 2^d
    PROVE  \E L : L \in LevelsOf(X, cs, d)
<1>0. MaxTreeDepth \in Nat /\ d \in Nat
  BY ChunkAssumption
<1> DEFINE D == Seq(ChunkOf(X))
           step == [e \in 1 .. d |-> [x \in D |-> LayerAbove(x, zeroHashes[e - 1])]]
<1>1. ASSUME NEW e \in 1 .. d
      PROVE  zeroHashes[e - 1] \in ChunkOf(X)
  <2>1. e - 1 \in 0 .. MaxTreeDepth
    BY <1>0
  <2> QED BY <2>1, ZeroHashes
<1>2. \A e \in 1 .. d, x \in D : /\ LayerAbove(x, zeroHashes[e - 1]) \in D
                                 /\ Len(LayerAbove(x, zeroHashes[e - 1])) = (Len(x) + 1) \div 2
                                 /\ Len(x) \in Nat
  BY <1>1, AboveType
<1>3. cs \in D
  OBVIOUS
<1>3a. \A x \in D : Len(x) \in Nat
  OBVIOUS
<1> HIDE DEF D
<1>4. step \in [1 .. d -> [D -> D]]
      /\ \A e \in 1 .. d, x \in D : step[e][x] = LayerAbove(x, zeroHashes[e - 1])
  BY <1>2
<1> HIDE DEF step
<1>5. PICK L \in [0 .. d -> D] : Steps(L, d, cs, step)
  BY <1>0, <1>3, <1>4, StepsExist, Zenon
<1>6. ASSUME NEW e \in 1 .. d
      PROVE  /\ L[e] = LayerAbove(L[e - 1], zeroHashes[e - 1])
             /\ Len(L[e]) = (Len(L[e - 1]) + 1) \div 2
             /\ L[e - 1] \in D
  <2>1. L[e - 1] \in D
    <3>1. e - 1 \in 0 .. d
      BY <1>0
    <3> QED BY <1>5, <3>1
  <2>2. L[e] = step[e][L[e - 1]]
    BY <1>5 DEF Steps
  <2> QED BY <1>2, <1>4, <2>1, <2>2
<1>7. L[0] = cs
  BY <1>5 DEF Steps
<1>8. \A e \in Nat : e <= d => Len(L[e]) <= 2^(d - e) /\ (Len(L[e]) = 0 <=> Len(cs) = 0)
  <2> DEFINE T == {e \in Nat : e <= d => Len(L[e]) <= 2^(d - e) /\ (Len(L[e]) = 0 <=> Len(cs) = 0)}
  <2>1. 0 \in T
    <3>1. d - 0 = d
      BY <1>0
    <3> QED BY <1>7, <3>1
  <2>2. ASSUME NEW e \in Nat, e \in T PROVE e + 1 \in T
    <3>1. SUFFICES ASSUME e + 1 <= d
                   PROVE  Len(L[e + 1]) <= 2^(d - (e + 1)) /\ (Len(L[e + 1]) = 0 <=> Len(cs) = 0)
      OBVIOUS
    <3> DEFINE k == d - (e + 1)
               p == 2^k
               q == 2^(d - e)
               m == Len(L[e])
               n == Len(L[e + 1])
    <3>2. k \in Nat /\ d - e = k + 1
      BY <1>0, <3>1
    <3>3. q = 2 * p /\ p \in Nat
      BY <3>2, TwoPowers
    <3>4. m <= q /\ (m = 0 <=> Len(cs) = 0)
      BY <1>0, <2>2, <3>1
    <3>5. n = (m + 1) \div 2 /\ m \in Nat
      <4>1. e + 1 \in 1 .. d /\ (e + 1) - 1 = e
        BY <1>0, <3>1
      <4> QED BY <1>3a, <1>6, <4>1
    <3> HIDE DEF p, q, m, n, k
    <3>6. n <= p /\ (n = 0 <=> m = 0)
      BY <3>3, <3>4, <3>5
    <3> QED BY <3>4, <3>6 DEF n, p, k
  <2> HIDE DEF T
  <2>3. \A e \in Nat : e \in T
    BY <2>1, <2>2, SetInduction
  <2> QED BY <2>3 DEF T
<1>9. \A e \in 0 .. d : Len(L[e]) <= 2^(d - e) /\ (Len(L[e]) = 0 <=> cs = << >>)
  <2>1. Len(cs) = 0 <=> cs = << >>
    OBVIOUS
  <2> QED BY <1>8, <2>1
<1>10. cs # << >> => Len(L[d]) = 1
  <2>1. d \in 0 .. d /\ d - d = 0 /\ 2^0 = 1
    BY <1>0, TwoPowers
  <2>2. Len(L[d]) <= 1
    <3>1. 2^(d - d) = 1
      BY <2>1
    <3>2. Len(L[d]) <= 2^(d - d)
      BY <1>9, <2>1
    <3> QED BY <3>1, <3>2
  <2>3. Len(L[d]) \in Nat
    BY <1>3a, <1>5, <2>1
  <2>4. Len(L[d]) = 0 <=> cs = << >>
    BY <1>9, <2>1
  <2> DEFINE n == Len(L[d])
  <2> HIDE DEF n
  <2>5. n \in Nat /\ n <= 1 /\ (n = 0 <=> cs = << >>)
    BY <2>2, <2>3, <2>4 DEF n
  <2>6. cs # << >> => n = 1
    BY <2>5
  <2> QED BY <2>6 DEF n
<1>11. IsLevels(L, cs, d)
  BY <1>6, <1>7 DEF IsLevels
<1> QED BY <1>5, <1>9, <1>10, <1>11 DEF D, LevelsOf

(* The reference goes through the same layers, with zero hashes up to      *)
(* their ends.                                                             *)
LEMMA RootIs ==
    ASSUME NEW X, NEW cells, NEW cs, NEW limit, NEW L, IsUniverse(X),
           cs \in Seq(ChunkOf(X)), Padded(cells) = FlattenSeq(cs),
           limit \in Nat, limit <= 2^MaxTreeDepth,
           L \in LevelsOf(X, cs, DepthFor(limit))
    PROVE  Root(cells, limit) =
             IF cs = << >> THEN zeroHashes[DepthFor(limit)] ELSE L[DepthFor(limit)][1]
<1>0. U \in Nat \ {0} /\ MaxTreeDepth \in Nat
  BY ChunkAssumption
<1> DEFINE d == DepthFor(limit)
           p == Padded(cells)
           Row0 == [j \in 0 .. 2^d - 1 |-> IF (j + 1) * U <= Len(p) THEN ChunkAt(p, j)
                                           ELSE ZeroChunk]
           Row(e, f) == [j \in 0 .. 2^(d - e) - 1 |->
                            hashPair(f[e - 1][2 * j], f[e - 1][2 * j + 1])]
           Rec(f) == f = [e \in 0 .. d |-> IF e = 0 THEN Row0 ELSE Row(e, f)]
           c == CHOOSE f : Rec(f)
<1>1. Root(cells, limit) = c[d][0]
  BY DEF Root
<1>2. d \in 0 .. MaxTreeDepth /\ d \in Nat
  BY DepthIs
<1>2a. /\ L \in [0 .. d -> Seq(ChunkOf(X))] /\ IsLevels(L, cs, d)
       /\ \A e \in 0 .. d : Len(L[e]) = 0 <=> cs = << >>
       /\ cs # << >> => Len(L[d]) = 1
  BY DEF LevelsOf
<1> DEFINE V(e, j) == IF j < Len(L[e]) THEN L[e][j + 1] ELSE zeroHashes[e]
           v == [e \in 0 .. d |-> [j \in 0 .. 2^(d - e) - 1 |-> V(e, j)]]
<1>3. ASSUME NEW j \in 0 .. 2^d - 1
      PROVE  V(0, j) = IF (j + 1) * U <= Len(p) THEN ChunkAt(p, j) ELSE ZeroChunk
  <2>1. L[0] = cs /\ zeroHashes[0] = ZeroChunk
    BY <1>2a, ZeroHashes DEF IsLevels
  <2>2. Len(p) = Len(cs) * U /\ \A i \in 0 .. Len(cs) - 1 : ChunkAt(p, i) = cs[i + 1]
    BY FlatChunks
  <2> DEFINE n == Len(cs)
  <2>3. n \in Nat /\ j \in Nat
    BY <1>2, TwoPowers
  <2> HIDE DEF n, p, d
  <2>4. (j + 1) * U <= n * U <=> j < n
    <3>1. CASE j < n
      <4>1. n * U = (j + 1) * U + (n - (j + 1)) * U /\ (n - (j + 1)) * U \in Nat /\ (j + 1) * U \in Nat
        BY <1>0, <2>3, <3>1
      <4> QED BY <3>1, <4>1
    <3>2. CASE n <= j
      <4>1. (j + 1) * U = n * U + U + (j - n) * U /\ (j - n) * U \in Nat /\ n * U \in Nat
        BY <1>0, <2>3, <3>2
      <4>2. ~ ((j + 1) * U <= n * U)
        BY <1>0, <4>1
      <4> QED BY <2>3, <3>2, <4>2
    <3> QED BY <2>3, <3>1, <3>2
  <2>5. CASE j < n
    <3>1. j \in 0 .. n - 1
      BY <2>3, <2>5
    <3>2. ChunkAt(p, j) = cs[j + 1]
      BY <2>2, <3>1 DEF n
    <3> QED BY <2>1, <2>2, <2>4, <2>5, <3>2 DEF n
  <2>6. CASE ~ (j < n)
    BY <2>1, <2>2, <2>4, <2>6 DEF n
  <2> QED BY <2>5, <2>6
<1>4. ASSUME NEW e \in 1 .. d, NEW j \in 0 .. 2^(d - e) - 1
      PROVE  /\ V(e, j) = hashPair(V(e - 1, 2 * j), V(e - 1, 2 * j + 1))
             /\ 2 * j \in 0 .. 2^(d - (e - 1)) - 1 /\ 2 * j + 1 \in 0 .. 2^(d - (e - 1)) - 1
             /\ e - 1 \in 0 .. d
  <2> DEFINE x == e - 1
             a == L[x]
             z == zeroHashes[x]
  <2>1. x \in 0 .. d /\ x + 1 = e /\ e \in 1 .. MaxTreeDepth /\ x \in 0 .. MaxTreeDepth
    BY <1>0, <1>2
  <2>2. a \in Seq(ChunkOf(X)) /\ z \in ChunkOf(X) /\ L[e] = LayerAbove(a, z)
        /\ zeroHashes[e] = hashPair(z, z)
    BY <1>2a, <2>1, ZeroHashes DEF IsLevels
  <2>3. j \in Nat /\ 2 * j \in 0 .. 2^(d - x) - 1 /\ 2 * j + 1 \in 0 .. 2^(d - x) - 1
    <3> DEFINE k == d - e
               r == 2^k
               q == 2^(d - x)
    <3>1. k \in Nat /\ d - x = k + 1
      BY <1>2, <2>1
    <3>2. q = 2 * r /\ r \in Nat /\ j \in 0 .. r - 1
      BY <3>1, TwoPowers
    <3> HIDE DEF q, r
    <3>3. j \in Nat /\ 2 * j \in 0 .. q - 1 /\ 2 * j + 1 \in 0 .. q - 1
      BY <3>2
    <3> QED BY <3>3 DEF q
  <2>4. V(e, j) = hashPair(V(x, 2 * j), V(x, 2 * j + 1))
    <3> HIDE DEF x, a, z
    <3>1. /\ Len(L[e]) = (Len(a) + 1) \div 2
          /\ \A i \in 1 .. (Len(a) + 1) \div 2 :
                L[e][i] = hashPair(a[2 * i - 1], IF 2 * i <= Len(a) THEN a[2 * i] ELSE z)
      BY ONLY IsUniverse(X), <2>2, AboveType
    <3> DEFINE m == Len(a)
    <3>2. m \in Nat
      BY <2>2
    <3>3. V(x, 2 * j) = IF 2 * j < m THEN a[2 * j + 1] ELSE z
      BY DEF a, z
    <3>4. V(x, 2 * j + 1) = IF 2 * j + 1 < m THEN a[(2 * j + 1) + 1] ELSE z
      BY DEF a, z
    <3>5. V(e, j) = IF j < Len(L[e]) THEN L[e][j + 1] ELSE zeroHashes[e]
      OBVIOUS
    <3> HIDE DEF V, m
    <3>6. CASE j < (m + 1) \div 2
      <4>1. j + 1 \in 1 .. (m + 1) \div 2 /\ 2 * (j + 1) - 1 = 2 * j + 1
            /\ 2 * (j + 1) = (2 * j + 1) + 1 /\ 2 * j < m
            /\ (2 * (j + 1) <= m <=> 2 * j + 1 < m)
        BY <2>3, <3>2, <3>6
      <4>2. L[e][j + 1] = hashPair(a[2 * (j + 1) - 1],
                                   IF 2 * (j + 1) <= m THEN a[2 * (j + 1)] ELSE z)
        BY <3>1, <4>1 DEF m
      <4> QED BY <3>1, <3>3, <3>4, <3>5, <3>6, <4>1, <4>2 DEF m
    <3>7. CASE ~ (j < (m + 1) \div 2)
      <4>1. ~ (2 * j < m) /\ ~ (2 * j + 1 < m)
        BY <2>3, <3>2, <3>7
      <4> QED BY <2>2, <3>1, <3>3, <3>4, <3>5, <3>7, <4>1 DEF m
    <3> QED BY <3>6, <3>7
  <2> QED BY <2>1, <2>3, <2>4 DEF x
<1>5. V(d, 0) = IF cs = << >> THEN zeroHashes[d] ELSE L[d][1]
  <2>1. d \in 0 .. d
    BY <1>2
  <2> DEFINE m == Len(L[d])
  <2>2. (m = 0 <=> cs = << >>) /\ (cs # << >> => m = 1)
    BY <1>2a, <2>1
  <2>3. V(d, 0) = IF 0 < m THEN L[d][0 + 1] ELSE zeroHashes[d]
    OBVIOUS
  <2> HIDE DEF V, m, d
  <2> QED BY <2>2, <2>3
<1> HIDE DEF V
<1>6. /\ \A e \in 0 .. d : v[e] = [j \in 0 .. 2^(d - e) - 1 |-> V(e, j)]
      /\ v = [e \in 0 .. d |-> v[e]]
  OBVIOUS
<1> HIDE DEF v, p, d
<1>7. v[0] = Row0
  <2>1. 0 \in 0 .. d /\ d - 0 = d
    BY <1>2
  <2>2. v[0] = [j \in 0 .. 2^d - 1 |-> V(0, j)]
    BY <1>6, <2>1
  <2> QED BY <1>3, <2>2
<1>8. ASSUME NEW e \in 1 .. d PROVE v[e] = Row(e, v)
  <2>1. e - 1 \in 0 .. d /\ e \in 0 .. d
    BY <1>2
  <2>2. ASSUME NEW j \in 0 .. 2^(d - e) - 1
        PROVE  V(e, j) = hashPair(v[e - 1][2 * j], v[e - 1][2 * j + 1])
    <3>1. v[e - 1] = [i \in 0 .. 2^(d - (e - 1)) - 1 |-> V(e - 1, i)]
      BY <1>6, <2>1
    <3> QED BY <1>4, <3>1
  <2>3. v[e] = [j \in 0 .. 2^(d - e) - 1 |-> V(e, j)]
    BY <1>6, <2>1
  <2> QED BY <2>2, <2>3
<1>9. Rec(v)
  <2> HIDE DEF Row0, Row
  <2>1. \A e \in 0 .. d : e # 0 => e \in 1 .. d
    BY <1>2
  <2>2. \A e \in 0 .. d : v[e] = IF e = 0 THEN Row0 ELSE Row(e, v)
    BY <1>7, <1>8, <2>1
  <2> QED BY <1>6, <2>2
<1>10. Rec(c)
  BY <1>9
<1>11. (c[0] = v[0]) /\ \A e \in 1 .. d : c[e - 1] = v[e - 1] => c[e] = v[e]
  <2> HIDE DEF c, Row0
  <2>1. \A e \in 0 .. d : c[e] = IF e = 0 THEN Row0 ELSE Row(e, c)
    <3> HIDE DEF Row
    <3> QED BY <1>10
  <2>2. \A e \in 1 .. d : e \in 0 .. d /\ e # 0
    BY <1>2
  <2>3. \A e \in 1 .. d : c[e] = Row(e, c) /\ v[e] = Row(e, v)
    <3> HIDE DEF Row
    <3> QED BY <1>8, <2>1, <2>2
  <2>4. c[0] = Row0
    <3> HIDE DEF Row
    <3>1. 0 \in 0 .. d
      BY <1>2
    <3> QED BY <2>1, <3>1
  <2> QED BY <1>7, <2>3, <2>4
<1> HIDE DEF c, Rec
<1>12. c[d] = v[d]
  <2>1. c[0] = v[0]
    BY <1>11
  <2>2. \A e \in 1 .. d : c[e - 1] = v[e - 1] => c[e] = v[e]
    BY <1>11
  <2>3. d \in Nat
    BY <1>2
  <2>4. \A e \in 0 .. d : c[e] = v[e]
    BY ONLY <2>1, <2>2, <2>3, StepsAgree
  <2> QED BY <2>3, <2>4
<1>13. v[d][0] = V(d, 0)
  <2>1. d - d = 0 /\ d \in 0 .. d
    BY <1>2
  <2>2. 2^(d - d) = 1
    BY <2>1, TwoPowers
  <2>3. v[d] = [j \in 0 .. 2^(d - d) - 1 |-> V(d, j)]
    BY <1>6, <2>1
  <2>4. v[d] = [j \in 0 .. 0 |-> V(d, j)]
    BY <2>2, <2>3
  <2> QED BY <2>4
<1>14. Root(cells, limit) = V(d, 0)
  BY <1>1, <1>12, <1>13
<1> QED BY <1>5, <1>14 DEF d

---------------------------------------------------------------------------
(***************************************************************************)
(* The hasher's layers.                                                    *)
(***************************************************************************)
(* What padding does: whole chunks, with zeros behind the cells.           *)
LEMMA PaddedIs ==
    ASSUME NEW X, IsUniverse(X), NEW cells \in Seq(X)
    PROVE  /\ Padded(cells) \in Seq(X)
           /\ Len(Padded(cells)) = CeilDiv(Len(cells), U) * U
           /\ Len(cells) <= Len(Padded(cells)) /\ Len(Padded(cells)) < Len(cells) + U
           /\ Padded(cells) = cells \o Zeros(Len(Padded(cells)) - Len(cells))
           /\ \A i \in 1 .. Len(Padded(cells)) :
                 Padded(cells)[i] = IF i <= Len(cells) THEN cells[i] ELSE Zero
           /\ \A n \in Nat : Len(cells) = n * U => Padded(cells) = cells
           /\ \E cs \in Seq(ChunkOf(X)) : /\ Len(cs) = CeilDiv(Len(cells), U)
                                          /\ FlattenSeq(cs) = Padded(cells)
<1>0. U \in Nat \ {0}
  BY ChunkAssumption
<1> DEFINE n == Len(cells)
           q == CeilDiv(n, U)
           a == q * U
           p == Padded(cells)
           z == Zeros(a - n)
<1>1. n \in Nat /\ q \in Nat /\ a \in Nat /\ n <= a /\ a < n + U
  <2>1. n \in Nat
    OBVIOUS
  <2>2. q \in Nat /\ n <= q * U /\ q * U < n + U
    BY <2>1, CeilIs
  <2> QED BY <1>0, <2>1, <2>2
<1>2. p = cells \o z
  BY DEF Padded
<1>3. z \in Seq(X) /\ Len(z) = a - n /\ \A i \in 1 .. a - n : z[i] = Zero
  <2>1. a - n \in Nat
    BY <1>1
  <2> HIDE DEF a, n, q
  <2>2. z \in Seq(X) /\ Len(z) = a - n
    BY <2>1, ChunkTypes
  <2>3. \A i \in 1 .. a - n : z[i] = Zero
    BY DEF Zeros
  <2> QED BY <2>2, <2>3
<1>4. /\ p \in Seq(X) /\ Len(p) = a
      /\ \A i \in 1 .. Len(p) : p[i] = IF i <= n THEN cells[i] ELSE Zero
  <2> HIDE DEF p, z, a, q
  <2>1. /\ p \in Seq(X) /\ Len(p) = Len(cells) + Len(z)
        /\ \A i \in 1 .. Len(cells) + Len(z) :
              p[i] = IF i <= Len(cells) THEN cells[i] ELSE z[i - Len(cells)]
    BY <1>2, <1>3, ConcatProperties
  <2>2. Len(p) = a
    BY <1>1, <1>3, <2>1
  <2>3. ASSUME NEW i \in 1 .. Len(p) PROVE p[i] = IF i <= n THEN cells[i] ELSE Zero
    <3>1. ~ (i <= n) => i - n \in 1 .. a - n
      BY <1>1, <2>2
    <3> QED BY <1>3, <2>1, <2>2, <3>1
  <2> QED BY <2>1, <2>2, <2>3
<1>5. ASSUME NEW m \in Nat, n = m * U PROVE p = cells
  <2>1. q = m
    BY <1>5, CeilIs
  <2>2. a = n
    BY <1>5, <2>1
  <2> HIDE DEF a, n, p, q, z
  <2>3. Len(p) = Len(cells) /\ \A i \in 1 .. Len(p) : p[i] = cells[i]
    <3>1. Len(p) = n
      BY <1>4, <2>2
    <3>2. Len(cells) = n
      BY DEF n
    <3>3. \A i \in 1 .. Len(p) : i <= n
      BY <1>1, <3>1
    <3> QED BY <1>4, <3>1, <3>2, <3>3
  <2> QED BY <1>4, <2>3
<1>6. \E cs \in Seq(ChunkOf(X)) : Len(cs) = q /\ FlattenSeq(cs) = p
  BY <1>1, <1>4, ChunksExist
<1>7. p = cells \o Zeros(Len(p) - n)
  BY <1>2, <1>4
<1> HIDE DEF p, z
<1>8. n <= Len(p) /\ Len(p) < n + U
  BY <1>1, <1>4
<1> QED BY <1>4, <1>5, <1>6, <1>7, <1>8 DEF p

(* The hashes of pairs of chunks, written one after the other.             *)
PairCells(even, n) ==
    [c \in 1 .. n * U |->
        LET j == (c - 1) \div U
        IN  hashPair(ChunkAt(even, 2 * j), ChunkAt(even, 2 * j + 1))[c - j * U]]
LEMMA PairsIs ==
    ASSUME NEW X, NEW even, NEW n \in Nat, NEW pr \in Seq(ChunkOf(X)), Len(pr) = n,
           \A j \in 0 .. n - 1 :
              pr[j + 1] = hashPair(ChunkAt(even, 2 * j), ChunkAt(even, 2 * j + 1))
    PROVE  PairCells(even, n) = FlattenSeq(pr)
<1>0. U \in Nat \ {0}
  BY ChunkAssumption
<1> DEFINE el(c) == hashPair(ChunkAt(even, 2 * ((c - 1) \div U)),
                             ChunkAt(even, 2 * ((c - 1) \div U) + 1))[c - ((c - 1) \div U) * U]
           f == FlattenSeq(pr)
           q == n * U
<1>1. f \in Seq(X) /\ Len(f) = q /\ \A j \in 0 .. n - 1, k \in 1 .. U : f[j * U + k] = pr[j + 1][k]
  BY FlatChunks
<1>2. ASSUME NEW c \in 1 .. q PROVE f[c] = el(c)
  <2> DEFINE j == (c - 1) \div U
             k == c - j * U
  <2>1. j \in 0 .. n - 1 /\ k \in 1 .. U
    BY Position
  <2>2. c = j * U + k
    <3>1. n * U \in Nat /\ j \in Nat
      BY <1>0, <2>1
    <3> HIDE DEF j
    <3>2. j * U \in Nat /\ c \in Int
      BY <1>0, <3>1
    <3> QED BY <3>2
  <2>3. el(c) = hashPair(ChunkAt(even, 2 * j), ChunkAt(even, 2 * j + 1))[k]
    OBVIOUS
  <2> HIDE DEF j, k, el, f
  <2> QED BY <1>1, <2>1, <2>2, <2>3
<1>3. q \in Nat
  BY <1>0
<1> HIDE DEF f, q
<1>4. f = [c \in 1 .. q |-> f[c]]
  BY <1>1, <1>3
<1>5. f = [c \in 1 .. q |-> el(c)]
  <2> HIDE DEF el
  <2> QED BY <1>2, <1>4
<1> QED BY <1>5 DEF f, q, PairCells

LEMMA LayerIs ==
    ASSUME NEW X, IsUniverse(X), NEW cs \in Seq(ChunkOf(X)), NEW i \in 0 .. MaxTreeDepth
    PROVE  hashLayer(FlattenSeq(cs), i) = FlattenSeq(LayerAbove(cs, zeroHashes[i]))
<1>0. U \in Nat \ {0}
  BY ChunkAssumption
<1> DEFINE m == Len(cs)
           z == zeroHashes[i]
           input == FlattenSeq(cs)
           even == IF m % 2 = 1 THEN input \o z ELSE input
           n == (m + 1) \div 2
           es == IF m % 2 = 1 THEN Append(cs, z) ELSE cs
           pr == LayerAbove(cs, z)
<1>1. z \in ChunkOf(X) /\ m \in Nat
  BY ZeroHashes
<1>2. input \in Seq(X) /\ Len(input) \div U = m
  <2>1. input \in Seq(X) /\ Len(input) = m * U
    BY FlatChunks
  <2>2. (m * U) \div U = m
    BY <1>1, CeilIs
  <2> HIDE DEF input
  <2> QED BY <2>1, <2>2
<1>3. even = FlattenSeq(es) /\ es \in Seq(ChunkOf(X))
  <2>1. z \in Seq(X) /\ cs \in Seq(Seq(X))
    <3>1. ChunkOf(X) \subseteq Seq(X)
      BY <1>0 DEF ChunkOf
    <3> QED BY <1>1, <3>1, FlatChunks
  <2>2. FlattenSeq(Append(cs, z)) = input \o z
    BY <2>1, FlattenAppend
  <2>3. Append(cs, z) \in Seq(ChunkOf(X))
    BY <1>1
  <2> QED BY <2>2, <2>3
<1>4. Len(es) = 2 * n /\ \A j \in 1 .. 2 * n : es[j] = IF j <= m THEN cs[j] ELSE z
  <2>1. CASE m % 2 = 1
    <3>1. es = Append(cs, z) /\ 2 * n = m + 1
      BY <1>1, <2>1
    <3> HIDE DEF es, n, z
    <3> QED BY <1>1, <3>1
  <2>2. CASE m % 2 # 1
    <3>1. es = cs /\ 2 * n = m
      BY <1>1, <2>2
    <3> HIDE DEF es, n
    <3> QED BY <1>1, <3>1
  <2> QED BY <2>1, <2>2
<1>5. n \in Nat
  BY <1>1
<1>6. /\ pr \in Seq(ChunkOf(X)) /\ Len(pr) = n
      /\ \A p \in 1 .. n : pr[p] = hashPair(cs[2 * p - 1], IF 2 * p <= m THEN cs[2 * p] ELSE z)
      /\ \A p \in 1 .. n : 2 * p - 1 \in 1 .. m
  BY <1>1, AboveType
<1>7. \A j \in 0 .. n - 1 :
         pr[j + 1] = hashPair(ChunkAt(even, 2 * j), ChunkAt(even, 2 * j + 1))
  <2> TAKE j \in 0 .. n - 1
  <2> HIDE DEF even, es, pr, z, n, m
  <2>1. /\ 2 * j \in 0 .. Len(es) - 1 /\ 2 * j + 1 \in 0 .. Len(es) - 1
        /\ j + 1 \in 1 .. n /\ 2 * j + 1 \in 1 .. 2 * n /\ 2 * j + 2 \in 1 .. 2 * n
        /\ 2 * (j + 1) - 1 = 2 * j + 1 /\ 2 * (j + 1) = 2 * j + 2 /\ (2 * j + 1) + 1 = 2 * j + 2
    BY <1>4, <1>5
  <2>2. ChunkAt(even, 2 * j) = es[2 * j + 1] /\ ChunkAt(even, 2 * j + 1) = es[(2 * j + 1) + 1]
    BY <1>3, <2>1, FlatChunks
  <2>3. pr[j + 1] = hashPair(cs[2 * j + 1], IF 2 * j + 2 <= m THEN cs[2 * j + 2] ELSE z)
    BY <1>6, <2>1
  <2>4. 2 * j + 1 <= m
    BY <1>6, <1>1, <2>1
  <2>5. /\ es[2 * j + 1] = cs[2 * j + 1]
        /\ es[2 * j + 2] = IF 2 * j + 2 <= m THEN cs[2 * j + 2] ELSE z
    BY <1>4, <2>1, <2>4
  <2> QED BY <2>1, <2>2, <2>3, <2>5
<1>8. hashLayer(input, i) = PairCells(even, n)
  <2> HIDE DEF input, z
  <2> QED BY <1>2 DEF hashLayer, z, PairCells
<1> HIDE DEF even, pr, n, input
<1>9. hashLayer(input, i) = FlattenSeq(pr)
  BY <1>5, <1>6, <1>7, <1>8, PairsIs
<1> QED BY <1>9 DEF input, pr

(* The lengths, in cells, of which merkleizeImpl loses nothing: whole      *)
(* chunks, or a partial one after an odd number of whole ones.             *)
NothingLost(n) == n % U = 0 \/ (n \div U) % 2 = 1

LEMMA LengthFacts ==
    /\ \A n \in Nat : NothingLost(n * U)
    /\ \A n \in Nat : n % U = 0 => \E m \in Nat : n = m * U
    /\ \A n \in Nat : NothingLost(n) /\ CeilDiv(n, U) = 1 => n = U
    /\ \A n \in Nat : n % U # 0 /\ NothingLost(n) =>
          /\ CeilDiv(n, U) = n \div U + 1
          /\ (n \div U) * U < n /\ n < (n \div U) * U + U
          /\ (n \div U) % 2 = 1 /\ n \div U \in Nat
<1>0. U \in Nat \ {0}
  BY ChunkAssumption
<1>1. ASSUME NEW n \in Nat
      PROVE  /\ n \div U \in Nat /\ n % U \in 0 .. U - 1
             /\ n = (n \div U) * U + (n % U) /\ (n \div U) * U \in Nat
  BY <1>0
<1>2. ASSUME NEW n \in Nat PROVE NothingLost(n * U)
  <2> DEFINE a == n * U
             q == a \div U
             r == a % U
  <2>1. a \in Nat
    BY <1>0
  <2>2. q = n
    BY CeilIs
  <2>3. r \in 0 .. U - 1 /\ a = q * U + r
    BY <1>1, <2>1
  <2> HIDE DEF q, r
  <2>4. a = a + r
    BY <2>2, <2>3
  <2> HIDE DEF a
  <2>5. r = 0
    BY <1>0, <2>1, <2>3, <2>4
  <2> QED BY <2>5 DEF NothingLost, r, a
<1>3. ASSUME NEW n \in Nat, n % U = 0 PROVE \E m \in Nat : n = m * U
  <2>1. n = (n \div U) * U
    <3> DEFINE b == (n \div U) * U
    <3>1. b \in Nat /\ n = b + (n % U)
      BY <1>1
    <3> HIDE DEF b
    <3>2. n = b
      BY <1>3, <3>1
    <3> QED BY <3>2 DEF b
  <2> QED BY <1>1, <2>1
<1>4. ASSUME NEW n \in Nat, n % U # 0, NothingLost(n)
      PROVE  /\ CeilDiv(n, U) = n \div U + 1
             /\ (n \div U) * U < n /\ n < (n \div U) * U + U
             /\ (n \div U) % 2 = 1 /\ n \div U \in Nat
  <2> DEFINE q == n \div U
             r == n % U
             b == q * U
  <2>1. q \in Nat /\ r \in 1 .. U - 1 /\ n = b + r /\ b \in Nat
    BY <1>1, <1>4
  <2>2. q % 2 = 1
    BY <1>4 DEF NothingLost
  <2> HIDE DEF q, r
  <2>3. (q + 1) * U = b + U
    BY <1>0, <2>1
  <2> HIDE DEF b
  <2>4. b < n /\ n < b + U
    BY <1>0, <2>1
  <2>5. q + 1 \in Nat /\ n <= (q + 1) * U /\ (q + 1) * U < n + U
    BY <1>0, <2>1, <2>3, <2>4
  <2>6. CeilDiv(n, U) = q + 1
    BY <2>5, CeilIs
  <2> QED BY <2>1, <2>2, <2>4, <2>6 DEF q, b
<1>5. ASSUME NEW n \in Nat, NothingLost(n), CeilDiv(n, U) = 1 PROVE n = U
  <2>1. CASE n % U = 0
    <3>1. PICK m \in Nat : n = m * U
      BY <1>3, <2>1
    <3>2. m = 1
      BY <1>5, <3>1, CeilIs
    <3> QED BY <1>0, <3>1, <3>2
  <2>2. CASE n % U # 0
    <3>1. 1 = n \div U + 1 /\ (n \div U) % 2 = 1 /\ n \div U \in Nat
      BY <1>4, <1>5, <2>2
    <3> QED BY <3>1
  <2> QED BY <2>1, <2>2
<1> QED BY <1>2, <1>3, <1>4, <1>5

(* The first layer, whose last chunk may be partial.                       *)
LEMMA FirstLayerIs ==
    ASSUME NEW X, IsUniverse(X), NEW input \in Seq(X), NothingLost(Len(input)),
           NEW cs \in Seq(ChunkOf(X)), FlattenSeq(cs) = Padded(input)
    PROVE  hashLayer(input, 0) = FlattenSeq(LayerAbove(cs, ZeroChunk))
<1>0. U \in Nat \ {0} /\ 0 \in 0 .. MaxTreeDepth
  BY ChunkAssumption
<1> DEFINE l == Len(input)
           q == l \div U
<1>1. l \in Nat
  OBVIOUS
<1>2. CASE l % U = 0
  <2>1. PICK n \in Nat : l = n * U
    BY <1>1, <1>2, LengthFacts
  <2>2. Padded(input) = input
    BY <2>1, PaddedIs
  <2>3. hashLayer(FlattenSeq(cs), 0) = FlattenSeq(LayerAbove(cs, zeroHashes[0]))
    BY <1>0, LayerIs
  <2> QED BY <2>2, <2>3, ZeroHashes
<1>3. CASE l % U # 0
  <2>1. /\ CeilDiv(l, U) = q + 1 /\ q * U < l /\ l < q * U + U /\ q % 2 = 1 /\ q \in Nat
    BY <1>1, <1>3, LengthFacts
  <2> DEFINE even == input \o ZeroChunk
             n == (q + 1) \div 2
             p == Padded(input)
             pr == LayerAbove(cs, ZeroChunk)
  <2>2. /\ p \in Seq(X) /\ Len(p) = (q + 1) * U
        /\ \A i \in 1 .. Len(p) : p[i] = IF i <= l THEN input[i] ELSE Zero
    BY <2>1, PaddedIs
  <2>3. /\ Len(FlattenSeq(cs)) = Len(cs) * U
        /\ \A j \in 0 .. Len(cs) - 1 : ChunkAt(FlattenSeq(cs), j) = cs[j + 1]
    BY FlatChunks
  <2>4. Len(cs) = q + 1
    <3>1. Len(cs) \in Nat /\ q + 1 \in Nat
      BY <2>1
    <3> HIDE DEF q
    <3>2. CeilDiv(Len(cs) * U, U) = Len(cs) /\ CeilDiv((q + 1) * U, U) = q + 1
      BY <3>1, CeilIs
    <3> QED BY <2>2, <2>3, <3>2
  <2>5. ZeroChunk \in ChunkOf(X) /\ ZeroChunk \in Seq(X) /\ Len(ZeroChunk) = U
        /\ \A k \in 1 .. U : ZeroChunk[k] = Zero
    BY <1>0, ChunkTypes DEF ZeroChunk, Zeros
  <2>6. even \in Seq(X) /\ Len(even) = l + U /\ \A i \in 1 .. Len(p) : even[i] = p[i]
    <3>1. /\ even \in Seq(X) /\ Len(even) = Len(input) + Len(ZeroChunk)
          /\ \A i \in 1 .. Len(input) + Len(ZeroChunk) :
                even[i] = IF i <= Len(input) THEN input[i] ELSE ZeroChunk[i - Len(input)]
      BY <2>5, ConcatProperties
    <3> DEFINE b == q * U
    <3>2. (q + 1) * U = b + U /\ b \in Nat
      BY <1>0, <2>1
    <3>3. b < l /\ l < b + U
      BY <2>1
    <3> HIDE DEF b, q, even, p
    <3>4. ASSUME NEW i \in 1 .. Len(p) PROVE even[i] = p[i]
      <4>1. i \in 1 .. Len(input) + Len(ZeroChunk)
        BY <1>0, <1>1, <2>2, <2>5, <3>2, <3>3
      <4>2. ~ (i <= l) => i - l \in 1 .. U
        BY <1>0, <1>1, <2>2, <3>2, <3>3
      <4> QED BY <2>2, <2>5, <3>1, <4>1, <4>2
    <3> QED BY <2>5, <3>1, <3>4
  <2>7. \A j \in 0 .. q : ChunkAt(even, j) = cs[j + 1]
    <3> TAKE j \in 0 .. q
    <3> HIDE DEF even, p
    <3>1. j \in Nat /\ j \in 0 .. Len(cs) - 1 /\ q - j \in Nat
      BY <2>1, <2>4
    <3>2. (j + 1) * U <= Len(p) /\ (j + 1) * U <= Len(even)
      <4> DEFINE a == (j + 1) * U
      <4>1. (q + 1) * U = a + (q - j) * U /\ (q - j) * U \in Nat /\ a \in Nat
            /\ (q + 1) * U = q * U + U /\ q * U \in Nat
        BY <1>0, <2>1, <3>1
      <4> HIDE DEF a
      <4>2. a <= Len(p) /\ Len(p) <= Len(even)
        BY <1>0, <1>1, <2>1, <2>2, <2>6, <4>1
      <4>3. Len(even) \in Nat /\ Len(p) \in Nat
        BY <2>2, <2>6
      <4>4. a <= Len(even)
        BY <4>1, <4>2, <4>3
      <4> QED BY <4>2, <4>4 DEF a
    <3>3. /\ ChunkAt(even, j) \in ChunkOf(X) /\ ChunkAt(p, j) \in ChunkOf(X)
          /\ \A k \in 1 .. U : ChunkAt(even, j)[k] = even[j * U + k]
          /\ \A k \in 1 .. U : ChunkAt(p, j)[k] = p[j * U + k]
      BY <2>2, <2>6, <3>1, <3>2, ChunkCells
    <3>4. \A k \in 1 .. U : j * U + k \in 1 .. Len(p)
      <4>1. j \in 0 .. (q + 1) - 1 /\ q + 1 \in Nat
        BY <2>1
      <4> HIDE DEF q
      <4>2. \A k \in 1 .. U : j * U + k \in 1 .. (q + 1) * U
        BY ONLY <4>1, Position
      <4> QED BY <2>2, <4>2
    <3>5. \A k \in 1 .. U : ChunkAt(even, j)[k] = ChunkAt(p, j)[k]
      BY <2>6, <3>3, <3>4
    <3>6. ChunkAt(even, j) = ChunkAt(p, j)
      BY <3>3, <3>5, SameChunk
    <3>7. ChunkAt(p, j) = cs[j + 1]
      BY <2>3, <3>1 DEF p
    <3> QED BY <3>6, <3>7
  <2>8. n \in Nat /\ 2 * n = q + 1
    BY <2>1
  <2>9. /\ pr \in Seq(ChunkOf(X)) /\ Len(pr) = n
        /\ \A i \in 1 .. n : pr[i] = hashPair(cs[2 * i - 1],
                                              IF 2 * i <= q + 1 THEN cs[2 * i] ELSE ZeroChunk)
    <3> HIDE DEF q
    <3>1. /\ pr \in Seq(ChunkOf(X)) /\ Len(pr) = (Len(cs) + 1) \div 2
          /\ \A i \in 1 .. (Len(cs) + 1) \div 2 :
                pr[i] = hashPair(cs[2 * i - 1],
                                 IF 2 * i <= Len(cs) THEN cs[2 * i] ELSE ZeroChunk)
      BY <2>5, AboveType
    <3>2. ((q + 1) + 1) \div 2 = n
      BY <2>1
    <3> HIDE DEF pr, n
    <3> QED BY <2>4, <3>1, <3>2
  <2>10. \A j \in 0 .. n - 1 :
            pr[j + 1] = hashPair(ChunkAt(even, 2 * j), ChunkAt(even, 2 * j + 1))
    <3> TAKE j \in 0 .. n - 1
    <3> HIDE DEF even, pr, n, q
    <3>1. /\ j + 1 \in 1 .. n /\ 2 * j \in 0 .. q /\ 2 * j + 1 \in 0 .. q
          /\ 2 * (j + 1) - 1 = 2 * j + 1 /\ 2 * (j + 1) = (2 * j + 1) + 1 /\ 2 * (j + 1) <= q + 1
      BY <2>1, <2>8
    <3> QED BY <2>7, <2>9, <3>1
  <2>11. hashLayer(input, 0) = PairCells(even, n)
    <3>1. zeroHashes[0] = ZeroChunk
      BY ZeroHashes
    <3> QED BY <2>1, <3>1 DEF hashLayer, PairCells
  <2> HIDE DEF even, pr, n, q
  <2>12. hashLayer(input, 0) = FlattenSeq(pr)
    <3>1. pr \in Seq(ChunkOf(X)) /\ Len(pr) = n
      BY <2>9
    <3>2. PairCells(even, n) = FlattenSeq(pr)
      BY ONLY <2>8, <2>10, <3>1, PairsIs
    <3> QED BY <2>11, <3>2
  <2> QED BY <2>12 DEF pr
<1> QED BY <1>2, <1>3

(* Concatenation is associative, of three named sequences.                 *)
IsRegrouped(a, c, d) == (a \o c) \o d = a \o (c \o d)

LEMMA Regroup ==
    ASSUME NEW X, NEW a \in Seq(X), NEW c \in Seq(X), NEW d \in Seq(X)
    PROVE  IsRegrouped(a, c, d)
<1>1. a \in Seq(X) /\ c \in Seq(X) /\ d \in Seq(X)
  OBVIOUS
<1>2. (a \o c) \o d = a \o (c \o d)
  BY ONLY <1>1, ConcatAssociative
<1> QED BY ONLY <1>2 DEF IsRegrouped

(* The two parts of a sequence that was appended to.                       *)
LEMMA PartsOfConcat ==
    ASSUME NEW X, NEW b \in Seq(X), NEW t \in Seq(X)
    PROVE  /\ b \o t \in Seq(X) /\ Len(b \o t) = Len(b) + Len(t)
           /\ SubSeq(b \o t, 1, Len(b)) = b
           /\ SubSeq(b \o t, Len(b) + 1, Len(b \o t)) = t
           /\ \A i \in 1 .. Len(t) : (b \o t)[Len(b) + i] = t[i]
           /\ \A i \in 1 .. Len(b) : (b \o t)[i] = b[i]
OBVIOUS

(* One chunk, flattened, is that chunk.                                    *)
LEMMA FlatOne ==
    ASSUME NEW X
    PROVE  /\ FlattenSeq(<< >>) = << >>
           /\ \A c \in ChunkOf(X) : FlattenSeq(<<c>>) = c /\ c \in Seq(X) /\ Len(c) = U
           /\ \A cs \in Seq(ChunkOf(X)), c \in ChunkOf(X) :
                 FlattenSeq(Append(cs, c)) = FlattenSeq(cs) \o c
<1>0. U \in Nat \ {0}
  BY ChunkAssumption
<1>1. \A c \in ChunkOf(X) : c \in Seq(X) /\ Len(c) = U
  BY <1>0 DEF ChunkOf
<1>2. Seq(ChunkOf(X)) \subseteq Seq(Seq(X))
  BY <1>1
<1>3. /\ FlattenSeq(<< >>) = << >>
      /\ \A s \in Seq(Seq(X)), e \in Seq(X) : FlattenSeq(Append(s, e)) = FlattenSeq(s) \o e
  BY FlattenAppend
<1>4. \A cs \in Seq(ChunkOf(X)), c \in ChunkOf(X) :
         FlattenSeq(Append(cs, c)) = FlattenSeq(cs) \o c
  BY <1>1, <1>2, <1>3
<1>5. ASSUME NEW c \in ChunkOf(X) PROVE FlattenSeq(<<c>>) = c
  <2>1. << >> \in Seq(ChunkOf(X)) /\ Append(<< >>, c) = <<c>>
    OBVIOUS
  <2>2. FlattenSeq(Append(<< >>, c)) = FlattenSeq(<< >>) \o c
    BY <1>4, <2>1
  <2>3. << >> \o c = c
    BY <1>1, ConcatEmptySeq
  <2> QED BY <1>3, <2>1, <2>2, <2>3
<1> QED BY <1>1, <1>3, <1>4, <1>5

(* merkleizeImpl, its input given.                                         *)
ImplWithin(hh, indx, input, limit) ==
    LET count == CeilDiv(Len(input), U)
        depth == DepthFor(limit)
        layer[i \in 0 .. depth] ==
            IF i = 0 THEN input ELSE hashLayer(layer[i - 1], i - 1)
    IN  IF limit <= 1
        THEN IF count = 1 THEN FirstChunk(hh, indx) ELSE ZeroChunk
        ELSE IF input = << >> THEN zeroHashes[depth] ELSE layer[depth]
ImplOn(hh, indx, input, lim) ==
    ImplWithin(hh, indx, input, IF lim = 0 THEN CeilDiv(Len(input), U) ELSE lim)

(* It computes the SSZ root, of whole chunks and where a partial chunk is  *)
(* not lost.                                                               *)
LEMMA WithinIs ==
    ASSUME NEW X, IsUniverse(X), NEW hh, NEW indx, NEW input, NEW limit,
           input \in Seq(X), NothingLost(Len(input)), limit \in Nat, CeilDiv(Len(input), U) <= limit, limit <= 2^MaxTreeDepth,
           Len(input) = U => FirstChunk(hh, indx) = input
    PROVE  /\ ImplWithin(hh, indx, input, limit) = Root(input, limit)
           /\ Root(input, limit) \in ChunkOf(X)
<1>0. U \in Nat \ {0} /\ MaxTreeDepth \in Nat
  BY ChunkAssumption
<1> DEFINE count == CeilDiv(Len(input), U)
           d == DepthFor(limit)
<1>1. Len(input) \in Nat
  OBVIOUS
<1>2. PICK cs : /\ cs \in Seq(ChunkOf(X))
                 /\ Len(cs) = count /\ FlattenSeq(cs) = Padded(input)
  BY PaddedIs
<1>3. count \in Nat /\ (count = 0 <=> input = << >>) /\ (count = 0 <=> cs = << >>)
  <2>1. count \in Nat /\ (count = 0 <=> Len(input) = 0)
    BY <1>1, CeilIs
  <2>2. (Len(input) = 0 <=> input = << >>) /\ (Len(cs) = 0 <=> cs = << >>)
    BY <1>2
  <2> HIDE DEF count
  <2> QED BY <1>2, <2>1, <2>2
<1>4. /\ d \in 0 .. MaxTreeDepth /\ limit <= 2^d
      /\ limit <= 1 => d = 0
      /\ limit > 1 => d > 0
  BY DepthIs
<1>5. Len(cs) <= 2^d
  <2>1. 2^d \in Nat
    BY <1>4, TwoPowers
  <2> DEFINE q == 2^d
  <2> HIDE DEF count, q
  <2>2. count <= limit /\ limit <= q /\ q \in Nat
    BY <1>4, <2>1 DEF q, count
  <2>3. Len(cs) <= q
    BY <1>2, <1>3, <2>2
  <2> QED BY <2>3 DEF q
<1>6. PICK L : L \in LevelsOf(X, cs, d)
  BY <1>2, <1>4, <1>5, LevelsExist
<1>6a. /\ L \in [0 .. d -> Seq(ChunkOf(X))]
       /\ IsLevels(L, cs, d)
       /\ \A e \in 0 .. d : Len(L[e]) = 0 <=> cs = << >>
       /\ cs # << >> => Len(L[d]) = 1
  BY <1>6 DEF LevelsOf
<1>7. Root(input, limit) = IF cs = << >> THEN zeroHashes[d] ELSE L[d][1]
  BY <1>2, <1>6, RootIs
<1>8. Root(input, limit) \in ChunkOf(X)
  <2>1. zeroHashes[d] \in ChunkOf(X)
    BY <1>4, ZeroHashes
  <2>2. cs # << >> => L[d][1] \in ChunkOf(X)
    <3>1. d \in 0 .. d
      BY <1>4
    <3>2. L[d] \in Seq(ChunkOf(X))
      BY <1>6a, <3>1
    <3> DEFINE top == L[d]
    <3> HIDE DEF top, d
    <3>3. cs # << >> => top[1] \in ChunkOf(X)
      BY <1>6a, <3>2 DEF top
    <3> QED BY <3>3 DEF top
  <2> QED BY <1>7, <2>1, <2>2
<1> DEFINE Rec(f) == f = [i \in 0 .. d |-> IF i = 0 THEN input ELSE hashLayer(f[i - 1], i - 1)]
           layer == CHOOSE f : Rec(f)
<1>9. ImplWithin(hh, indx, input, limit) =
        IF limit <= 1
        THEN IF count = 1 THEN FirstChunk(hh, indx) ELSE ZeroChunk
        ELSE IF input = << >> THEN zeroHashes[d] ELSE layer[d]
  BY DEF ImplWithin
<1>10. CASE limit <= 1
  <2>1. d = 0 /\ L[0] = cs
    BY <1>4, <1>6a, <1>10 DEF IsLevels
  <2>2. CASE count = 1
    <3>1. Len(input) = U
      BY <1>1, <2>2, LengthFacts
    <3>2. FirstChunk(hh, indx) = input
      BY <3>1
    <3>3. Padded(input) = input
      <4>1. 1 * U = U
        BY <1>0
      <4>2. 1 \in Nat /\ Len(input) = 1 * U
        BY <3>1, <4>1
      <4> QED BY <4>2, PaddedIs
    <3>4. cs # << >> /\ Len(cs) = 1
      BY <1>2, <1>3, <2>2
    <3>5. cs = <<cs[1]>> /\ cs[1] \in ChunkOf(X)
      BY <1>2, <3>4
    <3>6. cs[1] = input
      BY <1>2, <3>3, <3>5, FlatOne
    <3>7. Root(input, limit) = cs[1]
      BY <1>7, <2>1, <3>4
    <3> HIDE DEF count
    <3> QED BY <1>8, <1>9, <1>10, <2>2, <3>2, <3>6, <3>7
  <2>3. CASE count # 1
    <3>1. count = 0
      BY <1>3, <1>10, <2>3
    <3>2. Root(input, limit) = zeroHashes[0]
      BY <1>3, <1>7, <2>1, <3>1
    <3> HIDE DEF count
    <3> QED BY <1>8, <1>9, <1>10, <2>3, <3>2, ZeroHashes
  <2> QED BY <2>2, <2>3
<1>11. CASE limit > 1
  <2>1. d \in 1 .. MaxTreeDepth /\ d \in Nat
    BY <1>0, <1>4, <1>11
  <2>2. ~ (limit <= 1)
    BY <1>11
  <2>3. CASE input = << >>
    BY <1>3, <1>7, <1>8, <1>9, <2>2, <2>3
  <2>4. CASE input # << >>
    <3> DEFINE v == [i \in 0 .. d |-> IF i = 0 THEN input ELSE FlattenSeq(L[i])]
    <3> HIDE DEF d
    <3>1. v[0] = input /\ \A i \in 1 .. d : v[i] = FlattenSeq(L[i])
      BY <2>1
    <3>2. ASSUME NEW i \in 1 .. d PROVE v[i] = hashLayer(v[i - 1], i - 1)
      <4>1. L[i] = LayerAbove(L[i - 1], zeroHashes[i - 1]) /\ L[0] = cs
        BY <1>6a DEF IsLevels
      <4>2. CASE i = 1
        <5>1. L[i] = LayerAbove(cs, ZeroChunk)
          BY <4>1, <4>2, ZeroHashes
        <5>2. hashLayer(input, 0) = FlattenSeq(LayerAbove(cs, ZeroChunk))
          BY <1>2, FirstLayerIs
        <5> HIDE DEF v
        <5> QED BY <3>1, <4>2, <5>1, <5>2
      <4>3. CASE i # 1
        <5>1. i - 1 \in 1 .. d /\ i - 1 \in 0 .. d /\ i - 1 \in 0 .. MaxTreeDepth
          BY <1>0, <2>1, <4>3
        <5>2. L[i - 1] \in Seq(ChunkOf(X))
          BY <1>6a, <5>1
        <5>3. hashLayer(FlattenSeq(L[i - 1]), i - 1) = FlattenSeq(LayerAbove(L[i - 1], zeroHashes[i - 1]))
          BY <5>1, <5>2, LayerIs
        <5> HIDE DEF v
        <5>4. v[i - 1] = FlattenSeq(L[i - 1]) /\ v[i] = FlattenSeq(L[i])
          BY <3>1, <5>1
        <5> QED BY <4>1, <5>3, <5>4
      <4> QED BY <4>2, <4>3
    <3>3. v = [i \in 0 .. d |-> v[i]]
      OBVIOUS
    <3> HIDE DEF v
    <3>4. Rec(v)
      <4>1. \A i \in 0 .. d : i # 0 => i \in 1 .. d
        BY <2>1
      <4>2. \A i \in 0 .. d : v[i] = IF i = 0 THEN input ELSE hashLayer(v[i - 1], i - 1)
        BY <3>1, <3>2, <4>1
      <4> QED BY <3>3, <4>2
    <3>5. Rec(layer)
      BY <3>4
    <3> HIDE DEF layer
    <3>6. layer[0] = v[0]
      BY <2>1, <3>1, <3>5
    <3>7. \A i \in 1 .. d : layer[i - 1] = v[i - 1] => layer[i] = v[i]
      <4>1. \A i \in 1 .. d : i \in 0 .. d /\ i # 0
        BY <2>1
      <4>2. \A i \in 1 .. d : layer[i] = hashLayer(layer[i - 1], i - 1)
        BY <3>5, <4>1
      <4> QED BY <3>2, <4>2
    <3>8. \A i \in 0 .. d : layer[i] = v[i]
      <4>1. d \in Nat
        BY <2>1
      <4> QED BY ONLY <3>6, <3>7, <4>1, StepsAgree
    <3>9. layer[d] = FlattenSeq(L[d])
      BY <2>1, <3>1, <3>8
    <3>10. cs # << >> /\ Len(L[d]) = 1 /\ L[d] \in Seq(ChunkOf(X))
      BY <1>3, <1>6a, <2>1, <2>4
    <3>11. L[d] = <<L[d][1]>> /\ L[d][1] \in ChunkOf(X)
      BY <3>10
    <3>12. layer[d] = L[d][1]
      BY <3>9, <3>11, FlatOne
    <3>13. ImplWithin(hh, indx, input, limit) = layer[d]
      BY <1>9, <2>2, <2>4 DEF d
    <3>14. Root(input, limit) = L[d][1]
      BY <1>7, <3>10 DEF d
    <3> QED BY <1>8, <3>12, <3>13, <3>14
  <2> QED BY <2>3, <2>4
<1> QED BY <1>10, <1>11

LEMMA MerkleizeIs ==
    ASSUME NEW X, IsUniverse(X), NEW hh, NEW b \in Seq(X), NEW input \in Seq(X),
           hh.buf = b \o input, NothingLost(Len(input)),
           NEW lim \in Nat, NEW limit \in Nat,
           limit = IF lim = 0 THEN CeilDiv(Len(input), U) ELSE lim,
           CeilDiv(Len(input), U) <= limit, limit <= 2^MaxTreeDepth
    PROVE  /\ merkleizeImpl(hh, Len(b), lim) = Root(input, limit)
           /\ Root(input, limit) \in ChunkOf(X)
<1>0. U \in Nat \ {0}
  BY ChunkAssumption
<1>1. SubSeq(hh.buf, Len(b) + 1, Len(hh.buf)) = input /\ Len(input) \in Nat
      /\ Len(hh.buf) = Len(b) + Len(input)
  BY PartsOfConcat
<1>2. merkleizeImpl(hh, Len(b), lim) = ImplWithin(hh, Len(b), input, limit)
  <2> DEFINE s == SubSeq(hh.buf, Len(b) + 1, Len(hh.buf))
  <2>1. merkleizeImpl(hh, Len(b), lim) = ImplOn(hh, Len(b), s, lim)
    BY DEF merkleizeImpl, ImplOn, ImplWithin
  <2>2. s = input
    BY <1>1
  <2>3. ImplOn(hh, Len(b), s, lim) = ImplOn(hh, Len(b), input, lim)
    BY <2>2
  <2>4. (IF lim = 0 THEN CeilDiv(Len(input), U) ELSE lim) = limit
    OBVIOUS
  <2>5. ImplOn(hh, Len(b), input, lim) = ImplWithin(hh, Len(b), input, limit)
    BY <2>4 DEF ImplOn
  <2> QED BY <2>1, <2>3, <2>5
<1>3. ASSUME Len(input) = U PROVE FirstChunk(hh, Len(b)) = input
  <2>1. \A i \in 1 .. U : Len(b) + i <= Len(hh.buf) /\ hh.buf[Len(b) + i] = input[i]
    <3>1. ASSUME NEW i \in 1 .. U
          PROVE  Len(b) + i <= Len(hh.buf) /\ hh.buf[Len(b) + i] = input[i]
      <4> DEFINE l == Len(b)
      <4>1. (b \o input)[l + i] = input[i]
        BY <1>3, PartsOfConcat
      <4>2. Len(hh.buf) = l + U /\ l \in Nat
        BY <1>1, <1>3
      <4> HIDE DEF l
      <4>3. l + i <= Len(hh.buf)
        BY <1>0, <4>2
      <4> QED BY <4>1, <4>3 DEF l
    <3> QED BY <3>1
  <2>2. FirstChunk(hh, Len(b)) = [i \in 1 .. U |-> input[i]]
    BY <2>1 DEF FirstChunk
  <2>3. input = [i \in 1 .. U |-> input[i]]
    BY <1>0, <1>3
  <2> QED BY <2>2, <2>3
<1> DEFINE indx == Len(b)
<1>4. /\ input \in Seq(X) /\ NothingLost(Len(input)) /\ limit \in Nat
      /\ CeilDiv(Len(input), U) <= limit /\ limit <= 2^MaxTreeDepth
      /\ IsUniverse(X)
  OBVIOUS
<1>5. Len(input) = U => FirstChunk(hh, indx) = input
  BY <1>3
<1> HIDE DEF indx
<1>6. /\ ImplWithin(hh, indx, input, limit) = Root(input, limit)
      /\ Root(input, limit) \in ChunkOf(X)
  BY ONLY <1>4, <1>5, WithinIs
<1> QED BY <1>2, <1>6 DEF indx

---------------------------------------------------------------------------
(***************************************************************************)
(* The operations of the Hasher.                                           *)
(***************************************************************************)
HasherOf(X) ==
    {x \in [buf : Seq(X), cap : Nat, high : Nat, panic : BOOLEAN] :
        Len(x.buf) <= x.high /\ x.high <= x.cap}

(* A hasher that runs, with t in its buffer behind b.                      *)
HasherAt(X, hh, b, t) ==
    /\ hh \in HasherOf(X) /\ b \in Seq(X) /\ t \in Seq(X)
    /\ hh.buf = b \o t /\ hh.panic = FALSE

LEMMA HasherFields ==
    ASSUME NEW X, NEW hh, hh \in HasherOf(X)
    PROVE  /\ hh.buf \in Seq(X) /\ hh.cap \in Nat /\ hh.high \in Nat /\ hh.panic \in BOOLEAN
           /\ Len(hh.buf) <= hh.high /\ hh.high <= hh.cap
           /\ hh = [buf |-> hh.buf, cap |-> hh.cap, high |-> hh.high, panic |-> hh.panic]
           /\ DOMAIN hh = {"buf", "cap", "high", "panic"}
BY DEF HasherOf

LEMMA HasherMade ==
    ASSUME NEW X, NEW b, NEW c, NEW d, NEW p, b \in Seq(X), c \in Nat, d \in Nat, p \in BOOLEAN,
           Len(b) <= d, d <= c
    PROVE  [buf |-> b, cap |-> c, high |-> d, panic |-> p] \in HasherOf(X)
BY DEF HasherOf

LEMMA AppendIs ==
    ASSUME NEW X, NEW hh, NEW cells, hh \in HasherOf(X), cells \in Seq(X)
    PROVE  /\ Append_(hh, cells) \in HasherOf(X)
           /\ Append_(hh, cells).buf = hh.buf \o cells
           /\ Append_(hh, cells).panic = hh.panic
<1> DEFINE b == hh.buf
           c == hh.cap
           d == hh.high
           p == hh.panic
           need == Len(b) + Len(cells)
<1>1. /\ b \in Seq(X) /\ c \in Nat /\ d \in Nat /\ p \in BOOLEAN
      /\ Len(b) <= d /\ d <= c
      /\ hh = [buf |-> b, cap |-> c, high |-> d, panic |-> p]
  BY HasherFields
<1>2. b \o cells \in Seq(X) /\ Len(b \o cells) = need /\ need \in Nat
  BY <1>1
<1>3. Append_(hh, cells) =
        IF need <= c
        THEN [hh EXCEPT !.buf = b \o cells, !.high = MaxOf(d, need)]
        ELSE [hh EXCEPT !.buf = b \o cells, !.high = need, !.cap = MaxOf(need, 2 * c)]
  BY DEF Append_
<1> HIDE DEF b, c, d, p
<1>4. CASE need <= c
  <2> DEFINE m == MaxOf(d, need)
  <2>1. m \in Nat /\ need <= m /\ m <= c
    BY <1>1, <1>2, <1>4 DEF MaxOf
  <2>2. Append_(hh, cells) = [buf |-> b \o cells, cap |-> c, high |-> m, panic |-> p]
    BY <1>1, <1>3, <1>4
  <2> HIDE DEF m, need
  <2>3. Append_(hh, cells) \in HasherOf(X)
    BY <1>1, <1>2, <2>1, <2>2, HasherMade
  <2> QED BY <2>2, <2>3 DEF b, p
<1>5. CASE ~ (need <= c)
  <2> DEFINE m == MaxOf(need, 2 * c)
  <2>1. m \in Nat /\ need <= m
    BY <1>1, <1>2, <1>5 DEF MaxOf
  <2>2. Append_(hh, cells) = [buf |-> b \o cells, cap |-> m, high |-> need, panic |-> p]
    BY <1>1, <1>3, <1>5
  <2> HIDE DEF m, need
  <2>3. need <= need
    BY <1>2
  <2>4. Append_(hh, cells) \in HasherOf(X)
    BY <1>1, <1>2, <2>1, <2>2, <2>3, HasherMade
  <2> QED BY <2>2, <2>4 DEF b, p
<1> QED BY <1>4, <1>5

(* Item by item as all at once.                                            *)
LEMMA AppendUint64sIs ==
    ASSUME NEW X, NEW hh, NEW cells, hh \in HasherOf(X), cells \in Seq(X)
    PROVE  /\ AppendUint64s(hh, cells) \in HasherOf(X)
           /\ AppendUint64s(hh, cells).buf = hh.buf \o cells
           /\ AppendUint64s(hh, cells).panic = hh.panic
<1> DEFINE n == Len(cells)
           D == HasherOf(X)
           step == [i \in 1 .. n |-> [x \in D |-> Append_(x, <<cells[i]>>)]]
           Rec(f) == f = [i \in 0 .. n |-> IF i = 0 THEN hh ELSE Append_(f[i - 1], <<cells[i]>>)]
           c == CHOOSE f : Rec(f)
<1>1. n \in Nat /\ \A i \in 1 .. n : <<cells[i]>> \in Seq(X)
  OBVIOUS
<1>2. AppendUint64s(hh, cells) = c[n]
  BY DEF AppendUint64s
<1> HIDE DEF n
<1>3. \A i \in 1 .. n, x \in D : /\ Append_(x, <<cells[i]>>) \in D
                                 /\ Append_(x, <<cells[i]>>).buf = x.buf \o <<cells[i]>>
                                 /\ Append_(x, <<cells[i]>>).panic = x.panic
  BY <1>1, AppendIs
<1> HIDE DEF D
<1>4. step \in [1 .. n -> [D -> D]]
      /\ \A i \in 1 .. n, x \in D : step[i][x] = Append_(x, <<cells[i]>>)
  BY <1>3
<1>5. hh \in D
  BY DEF D
<1> HIDE DEF step
<1>6. PICK v : v \in [0 .. n -> D] /\ Steps(v, n, hh, step)
  BY <1>1, <1>4, <1>5, StepsExist, Zenon
<1>7. ASSUME NEW i \in 1 .. n PROVE v[i] = Append_(v[i - 1], <<cells[i]>>) /\ v[i - 1] \in D
  <2>1. i - 1 \in 0 .. n
    BY <1>1
  <2>2. v[i - 1] \in D
    BY <1>6, <2>1
  <2> QED BY <1>4, <1>6, <2>2 DEF Steps
<1>8. v[0] = hh
  BY <1>6 DEF Steps
<1>9. Rec(v)
  <2>1. \A i \in 0 .. n : i # 0 => i \in 1 .. n
    BY <1>1
  <2>2. \A i \in 0 .. n : v[i] = IF i = 0 THEN hh ELSE Append_(v[i - 1], <<cells[i]>>)
    BY <1>7, <1>8, <2>1
  <2>3. v = [i \in 0 .. n |-> v[i]]
    BY <1>6
  <2> QED BY <2>2, <2>3
<1>10. Rec(c)
  BY <1>9
<1> HIDE DEF c
<1>11. c[n] = v[n]
  <2>1. c[0] = v[0]
    BY <1>1, <1>8, <1>10
  <2>2. \A i \in 1 .. n : c[i - 1] = v[i - 1] => c[i] = v[i]
    <3>1. \A i \in 1 .. n : i \in 0 .. n /\ i # 0
      BY <1>1
    <3>2. \A i \in 1 .. n : c[i] = Append_(c[i - 1], <<cells[i]>>)
      BY <1>10, <3>1
    <3> QED BY <1>7, <3>2
  <2>3. \A i \in 0 .. n : c[i] = v[i]
    <3>1. n \in Nat
      BY <1>1
    <3> QED BY ONLY <2>1, <2>2, <3>1, StepsAgree
  <2> QED BY <1>1, <2>3
<1> DEFINE P(i) == v[i].buf = hh.buf \o SubSeq(cells, 1, i) /\ v[i].panic = hh.panic
<1>12. \A i \in Nat : i <= n => P(i)
  <2> DEFINE T == {i \in Nat : i <= n => P(i)}
  <2>1. P(0)
    <3>1. SubSeq(cells, 1, 0) = << >> /\ hh.buf \o << >> = hh.buf
      BY HasherFields
    <3> QED BY <1>8, <3>1
  <2>2. ASSUME NEW i \in Nat, P(i), i + 1 <= n PROVE P(i + 1)
    <3>1. i + 1 \in 1 .. n /\ (i + 1) - 1 = i
      BY <1>1, <2>2
    <3>2. v[i + 1] = Append_(v[i], <<cells[i + 1]>>) /\ v[i] \in D
      BY <1>7, <3>1
    <3>3. v[i + 1].buf = v[i].buf \o <<cells[i + 1]>> /\ v[i + 1].panic = v[i].panic
      <4> DEFINE x == v[i]
                 y == v[i + 1]
                 k == i + 1
      <4> HIDE DEF x, y, k
      <4>1. k \in 1 .. n /\ x \in D /\ y = Append_(x, <<cells[k]>>)
        BY <3>1, <3>2 DEF x, y, k
      <4>2. y.buf = x.buf \o <<cells[k]>> /\ y.panic = x.panic
        BY ONLY <1>3, <4>1, Zenon
      <4> QED BY <4>2 DEF x, y, k
    <3>4. (hh.buf \o SubSeq(cells, 1, i)) \o <<cells[i + 1]>> = hh.buf \o SubSeq(cells, 1, i + 1)
      <4>1. hh.buf \in Seq(X)
        BY HasherFields
      <4>2. SubSeq(cells, 1, i + 1) = SubSeq(cells, 1, i) \o <<cells[i + 1]>>
            /\ SubSeq(cells, 1, i) \in Seq(X) /\ <<cells[i + 1]>> \in Seq(X)
        BY <1>1, <3>1 DEF n
      <4> DEFINE a == hh.buf
                 b == SubSeq(cells, 1, i)
                 e == <<cells[i + 1]>>
      <4> HIDE DEF a, b, e
      <4>2a. a \in Seq(X) /\ b \in Seq(X) /\ e \in Seq(X)
        BY <4>1, <4>2 DEF a, b, e
      <4>3. (a \o b) \o e = a \o (b \o e)
        BY ONLY <4>2a, ConcatAssociative
      <4> QED BY <4>2, <4>3 DEF a, b, e
    <3> QED BY <2>2, <3>3, <3>4
  <2> HIDE DEF P
  <2>3. 0 \in T
    BY <2>1
  <2>4. ASSUME NEW i \in Nat, i \in T PROVE i + 1 \in T
    BY <1>1, <2>2, <2>4
  <2> HIDE DEF T
  <2>5. \A i \in Nat : i \in T
    BY <2>3, <2>4, SetInduction
  <2> QED BY <2>5 DEF T
<1>13. SubSeq(cells, 1, n) = cells
  BY DEF n
<1>14. v[n] \in D /\ v[n].buf = hh.buf \o cells /\ v[n].panic = hh.panic
  <2>1. n \in 0 .. n /\ n <= n
    BY <1>1
  <2> QED BY <1>1, <1>6, <1>12, <1>13, <2>1
<1> QED BY <1>2, <1>11, <1>14 DEF D

(* Only the padded cells matter to the reference.                          *)
RootOn(p, limit) ==
    LET d     == DepthFor(limit)
        level[e \in 0 .. d] ==
            IF e = 0
            THEN [j \in 0 .. 2^d - 1 |-> IF (j + 1) * U <= Len(p) THEN ChunkAt(p, j)
                                         ELSE ZeroChunk]
            ELSE [j \in 0 .. 2^(d - e) - 1 |->
                    hashPair(level[e - 1][2 * j], level[e - 1][2 * j + 1])]
    IN  level[d][0]

LEMMA RootOfPadded ==
    ASSUME NEW X, NEW cells, NEW limit, IsUniverse(X), cells \in Seq(X)
    PROVE  Root(Padded(cells), limit) = Root(cells, limit)
<1>1. \A c : Root(c, limit) = RootOn(Padded(c), limit)
  BY DEF Root, RootOn
<1>2. Padded(cells) \in Seq(X) /\ Len(Padded(cells)) = CeilDiv(Len(cells), U) * U
  BY PaddedIs
<1>3. CeilDiv(Len(cells), U) \in Nat
  BY CeilIs
<1>4. Padded(Padded(cells)) = Padded(cells)
  <2> DEFINE p == Padded(cells)
             n == CeilDiv(Len(cells), U)
  <2>1. p \in Seq(X) /\ n \in Nat /\ Len(p) = n * U
    BY <1>2, <1>3
  <2> HIDE DEF p, n
  <2>2. Padded(p) = p
    BY <2>1, PaddedIs
  <2> QED BY <2>2 DEF p
<1> QED BY <1>1, <1>4

LEMMA AppendBytes32Is ==
    ASSUME NEW X, NEW hh, NEW cells, IsUniverse(X), hh \in HasherOf(X), cells \in Seq(X)
    PROVE  /\ AppendBytes32(hh, cells) \in HasherOf(X)
           /\ AppendBytes32(hh, cells).buf = hh.buf \o Padded(cells)
           /\ AppendBytes32(hh, cells).panic = hh.panic
<1> DEFINE k == Len(Padded(cells)) - Len(cells)
           z == Zeros(k)
<1>1. k \in Nat /\ Padded(cells) = cells \o z
  <2>1. /\ Len(cells) <= Len(Padded(cells)) /\ Padded(cells) \in Seq(X)
        /\ Padded(cells) = cells \o Zeros(Len(Padded(cells)) - Len(cells))
    BY PaddedIs
  <2> QED BY <2>1
<1>2. z \in Seq(X)
  BY <1>1, ChunkTypes
<1>3. AppendBytes32(hh, cells) = Append_(Append_(hh, cells), z)
  BY DEF AppendBytes32
<1> HIDE DEF z, k
<1>4. /\ Append_(hh, cells) \in HasherOf(X) /\ Append_(hh, cells).buf = hh.buf \o cells
      /\ Append_(hh, cells).panic = hh.panic
  BY AppendIs
<1> DEFINE a == Append_(hh, cells)
<1>5. a \in HasherOf(X) /\ a.buf = hh.buf \o cells /\ a.panic = hh.panic
  BY <1>4
<1> HIDE DEF a
<1>6. /\ Append_(a, z) \in HasherOf(X) /\ Append_(a, z).buf = a.buf \o z
      /\ Append_(a, z).panic = a.panic
  <2>1. a \in HasherOf(X)
    BY <1>5
  <2> QED BY ONLY <1>2, <2>1, AppendIs
<1>7. (hh.buf \o cells) \o z = hh.buf \o (cells \o z)
  <2> DEFINE b == hh.buf
  <2>1. b \in Seq(X) /\ cells \in Seq(X) /\ z \in Seq(X)
    BY <1>2, HasherFields
  <2> HIDE DEF b
  <2>2. IsRegrouped(b, cells, z)
    BY ONLY <2>1, Regroup
  <2>3. (b \o cells) \o z = b \o (cells \o z)
    BY ONLY <2>2 DEF IsRegrouped
  <2> QED BY <2>3 DEF b
<1> QED BY <1>1, <1>3, <1>5, <1>6, <1>7 DEF a

(* Filling up the buffer fills up what lies behind whole chunks.           *)
LEMMA FillIs ==
    ASSUME NEW X, NEW hh, NEW b, NEW t, NEW m, IsUniverse(X), HasherAt(X, hh, b, t),
           m \in Nat, Len(b) = m * U
    PROVE  HasherAt(X, FillUpTo32(hh), b, Padded(t))
<1>. hh \in HasherOf(X) /\ b \in Seq(X) /\ t \in Seq(X) /\ hh.buf = b \o t /\ hh.panic = FALSE
  BY DEF HasherAt
<1>0. U \in Nat \ {0}
  BY ChunkAssumption
<1> DEFINE l == Len(t)
           n == CeilDiv(l, U)
           k == Len(Padded(hh.buf)) - Len(hh.buf)
<1>1. l \in Nat /\ n \in Nat /\ l <= n * U /\ n * U < l + U
  BY CeilIs
<1>2. hh.buf \in Seq(X) /\ Len(hh.buf) = m * U + l /\ m * U \in Nat
  <2>1. hh.buf \in Seq(X) /\ Len(hh.buf) = Len(b) + l
    BY PartsOfConcat
  <2>2. m * U \in Nat
    BY <1>0
  <2> HIDE DEF l
  <2> QED BY <2>1, <2>2
<1>3. Len(Padded(hh.buf)) = CeilDiv(m * U + l, U) * U
  BY <1>2, PaddedIs
<1>4. CeilDiv(m * U + l, U) = m + n
  <2> DEFINE a == m * U + l
             q == m + n
  <2> HIDE DEF n, l
  <2>1. a \in Nat /\ q \in Nat
    BY <1>1, <1>2
  <2>2. q * U = m * U + n * U
    BY <1>0, <1>1
  <2>3. a <= q * U /\ q * U < a + U
    BY <1>0, <1>1, <1>2, <2>2
  <2> HIDE DEF a, q
  <2>4. CeilDiv(a, U) = q
    BY <2>1, <2>3, CeilIs
  <2> QED BY <2>4 DEF a, q
<1>5. k = Len(Padded(t)) - l /\ k \in Nat
  <2>1. Len(Padded(t)) = n * U
    BY PaddedIs
  <2>2. (m + n) * U = m * U + n * U /\ n * U \in Nat
    <3> HIDE DEF n, l
    <3> QED BY <1>0, <1>1
  <2> HIDE DEF n
  <2>3. k = (m * U + n * U) - (m * U + l)
    BY <1>2, <1>3, <1>4, <2>2
  <2> HIDE DEF l, k
  <2> QED BY <1>0, <1>1, <1>2, <2>1, <2>2, <2>3
<1>6. Padded(t) = t \o Zeros(k) /\ Padded(t) \in Seq(X)
  <2>1. Padded(t) = t \o Zeros(Len(Padded(t)) - Len(t)) /\ Padded(t) \in Seq(X)
    BY PaddedIs
  <2> HIDE DEF k
  <2> QED BY <1>5, <2>1
<1> DEFINE z == Zeros(k)
<1>7. z \in Seq(X)
  <2> HIDE DEF k
  <2> QED BY <1>5, ChunkTypes
<1>8. FillUpTo32(hh) = Append_(hh, z)
  BY DEF FillUpTo32
<1> HIDE DEF z, k, n, l
<1>9. /\ Append_(hh, z) \in HasherOf(X) /\ Append_(hh, z).buf = hh.buf \o z
      /\ Append_(hh, z).panic = hh.panic
  BY <1>7, AppendIs
<1>10. (b \o t) \o z = b \o (t \o z)
  <2>1. b \in Seq(X) /\ t \in Seq(X) /\ z \in Seq(X)
    BY <1>7
  <2>2. IsRegrouped(b, t, z)
    BY ONLY <2>1, Regroup
  <2> QED BY ONLY <2>2 DEF IsRegrouped
<1> QED BY <1>6, <1>8, <1>9, <1>10 DEF z, HasherAt

LEMMA TouchIs ==
    ASSUME NEW X, NEW hh, NEW n, hh \in HasherOf(X), n \in Nat
    PROVE  /\ Touch(hh, n) \in HasherOf(X) /\ Touch(hh, n).buf = hh.buf
           /\ Touch(hh, n).panic = hh.panic
<1> DEFINE b == hh.buf
           c == hh.cap
           d == hh.high
           p == hh.panic
           m == MaxOf(d, n)
<1>1. /\ b \in Seq(X) /\ c \in Nat /\ d \in Nat /\ p \in BOOLEAN
      /\ Len(b) <= d /\ d <= c
      /\ hh = [buf |-> b, cap |-> c, high |-> d, panic |-> p]
  BY HasherFields
<1>2. Touch(hh, n) = IF n <= c THEN [hh EXCEPT !.high = m] ELSE hh
  BY DEF Touch
<1>3. CASE n <= c
  <2>0. Len(b) \in Nat
    BY <1>1
  <2> HIDE DEF b, c, d, p
  <2>1. m \in Nat /\ Len(b) <= m /\ m <= c
    BY <1>1, <1>3, <2>0 DEF MaxOf
  <2>2. Touch(hh, n) = [buf |-> b, cap |-> c, high |-> m, panic |-> p]
    BY <1>1, <1>2, <1>3
  <2> HIDE DEF m
  <2>3. Touch(hh, n) \in HasherOf(X)
    BY <1>1, <2>1, <2>2, HasherMade
  <2> QED BY <2>2, <2>3 DEF b, p
<1> QED BY <1>2, <1>3

LEMMA ReplaceIs ==
    ASSUME NEW X, NEW hh, NEW b, NEW t, NEW result, HasherAt(X, hh, b, t), result \in Seq(X)
    PROVE  HasherAt(X, Replace(hh, Len(b), result), b, result)
<1>. hh \in HasherOf(X) /\ b \in Seq(X) /\ t \in Seq(X) /\ hh.buf = b \o t /\ hh.panic = FALSE
  BY DEF HasherAt
<1> DEFINE c == hh.cap
           d == hh.high
           p == hh.panic
           a == [hh EXCEPT !.buf = SubSeq(@, 1, Len(b))]
<1>1. /\ c \in Nat /\ d \in Nat /\ p \in BOOLEAN
      /\ Len(b \o t) <= d /\ d <= c
      /\ hh = [buf |-> b \o t, cap |-> c, high |-> d, panic |-> p]
  BY HasherFields
<1>2. SubSeq(b \o t, 1, Len(b)) = b /\ Len(b \o t) = Len(b) + Len(t)
      /\ Len(b) \in Nat /\ Len(t) \in Nat
  BY PartsOfConcat
<1>3. a = [buf |-> b, cap |-> c, high |-> d, panic |-> p]
  <2>1. a = [hh EXCEPT !.buf = SubSeq(hh.buf, 1, Len(b))]
    OBVIOUS
  <2>2. a = [hh EXCEPT !.buf = b]
    BY <1>2, <2>1
  <2> HIDE DEF a, c, d, p
  <2> QED BY <1>1, <2>2
<1>4. Replace(hh, Len(b), result) = Append_(a, result)
  BY DEF Replace
<1> HIDE DEF a, c, d, p
<1>5. Len(b) <= d
  BY <1>1, <1>2
<1>6. a \in HasherOf(X) /\ a.buf = b /\ a.panic = p
  BY <1>1, <1>3, <1>5, HasherMade
<1>7. result \in Seq(X)
  OBVIOUS
<1>8. /\ Append_(a, result) \in HasherOf(X) /\ Append_(a, result).buf = a.buf \o result
      /\ Append_(a, result).panic = a.panic
  BY ONLY <1>6, <1>7, AppendIs
<1> QED BY <1>4, <1>6, <1>8 DEF p, HasherAt

(* Both merkleizations take a legal count of chunks and do not panic.      *)
LEMMA NoPanic ==
    ASSUME NEW X, NEW hh, NEW b, NEW input, NEW lim, HasherAt(X, hh, b, input),
           NothingLost(Len(input)), lim \in Nat,
           lim = 0 \/ CeilDiv(Len(input), U) <= lim
    PROVE  ~ merkleizePanics(hh, Len(b), lim) /\ reach(hh, Len(b), lim) \in Nat
<1>. hh \in HasherOf(X) /\ b \in Seq(X) /\ input \in Seq(X) /\ hh.buf = b \o input
  BY DEF HasherAt
<1>0. U \in Nat \ {0}
  BY ChunkAssumption
<1> DEFINE i == Len(b)
           l == Len(input)
           t == Len(hh.buf)
           c == hh.cap
           count == CeilDiv(l, U)
<1>1. t = i + l /\ i \in Nat /\ l \in Nat
  BY PartsOfConcat
<1>2. t <= hh.high /\ hh.high <= c /\ c \in Nat /\ hh.high \in Nat
  BY HasherFields
<1>3. count = 1 => l = U
  BY <1>1, LengthFacts
<1>4. count \in Nat
  BY <1>1, CeilIs
<1>5. t - i = l
  <2> HIDE DEF t, i, l
  <2> QED BY <1>1
<1>6. merkleizePanics(hh, i, lim) <=>
        \/ lim # 0 /\ count > lim
        \/ count = 1 /\ lim <= 1 /\ i + U > c
  BY <1>5 DEF merkleizePanics
<1>7. lim = 0 \/ count <= lim
  OBVIOUS
<1>8. reach(hh, i, lim) = MaxOf(i + U, IF (lim > 1 \/ count > 1) /\ (l \div U) % 2 = 1
                                       THEN t + U ELSE t)
  BY <1>5 DEF reach
<1> HIDE DEF i, t, c
<1>9. ~ merkleizePanics(hh, i, lim)
  <2> HIDE DEF count
  <2>1. ~ (lim # 0 /\ count > lim)
    BY <1>4, <1>7
  <2>2. count = 1 => i + U <= c
    <3> HIDE DEF l
    <3> QED BY <1>0, <1>1, <1>2, <1>3
  <2>3. ~ (count = 1 /\ i + U > c)
    BY <1>0, <1>1, <1>2, <2>2
  <2> QED BY <1>6, <2>1, <2>3
<1>10. reach(hh, i, lim) \in Nat
  <2> DEFINE r == IF (lim > 1 \/ count > 1) /\ (l \div U) % 2 = 1 THEN t + U ELSE t
  <2>1. r \in Nat
    <3> HIDE DEF l, count
    <3> QED BY <1>0, <1>1
  <2> HIDE DEF r
  <2>2. MaxOf(i + U, r) \in Nat
    <3> HIDE DEF l
    <3> QED BY <1>0, <1>1, <2>1 DEF MaxOf
  <2> QED BY <1>8, <2>2 DEF r
<1> QED BY <1>9, <1>10 DEF i

(* Merkleize puts the root in the place of what lies behind indx.          *)
LEMMA MerkleizeStep ==
    ASSUME NEW X, NEW hh, NEW b, NEW input, IsUniverse(X), HasherAt(X, hh, b, input),
           NothingLost(Len(input)), CeilDiv(Len(input), U) <= 2^MaxTreeDepth
    PROVE  /\ HasherAt(X, Merkleize(hh, Len(b)), b, Root(input, CeilDiv(Len(input), U)))
           /\ Root(input, CeilDiv(Len(input), U)) \in ChunkOf(X)
<1>. hh \in HasherOf(X) /\ b \in Seq(X) /\ input \in Seq(X) /\ hh.buf = b \o input
     /\ hh.panic = FALSE
  BY DEF HasherAt
<1> DEFINE i == Len(b)
           limit == CeilDiv(Len(input), U)
           r == reach(hh, i, 0)
           a == Touch(hh, r)
           root == Root(input, limit)
<1>1. ~ merkleizePanics(hh, i, 0) /\ r \in Nat
  BY NoPanic
<1>2. limit \in Nat
  <2>1. Len(input) \in Nat
    OBVIOUS
  <2> QED BY <2>1, CeilIs
<1>3. merkleizeImpl(hh, i, 0) = root /\ root \in ChunkOf(X)
  <2>1. /\ hh.buf = b \o input /\ NothingLost(Len(input)) /\ 0 \in Nat /\ limit \in Nat
        /\ limit = IF 0 = 0 THEN CeilDiv(Len(input), U) ELSE 0
        /\ CeilDiv(Len(input), U) <= limit /\ limit <= 2^MaxTreeDepth
    BY <1>2
  <2> QED BY <2>1, MerkleizeIs
<1>4. Merkleize(hh, i) = Replace(a, i, root)
  BY <1>1, <1>3 DEF Merkleize
<1>5. root \in Seq(X)
  BY <1>3, FlatOne
<1> HIDE DEF r, root, limit
<1>6. a \in HasherOf(X) /\ a.buf = hh.buf /\ a.panic = hh.panic
  BY <1>1, TouchIs
<1> HIDE DEF a
<1>7. HasherAt(X, a, b, input)
  BY <1>6 DEF HasherAt
<1>8. HasherAt(X, Replace(a, i, root), b, root)
  BY <1>5, <1>7, ReplaceIs
<1> QED BY <1>3, <1>4, <1>8 DEF root, limit

(* MerkleizeWithMixin fills up first and mixes the length in.              *)
LEMMA MixinStep ==
    ASSUME NEW X, NEW hh, NEW b, NEW input, NEW m, NEW num, NEW limit, IsUniverse(X),
           HasherAt(X, hh, b, input), m \in Nat, Len(b) = m * U, num \in Nat, limit \in Nat,
           CeilDiv(Len(input), U) <= limit, limit <= 2^MaxTreeDepth
    PROVE  /\ HasherAt(X, MerkleizeWithMixin(hh, Len(b), num, limit), b,
                       hashPair(Root(input, limit), LengthChunk(num)))
           /\ hashPair(Root(input, limit), LengthChunk(num)) \in ChunkOf(X)
<1>. hh \in HasherOf(X) /\ b \in Seq(X) /\ input \in Seq(X) /\ hh.buf = b \o input
     /\ hh.panic = FALSE
  BY DEF HasherAt
<1>0. U \in Nat \ {0}
  BY ChunkAssumption
<1> DEFINE i == Len(b)
           f == FillUpTo32(hh)
           p == Padded(input)
           n == CeilDiv(Len(input), U)
           r == reach(f, i, limit)
           a == Touch(f, r)
           c == Touch(a, i + 2 * U)
           root == hashPair(Root(input, limit), LengthChunk(num))
<1>1. HasherAt(X, f, b, p)
  BY FillIs
<1>1a. f \in HasherOf(X) /\ f.buf = b \o p /\ f.panic = FALSE
  BY <1>1 DEF HasherAt
<1>2. p \in Seq(X) /\ Len(p) = n * U /\ n \in Nat
  <2>1. Len(input) \in Nat
    OBVIOUS
  <2> QED BY <2>1, PaddedIs, CeilIs
<1>3. NothingLost(Len(p)) /\ CeilDiv(Len(p), U) = n
  <2> HIDE DEF n, p
  <2> QED BY <1>2, LengthFacts, CeilIs
<1>4. n <= limit
  OBVIOUS
<1>5. Root(p, limit) = Root(input, limit)
  BY RootOfPadded
<1> HIDE DEF f, p, n
<1>6. ~ merkleizePanics(f, i, limit) /\ r \in Nat
  <2>1. limit = 0 \/ CeilDiv(Len(p), U) <= limit
    BY <1>3, <1>4
  <2> QED BY ONLY <1>1, <1>3, <2>1, limit \in Nat, NoPanic
<1>7. merkleizeImpl(f, i, limit) = Root(p, limit) /\ Root(p, limit) \in ChunkOf(X)
  <2>1. limit = IF limit = 0 THEN CeilDiv(Len(p), U) ELSE limit
    BY <1>2, <1>3, <1>4
  <2>2. /\ f.buf = b \o p /\ NothingLost(Len(p)) /\ limit \in Nat
        /\ CeilDiv(Len(p), U) <= limit /\ limit <= 2^MaxTreeDepth
        /\ b \in Seq(X) /\ p \in Seq(X) /\ IsUniverse(X)
    BY <1>1a, <1>2, <1>3, <1>4
  <2> QED BY ONLY <2>1, <2>2, MerkleizeIs
<1>8. root \in ChunkOf(X) /\ root \in Seq(X)
  <2>1. Root(input, limit) \in ChunkOf(X) /\ LengthChunk(num) \in ChunkOf(X)
    BY <1>5, <1>7, ChunkTypes
  <2>2. root \in ChunkOf(X)
    BY <2>1, ChunkTypes
  <2> HIDE DEF root
  <2> QED BY <2>2, FlatOne
<1>9. MerkleizeWithMixin(hh, i, num, limit) = Replace(c, i, root)
  BY <1>5, <1>6, <1>7 DEF MerkleizeWithMixin, f
<1> HIDE DEF r, root
<1>10. a \in HasherOf(X) /\ a.buf = f.buf /\ a.panic = f.panic
  BY <1>1a, <1>6, TouchIs
<1>11. HasherAt(X, c, b, p)
  <2>1. i + 2 * U \in Nat
    BY <1>0
  <2> HIDE DEF a
  <2>2. c \in HasherOf(X) /\ c.buf = a.buf /\ c.panic = a.panic
    BY <1>10, <2>1, TouchIs
  <2> QED BY <1>1a, <1>2, <1>10, <2>2 DEF HasherAt
<1> HIDE DEF c, a
<1>12. HasherAt(X, Replace(c, i, root), b, root)
  BY <1>8, <1>11, ReplaceIs
<1> QED BY <1>8, <1>9, <1>12 DEF root

(* Appending, in the three ways there are.                                 *)
LEMMA AppendsAt ==
    ASSUME NEW X, NEW hh, NEW b, NEW t, NEW cells, IsUniverse(X), HasherAt(X, hh, b, t),
           cells \in Seq(X)
    PROVE  /\ HasherAt(X, Append_(hh, cells), b, t \o cells)
           /\ HasherAt(X, AppendUint64s(hh, cells), b, t \o cells)
           /\ HasherAt(X, AppendBytes32(hh, cells), b, t \o Padded(cells))
<1>. hh \in HasherOf(X) /\ b \in Seq(X) /\ t \in Seq(X) /\ hh.buf = b \o t /\ hh.panic = FALSE
  BY DEF HasherAt
<1>1. Padded(cells) \in Seq(X)
  BY PaddedIs
<1>2. \A c \in Seq(X) : (b \o t) \o c = b \o (t \o c) /\ t \o c \in Seq(X)
  BY ConcatAssociative
<1> DEFINE x == Append_(hh, cells)
           y == AppendUint64s(hh, cells)
           z == AppendBytes32(hh, cells)
<1>2a. hh \in HasherOf(X) /\ cells \in Seq(X) /\ IsUniverse(X)
  OBVIOUS
<1>3. x \in HasherOf(X) /\ x.buf = (b \o t) \o cells /\ x.panic = FALSE
  <2>1. x \in HasherOf(X) /\ x.buf = hh.buf \o cells /\ x.panic = hh.panic
    BY ONLY <1>2a, AppendIs
  <2> QED BY <2>1
<1>4. y \in HasherOf(X) /\ y.buf = (b \o t) \o cells /\ y.panic = FALSE
  <2>1. y \in HasherOf(X) /\ y.buf = hh.buf \o cells /\ y.panic = hh.panic
    BY ONLY <1>2a, AppendUint64sIs
  <2> QED BY <2>1
<1>5. z \in HasherOf(X) /\ z.buf = (b \o t) \o Padded(cells) /\ z.panic = FALSE
  <2>1. z \in HasherOf(X) /\ z.buf = hh.buf \o Padded(cells) /\ z.panic = hh.panic
    BY ONLY <1>2a, AppendBytes32Is
  <2> QED BY <2>1
<1> HIDE DEF x, y, z
<1>6. HasherAt(X, x, b, t \o cells) /\ HasherAt(X, y, b, t \o cells)
      /\ HasherAt(X, z, b, t \o Padded(cells))
  BY <1>1, <1>2, <1>3, <1>4, <1>5 DEF HasherAt
<1> QED BY <1>6 DEF x, y, z

(* Chunk number j of cells, with zeros where there are none.               *)
CellsAt(cells, j) ==
    [k \in 1 .. U |-> IF j * U + k <= Len(cells) THEN cells[j * U + k] ELSE Zero]

LEMMA RowCells ==
    ASSUME NEW X, NEW cells, NEW j, IsUniverse(X), cells \in Seq(X), j \in Nat
    PROVE  (IF (j + 1) * U <= Len(Padded(cells)) THEN ChunkAt(Padded(cells), j) ELSE ZeroChunk)
             = CellsAt(cells, j)
<1>0. U \in Nat \ {0}
  BY ChunkAssumption
<1> DEFINE p == Padded(cells)
           l == Len(cells)
           n == CeilDiv(l, U)
<1>1. /\ p \in Seq(X) /\ Len(p) = n * U /\ l <= Len(p)
      /\ \A i \in 1 .. Len(p) : p[i] = IF i <= l THEN cells[i] ELSE Zero
  BY PaddedIs
<1>2. n \in Nat /\ l \in Nat
  <2>1. l \in Nat
    OBVIOUS
  <2> QED BY <2>1, CeilIs
<1>3. j * U \in Nat /\ (j + 1) * U = j * U + U
  BY <1>0
<1> DEFINE a == j * U
<1>3a. a \in Nat /\ (j + 1) * U = a + U
  BY <1>3
<1>4. CellsAt(cells, j) = [k \in 1 .. U |-> IF a + k <= l THEN cells[a + k] ELSE Zero]
  BY DEF CellsAt
<1> HIDE DEF p, l, n, a
<1>5. CASE (j + 1) * U <= Len(p)
  <2>1. ChunkAt(p, j) \in ChunkOf(X) /\ \A k \in 1 .. U : ChunkAt(p, j)[k] = p[j * U + k]
    BY <1>1, <1>5, ChunkCells
  <2>2. \A k \in 1 .. U : a + k \in 1 .. Len(p)
    BY <1>0, <1>1, <1>2, <1>3a, <1>5
  <2>3. \A k \in 1 .. U : ChunkAt(p, j)[k] = IF a + k <= l THEN cells[a + k] ELSE Zero
    BY <1>1, <2>1, <2>2 DEF a
  <2>4. ChunkAt(p, j) = [k \in 1 .. U |-> ChunkAt(p, j)[k]]
    BY <2>1 DEF ChunkOf
  <2> QED BY <1>4, <1>5, <2>3, <2>4 DEF p
<1>6. CASE ~ ((j + 1) * U <= Len(p))
  <2>1. n <= j
    <3>1. SUFFICES ASSUME j + 1 <= n PROVE FALSE
      BY <1>2
    <3>2. n * U = (j + 1) * U + (n - (j + 1)) * U /\ (n - (j + 1)) * U \in Nat
      BY <1>0, <1>2, <3>1
    <3> DEFINE q == (n - (j + 1)) * U
               r == n * U
    <3>3. q \in Nat /\ r = a + U + q /\ Len(p) = r
      BY <1>1, <1>3a, <3>2
    <3>4. ~ (a + U <= Len(p))
      BY <1>3a, <1>6
    <3> HIDE DEF q, r
    <3> QED BY <1>0, <1>3a, <3>3, <3>4
  <2>2. j * U = n * U + (j - n) * U /\ (j - n) * U \in Nat
    BY <1>0, <1>2, <2>1
  <2>3. l <= a
    <3> DEFINE q == (j - n) * U
               r == n * U
    <3>1. q \in Nat /\ a = r + q /\ l <= r /\ r \in Nat
      BY <1>0, <1>1, <1>2, <2>2 DEF a
    <3> HIDE DEF q, r
    <3> QED BY <1>2, <3>1
  <2>4. \A k \in 1 .. U : ~ (a + k <= l)
    BY <1>2, <1>3a, <2>3
  <2>5. CellsAt(cells, j) = [k \in 1 .. U |-> Zero]
    BY <1>4, <2>4
  <2> QED BY <1>6, <2>5 DEF ZeroChunk, Zeros, p
<1> QED BY <1>5, <1>6

(* The reference by its lowest row.                                        *)
RootFrom(row, d) ==
    LET level[e \in 0 .. d] ==
            IF e = 0 THEN row
            ELSE [j \in 0 .. 2^(d - e) - 1 |->
                    hashPair(level[e - 1][2 * j], level[e - 1][2 * j + 1])]
    IN  level[d][0]
RowOf(cells, d) == [j \in 0 .. 2^d - 1 |-> CellsAt(cells, j)]

LEMMA RootByRow ==
    ASSUME NEW X, NEW cells, NEW limit, IsUniverse(X), cells \in Seq(X),
           limit \in Nat, limit <= 2^MaxTreeDepth
    PROVE  Root(cells, limit) = RootFrom(RowOf(cells, DepthFor(limit)), DepthFor(limit))
<1> DEFINE d == DepthFor(limit)
           p == Padded(cells)
           row == [j \in 0 .. 2^d - 1 |-> IF (j + 1) * U <= Len(p) THEN ChunkAt(p, j)
                                          ELSE ZeroChunk]
<1>1. Root(cells, limit) = RootFrom(row, d)
  BY DEF Root, RootFrom
<1>2. d \in Nat /\ 2^d \in Nat
  <2>1. d \in 0 .. MaxTreeDepth
    BY DepthIs
  <2>2. d \in Nat
    BY <2>1, ChunkAssumption
  <2> HIDE DEF d
  <2> QED BY <2>2, TwoPowers
<1>3. \A j \in 0 .. 2^d - 1 : j \in Nat
  <2> DEFINE q == 2^d
  <2> HIDE DEF q
  <2>1. \A j \in 0 .. q - 1 : j \in Nat
    OBVIOUS
  <2> QED BY <2>1 DEF q
<1> HIDE DEF d
<1>4. \A j \in 0 .. 2^d - 1 :
         (IF (j + 1) * U <= Len(p) THEN ChunkAt(p, j) ELSE ZeroChunk) = CellsAt(cells, j)
  BY <1>3, RowCells
<1>5. row = RowOf(cells, d)
  BY <1>4 DEF RowOf
<1> QED BY <1>1, <1>5 DEF d

(* Zeros at the end do not matter to it.                                   *)
LEMMA RootOfZeros ==
    ASSUME NEW X, NEW cells, NEW z, NEW limit, IsUniverse(X), cells \in Seq(X), z \in Nat,
           limit \in Nat, limit <= 2^MaxTreeDepth
    PROVE  /\ Root(cells \o Zeros(z), limit) = Root(cells, limit)
           /\ \A j \in Nat : CellsAt(cells \o Zeros(z), j) = CellsAt(cells, j)
<1>0. U \in Nat \ {0}
  BY ChunkAssumption
<1> DEFINE t == cells \o Zeros(z)
           l == Len(cells)
<1>1. Zeros(z) \in Seq(X) /\ Len(Zeros(z)) = z /\ \A i \in 1 .. z : Zeros(z)[i] = Zero
  BY ChunkTypes DEF Zeros
<1>2. /\ t \in Seq(X) /\ Len(t) = l + z /\ l \in Nat
      /\ \A i \in 1 .. l : t[i] = cells[i]
      /\ \A i \in 1 .. z : t[l + i] = Zero
  <2> DEFINE zs == Zeros(z)
  <2>1. zs \in Seq(X) /\ Len(zs) = z /\ cells \in Seq(X) /\ \A i \in 1 .. z : zs[i] = Zero
    BY <1>1
  <2> HIDE DEF zs
  <2>2. /\ cells \o zs \in Seq(X) /\ Len(cells \o zs) = Len(cells) + Len(zs)
        /\ \A i \in 1 .. Len(zs) : (cells \o zs)[Len(cells) + i] = zs[i]
        /\ \A i \in 1 .. Len(cells) : (cells \o zs)[i] = cells[i]
    BY ONLY <2>1
  <2> QED BY <2>1, <2>2 DEF zs
<1> HIDE DEF t, l
<1>3. \A i \in Nat \ {0} : (IF i <= Len(t) THEN t[i] ELSE Zero)
                             = IF i <= l THEN cells[i] ELSE Zero
  <2> TAKE i \in Nat \ {0}
  <2>1. CASE i <= l
    BY <1>2, <2>1
  <2>2. CASE ~ (i <= l) /\ i <= Len(t)
    <3>1. i - l \in 1 .. z /\ l + (i - l) = i
      BY <1>2, <2>2
    <3>2. t[l + (i - l)] = Zero
      BY <1>2, <3>1
    <3> QED BY <2>2, <3>1, <3>2
  <2>3. CASE ~ (i <= l) /\ ~ (i <= Len(t))
    BY <2>3
  <2> QED BY <2>1, <2>2, <2>3
<1>4. ASSUME NEW j \in Nat PROVE CellsAt(t, j) = CellsAt(cells, j)
  <2>1. \A k \in 1 .. U : j * U + k \in Nat \ {0}
    <3>1. j * U \in Nat
      BY <1>0
    <3> QED BY <3>1
  <2>2. \A k \in 1 .. U : (IF j * U + k <= Len(t) THEN t[j * U + k] ELSE Zero)
                             = IF j * U + k <= l THEN cells[j * U + k] ELSE Zero
    BY <1>3, <2>1
  <2> QED BY <2>2 DEF CellsAt, l
<1> DEFINE d == DepthFor(limit)
<1>5. \A j \in 0 .. 2^d - 1 : j \in Nat
  <2> DEFINE q == 2^d
  <2> HIDE DEF q
  <2>1. \A j \in 0 .. q - 1 : j \in Nat
    OBVIOUS
  <2> QED BY <2>1 DEF q
<1>6. RowOf(t, d) = RowOf(cells, d)
  <2> HIDE DEF d
  <2> QED BY <1>4, <1>5 DEF RowOf
<1>7. Root(t, limit) = RootFrom(RowOf(t, d), d) /\ Root(cells, limit) = RootFrom(RowOf(cells, d), d)
  BY <1>2, RootByRow
<1> QED BY <1>4, <1>6, <1>7 DEF t

(* parseBitlist cuts zeros off the end, and nothing else.                  *)
LEMMA TrimIs ==
    ASSUME NEW X, NEW cells, IsUniverse(X), cells \in Seq(X)
    PROVE  /\ parseBitlist(cells) \in Seq(X) /\ Len(parseBitlist(cells)) <= Len(cells)
           /\ \E z \in Nat : cells = parseBitlist(cells) \o Zeros(z)
           /\ LET n == Len(parseBitlist(cells)) IN n = 0 \/ cells[n] # Zero
<1> DEFINE l == Len(cells)
           nonzero == {i \in 1 .. l : cells[i] # Zero}
           B == {m \in Nat : \A i \in nonzero : i <= m}
<1>1. l \in Nat /\ l \in B
  OBVIOUS
<1>2. PICK m \in B : \A k \in B : m <= k
  <2>1. B \in SUBSET Nat /\ B # {}
    BY <1>1
  <2> HIDE DEF B
  <2> QED BY <2>1, LeastNat
<1>3. m \in 0 .. l
  BY <1>1, <1>2
<1>4. m = 0 \/ m \in nonzero
  <2>1. SUFFICES ASSUME m # 0, ~ (m \in nonzero) PROVE FALSE
    OBVIOUS
  <2>2. m - 1 \in B
    BY <1>2, <2>1
  <2> HIDE DEF B
  <2>3. m <= m - 1 /\ m \in Nat
    BY <1>2, <1>3, <2>2
  <2> QED BY <2>3
<1> DEFINE P(n) == (n = 0 \/ n \in nonzero) /\ \A i \in nonzero : i <= n
           n == CHOOSE n \in 0 .. l : P(n)
<1>5. P(m)
  BY <1>2, <1>4
<1>6. parseBitlist(cells) = SubSeq(cells, 1, n)
  BY DEF parseBitlist
<1>7. n \in 0 .. l /\ P(n)
  <2> HIDE DEF P
  <2> QED BY <1>3, <1>5
<1> HIDE DEF n
<1> DEFINE t == SubSeq(cells, 1, n)
           z == l - n
<1>8. t \in Seq(X) /\ Len(t) = n /\ \A i \in 1 .. n : t[i] = cells[i]
  BY <1>7
<1>9. z \in Nat /\ Zeros(z) \in Seq(X) /\ Len(Zeros(z)) = z
      /\ \A i \in 1 .. z : Zeros(z)[i] = Zero
  <2>1. z \in Nat
    BY <1>1, <1>7
  <2> HIDE DEF z
  <2> QED BY <2>1, ChunkTypes DEF Zeros
<1>10. \A i \in 1 .. z : cells[n + i] = Zero
  <2> TAKE i \in 1 .. z
  <2>1. n + i \in 1 .. l /\ ~ (n + i <= n)
    BY <1>1, <1>7
  <2>2. n + i \notin nonzero
    BY <1>7, <2>1
  <2> QED BY <2>1, <2>2
<1> HIDE DEF t
<1>11. cells = t \o Zeros(z)
  <2>1. t \o Zeros(z) \in Seq(X) /\ Len(t \o Zeros(z)) = n + z
        /\ (\A i \in 1 .. z : (t \o Zeros(z))[n + i] = Zeros(z)[i])
        /\ (\A i \in 1 .. n : (t \o Zeros(z))[i] = t[i])
    <3> DEFINE zs == Zeros(z)
    <3>1. t \in Seq(X) /\ zs \in Seq(X) /\ Len(t) = n /\ Len(zs) = z
      BY <1>8, <1>9
    <3> HIDE DEF zs, z
    <3>2. /\ t \o zs \in Seq(X) /\ Len(t \o zs) = Len(t) + Len(zs)
          /\ \A i \in 1 .. Len(zs) : (t \o zs)[Len(t) + i] = zs[i]
          /\ \A i \in 1 .. Len(t) : (t \o zs)[i] = t[i]
      BY ONLY <3>1
    <3> QED BY <3>1, <3>2 DEF zs
  <2>2. n + z = l
    BY <1>1, <1>7
  <2> DEFINE s == t \o Zeros(z)
  <2> HIDE DEF s, z
  <2>3. ASSUME NEW i \in 1 .. l PROVE s[i] = cells[i]
    <3>1. CASE i <= n
      BY <1>7, <1>8, <2>1, <3>1 DEF s
    <3>2. CASE ~ (i <= n)
      <4>1. i - n \in 1 .. z /\ n + (i - n) = i
        BY <1>7, <2>2, <3>2, <1>9
      <4>2. s[n + (i - n)] = Zero /\ cells[n + (i - n)] = Zero
        BY <1>9, <1>10, <2>1, <4>1 DEF s
      <4> QED BY <4>1, <4>2
    <3> QED BY <3>1, <3>2
  <2>4. s \in Seq(X) /\ Len(s) = l
    BY <2>1, <2>2 DEF s
  <2> HIDE DEF l
  <2>5. Len(cells) = l
    BY DEF l
  <2>6. s = cells
    BY <2>3, <2>4, <2>5
  <2> QED BY <2>6 DEF s
<1>12. parseBitlist(cells) = t
  BY <1>6 DEF t
<1>13. t \in Seq(X) /\ Len(t) <= l
  BY <1>1, <1>7, <1>8
<1> HIDE DEF z, l
<1>14. \E y \in Nat : cells = t \o Zeros(y)
  BY <1>9, <1>11
<1>15. Len(t) = 0 \/ cells[Len(t)] # Zero
  BY <1>7, <1>8
<1> QED BY <1>12, <1>13, <1>14, <1>15 DEF l

LEMMA RootOfOne ==
    ASSUME NEW X, NEW cells, IsUniverse(X), cells \in Seq(X), Len(cells) \in 1 .. U
    PROVE  /\ Root(cells, 1) = Padded(cells) /\ Padded(cells) \in ChunkOf(X)
           /\ CeilDiv(Len(cells), U) = 1
<1>0. U \in Nat \ {0} /\ MaxTreeDepth \in Nat
  BY ChunkAssumption
<1>1. CeilDiv(Len(cells), U) = 1
  <2> DEFINE l == Len(cells)
  <2>1. l \in Nat /\ 1 \in Nat /\ l <= 1 * U /\ 1 * U < l + U
    BY <1>0
  <2> HIDE DEF l
  <2>2. CeilDiv(l, U) = 1
    BY ONLY <2>1, CeilIs
  <2> QED BY <2>2 DEF l
<1>2. PICK cs : /\ cs \in Seq(ChunkOf(X)) /\ Len(cs) = CeilDiv(Len(cells), U)
                /\ FlattenSeq(cs) = Padded(cells)
  BY PaddedIs
<1>3. Len(cs) = 1
  BY <1>1, <1>2
<1>4. cs = <<cs[1]>> /\ cs[1] \in ChunkOf(X) /\ cs # << >>
  <2>1. cs \in Seq(ChunkOf(X))
    BY <1>2
  <2> QED BY ONLY <1>3, <2>1
<1>5. cs[1] = Padded(cells)
  BY <1>2, <1>4, FlatOne
<1>6. 1 <= 2^MaxTreeDepth /\ 1 \in Nat
  <2> DEFINE q == 2^MaxTreeDepth
  <2>1. q \in Nat \ {0}
    BY <1>0, TwoPowers
  <2> HIDE DEF q
  <2>2. 1 <= q
    BY <2>1
  <2> QED BY <2>2 DEF q
<1>7. DepthFor(1) = 0
  BY <1>6, DepthIs
<1>8. PICK L : L \in LevelsOf(X, cs, 0)
  <2>1. 0 \in 0 .. MaxTreeDepth /\ Len(cs) <= 2^0
    BY <1>0, <1>3, TwoPowers
  <2> QED BY <1>2, <2>1, LevelsExist
<1>9. Root(cells, 1) = L[0][1]
  <2>1. Root(cells, 1) = IF cs = << >> THEN zeroHashes[0] ELSE L[0][1]
    BY <1>2, <1>6, <1>7, <1>8, RootIs
  <2> QED BY <1>4, <2>1
<1>10. L[0] = cs
  BY <1>8 DEF LevelsOf, IsLevels
<1> QED BY <1>1, <1>4, <1>5, <1>9, <1>10

(* Beginning at the end of the buffer.                                     *)
LEMMA StartAt ==
    ASSUME NEW X, NEW hh, NEW b, HasherAt(X, hh, b, << >>)
    PROVE  hh.buf = b /\ Index(hh) = Len(b) /\ b \in Seq(X)
BY DEF HasherAt, Index

LEMMA AppendsFrom ==
    ASSUME NEW X, NEW hh, NEW b, NEW cells, IsUniverse(X), HasherAt(X, hh, b, << >>),
           cells \in Seq(X)
    PROVE  /\ HasherAt(X, Append_(hh, cells), b, cells)
           /\ HasherAt(X, AppendUint64s(hh, cells), b, cells)
           /\ HasherAt(X, AppendBytes32(hh, cells), b, Padded(cells))
<1>1. << >> \o cells = cells /\ << >> \o Padded(cells) = Padded(cells)
  <2>1. Padded(cells) \in Seq(X)
    BY PaddedIs
  <2> QED BY <2>1, ConcatEmptySeq
<1>2. /\ HasherAt(X, Append_(hh, cells), b, << >> \o cells)
      /\ HasherAt(X, AppendUint64s(hh, cells), b, << >> \o cells)
      /\ HasherAt(X, AppendBytes32(hh, cells), b, << >> \o Padded(cells))
  BY AppendsAt
<1> QED BY <1>1, <1>2

(* PutUint64 and its like, PutBytes and PutBitlist put the root there.     *)
LEMMA PutUint64At ==
    ASSUME NEW X, NEW hh, NEW b, NEW cell, IsUniverse(X), HasherAt(X, hh, b, << >>),
           cell \in X
    PROVE  /\ HasherAt(X, PutUint64(hh, cell), b, Root(<<cell>>, 1))
           /\ Root(<<cell>>, 1) \in ChunkOf(X)
<1>1. <<cell>> \in Seq(X) /\ Len(<<cell>>) \in 1 .. U
  BY ChunkAssumption
<1>2. HasherAt(X, AppendBytes32(hh, <<cell>>), b, Padded(<<cell>>))
  BY <1>1, AppendsFrom
<1> QED BY <1>1, <1>2, RootOfOne DEF PutUint64

LEMMA PutBytesAt ==
    ASSUME NEW X, NEW hh, NEW b, NEW cells, IsUniverse(X), HasherAt(X, hh, b, << >>),
           cells \in Seq(X), cells # << >>, CeilDiv(Len(cells), U) <= 2^MaxTreeDepth
    PROVE  /\ HasherAt(X, PutBytes(hh, cells), b, Root(cells, CeilDiv(Len(cells), U)))
           /\ Root(cells, CeilDiv(Len(cells), U)) \in ChunkOf(X)
<1> DEFINE a == AppendBytes32(hh, cells)
           n == CeilDiv(Len(cells), U)
           p == Padded(cells)
<1>0. U \in Nat \ {0} /\ Len(cells) \in Nat \ {0}
  BY ChunkAssumption
<1>1. HasherAt(X, a, b, p)
  BY AppendsFrom
<1>2. CASE Len(cells) <= U
  <2>1. Len(cells) \in 1 .. U
    BY <1>0, <1>2
  <2>2. PutBytes(hh, cells) = a
    BY <1>2 DEF PutBytes
  <2>3. Root(cells, 1) = p /\ p \in ChunkOf(X) /\ n = 1
    BY <2>1, RootOfOne
  <2> QED BY <1>1, <2>2, <2>3
<1>3. CASE ~ (Len(cells) <= U)
  <2>1. PutBytes(hh, cells) = Merkleize(a, Len(b))
    BY <1>3, StartAt DEF PutBytes
  <2>2. n \in Nat /\ Len(p) = n * U
    BY <1>0, CeilIs, PaddedIs
  <2>3. NothingLost(Len(p)) /\ CeilDiv(Len(p), U) = n
    <3> HIDE DEF n, p
    <3> QED BY <2>2, LengthFacts, CeilIs
  <2>4. Root(p, n) = Root(cells, n)
    BY RootOfPadded
  <2> HIDE DEF a, n, p
  <2>5. n <= 2^MaxTreeDepth
    BY DEF n
  <2>6. CeilDiv(Len(p), U) <= 2^MaxTreeDepth
    BY <2>3, <2>5
  <2>7. /\ HasherAt(X, Merkleize(a, Len(b)), b, Root(p, CeilDiv(Len(p), U)))
        /\ Root(p, CeilDiv(Len(p), U)) \in ChunkOf(X)
    BY ONLY IsUniverse(X), <1>1, <2>3, <2>6, MerkleizeStep
  <2> QED BY <2>1, <2>3, <2>4, <2>7 DEF n
<1> QED BY <1>2, <1>3

LEMMA PutBitlistAt ==
    ASSUME NEW X, NEW hh, NEW b, NEW cells, NEW maxSize, NEW m, IsUniverse(X),
           HasherAt(X, hh, b, << >>), m \in Nat, Len(b) = m * U,
           cells \in Seq(X), maxSize \in Nat, CeilDiv(maxSize, U) <= 2^MaxTreeDepth,
           CeilDiv(Len(parseBitlist(cells)), U) <= CeilDiv(maxSize, U)
    PROVE  LET root == hashPair(Root(cells, CeilDiv(maxSize, U)), LengthChunk(Len(cells)))
           IN  /\ HasherAt(X, PutBitlist(hh, cells, maxSize), b, root)
               /\ root \in ChunkOf(X)
<1> DEFINE t == parseBitlist(cells)
           a == AppendBytes32(hh, t)
           p == Padded(t)
           limit == CeilDiv(maxSize, U)
           num == Len(cells)
<1>0. U \in Nat \ {0} /\ num \in Nat
  BY ChunkAssumption
<1>1. t \in Seq(X) /\ Len(t) <= Len(cells) /\ \E z \in Nat : cells = t \o Zeros(z)
  BY TrimIs
<1>2. PutBitlist(hh, cells, maxSize) = MerkleizeWithMixin(a, Len(b), num, limit)
  BY StartAt DEF PutBitlist
<1>3. HasherAt(X, a, b, p)
  BY <1>1, AppendsFrom
<1>4. limit \in Nat /\ limit <= 2^MaxTreeDepth
  BY CeilIs
<1>5. Root(p, limit) = Root(cells, limit)
  <2>1. PICK z : z \in Nat /\ cells = t \o Zeros(z)
    BY <1>1
  <2> HIDE DEF t, limit
  <2>2. Root(t \o Zeros(z), limit) = Root(t, limit)
    BY <1>1, <1>4, <2>1, RootOfZeros
  <2>3. Root(p, limit) = Root(t, limit)
    BY <1>1, RootOfPadded
  <2> QED BY <2>1, <2>2, <2>3
<1>6. CeilDiv(Len(p), U) <= limit
  <2> DEFINE l == Len(t)
             n == CeilDiv(l, U)
  <2>0. n <= limit
    OBVIOUS
  <2> HIDE DEF t, limit
  <2>1. l \in Nat /\ Len(p) = n * U
    BY <1>1, PaddedIs
  <2> HIDE DEF l, p
  <2>2. n \in Nat
    BY <2>1, CeilIs
  <2> HIDE DEF n
  <2>3. CeilDiv(Len(p), U) = n
    BY <2>1, <2>2, CeilIs
  <2> QED BY <2>0, <2>3
<1> HIDE DEF a, p, limit, num, t
<1>7. /\ HasherAt(X, MerkleizeWithMixin(a, Len(b), num, limit), b,
                  hashPair(Root(p, limit), LengthChunk(num)))
      /\ hashPair(Root(p, limit), LengthChunk(num)) \in ChunkOf(X)
  BY <1>0, <1>3, <1>4, <1>6, MixinStep
<1> QED BY <1>2, <1>5, <1>7 DEF num, limit

(* The chunks of padded cells.                                             *)
ChunksOf(cells) == [j \in 1 .. Len(Padded(cells)) \div U |-> ChunkAt(Padded(cells), j - 1)]

LEMMA ChunksOfIs ==
    ASSUME NEW X, NEW cells, IsUniverse(X), cells \in Seq(X)
    PROVE  /\ ChunksOf(cells) \in Seq(ChunkOf(X)) /\ Len(ChunksOf(cells)) = CeilDiv(Len(cells), U)
           /\ FlattenSeq(ChunksOf(cells)) = Padded(cells)
           /\ \A j \in 1 .. Len(ChunksOf(cells)) : ChunksOf(cells)[j] = CellsAt(cells, j - 1)
           /\ \A j \in Nat : j > CeilDiv(Len(cells), U) => CellsAt(cells, j - 1) = ZeroChunk
           /\ ChunksOf(Padded(cells)) = ChunksOf(cells)
<1>0. U \in Nat \ {0}
  BY ChunkAssumption
<1> DEFINE p == Padded(cells)
           n == CeilDiv(Len(cells), U)
           t == ChunksOf(cells)
<1>1. n \in Nat
  <2>1. Len(cells) \in Nat
    OBVIOUS
  <2> QED BY <2>1, CeilIs
<1>2. p \in Seq(X) /\ Len(p) = n * U
  BY PaddedIs
<1>3. PICK cs \in Seq(ChunkOf(X)) : Len(cs) = n /\ FlattenSeq(cs) = p
  BY PaddedIs
<1>3a. Len(p) \div U = n
  <2> HIDE DEF p, n
  <2> QED BY <1>1, <1>2, CeilIs
<1>4. t = cs
  <2>1. t = [j \in 1 .. n |-> ChunkAt(p, j - 1)]
    BY <1>3a DEF ChunksOf
  <2>2. \A j \in 0 .. n - 1 : ChunkAt(p, j) = cs[j + 1]
    <3>1. \A j \in 0 .. Len(cs) - 1 : ChunkAt(FlattenSeq(cs), j) = cs[j + 1]
      BY <1>3, FlatChunks
    <3> QED BY <1>3, <3>1
  <2> HIDE DEF t, n, p
  <2>3. \A j \in 1 .. n : ChunkAt(p, j - 1) = cs[j]
    <3> TAKE j \in 1 .. n
    <3>1. j - 1 \in 0 .. n - 1 /\ (j - 1) + 1 = j
      BY <1>1
    <3>2. ChunkAt(p, j - 1) = cs[(j - 1) + 1]
      BY <2>2, <3>1
    <3> QED BY <3>1, <3>2
  <2>4. t = [j \in 1 .. n |-> cs[j]]
    BY <2>1, <2>3
  <2> QED BY <1>3, <2>4
<1>5. ASSUME NEW j \in Nat
      PROVE  /\ j < n => ChunkAt(p, j) = CellsAt(cells, j)
             /\ j >= n => CellsAt(cells, j) = ZeroChunk
  <2>1. (IF (j + 1) * U <= Len(p) THEN ChunkAt(p, j) ELSE ZeroChunk) = CellsAt(cells, j)
    BY RowCells
  <2> HIDE DEF n, p
  <2>2. CASE j < n
    <3>1. n * U = (j + 1) * U + (n - (j + 1)) * U /\ (n - (j + 1)) * U \in Nat /\ (j + 1) * U \in Nat
      BY <1>0, <1>1, <2>2
    <3>2. (j + 1) * U <= Len(p)
      BY <1>2, <3>1
    <3>3. ~ (j >= n)
      BY <1>1, <2>2
    <3> QED BY <2>1, <3>2, <3>3
  <2>3. CASE j >= n
    <3>1. (j + 1) * U = n * U + U + (j - n) * U /\ (j - n) * U \in Nat /\ n * U \in Nat
      BY <1>0, <1>1, <2>3
    <3>2. ~ ((j + 1) * U <= Len(p))
      BY <1>0, <1>2, <3>1
    <3>3. ~ (j < n)
      BY <1>1, <2>3
    <3> QED BY <2>1, <3>2, <3>3
  <2> QED BY <1>1, <2>2, <2>3
<1>6. \A j \in 1 .. Len(t) : t[j] = CellsAt(cells, j - 1)
  <2>1. t = [j \in 1 .. n |-> ChunkAt(p, j - 1)]
    BY <1>3a DEF ChunksOf
  <2>2. Len(t) = n
    BY <1>3, <1>4
  <2> HIDE DEF t, n, p
  <2>3. \A j \in 1 .. n : j - 1 \in Nat /\ j - 1 < n
    BY <1>1
  <2> QED BY <1>5, <2>1, <2>2, <2>3
<1>7. \A j \in Nat : j > n => CellsAt(cells, j - 1) = ZeroChunk
  <2> HIDE DEF n
  <2>1. \A j \in Nat : j > n => j - 1 \in Nat /\ j - 1 >= n
    BY <1>1
  <2> QED BY <1>5, <2>1
<1>8. ChunksOf(p) = t
  <2>1. Padded(p) = p
    BY <1>1, <1>2, PaddedIs
  <2> QED BY <2>1 DEF ChunksOf
<1> HIDE DEF t, n, p
<1>9. t \in Seq(ChunkOf(X)) /\ Len(t) = n /\ FlattenSeq(t) = p
  BY <1>3, <1>4
<1> QED BY <1>6, <1>7, <1>8, <1>9 DEF t, n, p

---------------------------------------------------------------------------
(***************************************************************************)
(* The open frames and the roots they have collected.                      *)
(***************************************************************************)
Universe == CHOOSE X : IsUniverse(X)
Chunk    == ChunkOf(Universe)

LEMMA UniverseIs == IsUniverse(Universe)
BY UniverseExists DEF Universe

Kinds   == {"result", "container", "vector", "containers", "byteLists", "byteVectors"}
FrameOf == [kind : Kinds, hIndx : Nat, wIndx : Nat, limit : 0 .. 2^MaxTreeDepth,
            roots : Seq(Chunk)]

(* The roots of the first i frames.                                        *)
RootsUpTo(s, i) == FlattenSeq([k \in 1 .. i |-> s[k].roots])

LEMMA FrameFields ==
    ASSUME NEW fr, fr \in FrameOf
    PROVE  /\ fr.kind \in Kinds /\ fr.hIndx \in Nat /\ fr.wIndx \in Nat
           /\ fr.limit \in 0 .. 2^MaxTreeDepth /\ fr.roots \in Seq(Chunk)
BY DEF FrameOf

LEMMA RootsUpToIs ==
    ASSUME NEW s, s \in Seq(FrameOf)
    PROVE  /\ RootsUpTo(s, 0) = << >>
           /\ \A i \in 0 .. Len(s) : RootsUpTo(s, i) \in Seq(Chunk)
           /\ \A i \in 1 .. Len(s) : RootsUpTo(s, i) = RootsUpTo(s, i - 1) \o s[i].roots
<1> DEFINE q(i) == [k \in 1 .. i |-> s[k].roots]
<1>1. \A k \in 1 .. Len(s) : s[k].roots \in Seq(Chunk)
  BY FrameFields
<1>2. ASSUME NEW i \in 0 .. Len(s) PROVE q(i) \in Seq(Seq(Chunk)) /\ Len(q(i)) = i
  <2>1. q(i) \in [1 .. i -> Seq(Chunk)] /\ i \in Nat
    BY <1>1
  <2> HIDE DEF q
  <2> QED BY <2>1, FunctionIsSeq
<1>3. q(0) = << >>
  <2>1. q(0) \in Seq(Seq(Chunk)) /\ Len(q(0)) = 0
    BY <1>2
  <2> HIDE DEF q
  <2> QED BY <2>1
<1>4. ASSUME NEW i \in 1 .. Len(s) PROVE q(i) = Append(q(i - 1), s[i].roots)
  <2> DEFINE a == q(i)
             b == Append(q(i - 1), s[i].roots)
  <2>1. i - 1 \in 0 .. Len(s) /\ i \in 0 .. Len(s)
    OBVIOUS
  <2>2. /\ q(i - 1) \in Seq(Seq(Chunk)) /\ Len(q(i - 1)) = i - 1
        /\ a \in Seq(Seq(Chunk)) /\ Len(a) = i
    BY <1>2, <2>1
  <2>3. \A k \in 1 .. i : a[k] = s[k].roots
    OBVIOUS
  <2>4. \A k \in 1 .. i - 1 : q(i - 1)[k] = s[k].roots
    OBVIOUS
  <2>5. s[i].roots \in Seq(Chunk)
    BY <1>1
  <2> HIDE DEF q, a
  <2>6. b \in Seq(Seq(Chunk)) /\ Len(b) = i
        /\ \A k \in 1 .. i : b[k] = IF k = i THEN s[i].roots ELSE q(i - 1)[k]
    BY <2>2, <2>5
  <2> HIDE DEF b
  <2>7. \A k \in 1 .. i : a[k] = b[k]
    BY <2>3, <2>4, <2>6
  <2>8. a = b
    BY <2>2, <2>6, <2>7
  <2> QED BY <2>8 DEF a, b
<1>5. \A i : RootsUpTo(s, i) = FlattenSeq(q(i))
  BY DEF RootsUpTo
<1> HIDE DEF q
<1>6. RootsUpTo(s, 0) = << >>
  BY <1>3, <1>5, FlattenAppend
<1>7. \A i \in 0 .. Len(s) : RootsUpTo(s, i) \in Seq(Chunk)
  BY <1>2, <1>5, FlattenAppend
<1>8. ASSUME NEW i \in 1 .. Len(s)
      PROVE  RootsUpTo(s, i) = RootsUpTo(s, i - 1) \o s[i].roots
  <2>1. q(i - 1) \in Seq(Seq(Chunk))
    BY <1>2
  <2>2. FlattenSeq(Append(q(i - 1), s[i].roots)) = FlattenSeq(q(i - 1)) \o s[i].roots
    BY <1>1, <2>1, FlattenAppend
  <2> QED BY <1>4, <1>5, <2>2
<1> QED BY <1>6, <1>7, <1>8

(* The roots of the frames depend on nothing else in them.                 *)
LEMMA SameRoots ==
    ASSUME NEW s, NEW t, NEW i, \A k \in 1 .. i : s[k].roots = t[k].roots
    PROVE  RootsUpTo(s, i) = RootsUpTo(t, i)
<1>1. [k \in 1 .. i |-> s[k].roots] = [k \in 1 .. i |-> t[k].roots]
  OBVIOUS
<1> QED BY <1>1 DEF RootsUpTo

(* One more root in the innermost frame.                                   *)
LEMMA AddRootIs ==
    ASSUME NEW s, NEW root, s \in Seq(FrameOf), s # << >>, root \in Chunk
    PROVE  /\ AddRoot(s, root) \in Seq(FrameOf) /\ Len(AddRoot(s, root)) = Len(s)
           /\ \A i \in 1 .. Len(s) - 1 : AddRoot(s, root)[i] = s[i]
           /\ AddRoot(s, root)[Len(s)] =
                [s[Len(s)] EXCEPT !.roots = Append(s[Len(s)].roots, root)]
           /\ \A i \in 0 .. Len(s) - 1 : RootsUpTo(AddRoot(s, root), i) = RootsUpTo(s, i)
           /\ RootsUpTo(AddRoot(s, root), Len(s)) = Append(RootsUpTo(s, Len(s)), root)
<1> DEFINE n == Len(s)
           t == AddRoot(s, root)
           last == s[n]
           new == [last EXCEPT !.roots = Append(last.roots, root)]
<1>1. n \in 1 .. Len(s) /\ n \in Nat
  OBVIOUS
<1>2. last \in FrameOf
  BY <1>1
<1>3. new \in FrameOf /\ new.roots = Append(last.roots, root)
  <2> HIDE DEF last
  <2>1. /\ last = [kind |-> last.kind, hIndx |-> last.hIndx, wIndx |-> last.wIndx,
                   limit |-> last.limit, roots |-> last.roots]
        /\ last.kind \in Kinds /\ last.hIndx \in Nat /\ last.wIndx \in Nat
        /\ last.limit \in 0 .. 2^MaxTreeDepth /\ last.roots \in Seq(Chunk)
    BY <1>2 DEF FrameOf
  <2> DEFINE rs == Append(last.roots, root)
  <2>2. rs \in Seq(Chunk)
    BY <2>1
  <2> HIDE DEF rs
  <2>3. [last EXCEPT !.roots = rs] =
          [kind |-> last.kind, hIndx |-> last.hIndx, wIndx |-> last.wIndx,
           limit |-> last.limit, roots |-> rs]
    BY <2>1
  <2>4. [last EXCEPT !.roots = rs] \in FrameOf
    BY <2>1, <2>2, <2>3 DEF FrameOf
  <2> QED BY <2>3, <2>4 DEF rs
<1>4. t = [s EXCEPT ![n] = new]
  BY DEF AddRoot
<1> HIDE DEF new, t
<1>5. t \in Seq(FrameOf) /\ Len(t) = n /\ t[n] = new /\ \A i \in 1 .. n - 1 : t[i] = s[i]
  BY <1>1, <1>3, <1>4
<1> HIDE DEF last
<1>6. ASSUME NEW i \in 0 .. n - 1 PROVE RootsUpTo(t, i) = RootsUpTo(s, i)
  <2>1. \A k \in 1 .. i : k \in 1 .. n - 1
    BY <1>1
  <2>2. \A k \in 1 .. i : t[k].roots = s[k].roots
    BY <1>5, <2>1
  <2> QED BY <2>2, SameRoots
<1>7. RootsUpTo(t, n) = Append(RootsUpTo(s, n), root)
  <2>1. n \in 1 .. Len(t) /\ n - 1 \in 0 .. n - 1 /\ n - 1 \in 0 .. Len(s)
    BY <1>1, <1>5
  <2>2. RootsUpTo(t, n) = RootsUpTo(t, n - 1) \o t[n].roots
    BY <1>5, <2>1, RootsUpToIs
  <2>3. RootsUpTo(s, n) = RootsUpTo(s, n - 1) \o last.roots
    BY <1>1, RootsUpToIs DEF last
  <2>4. t[n].roots = Append(last.roots, root)
    BY <1>3, <1>5
  <2>5. RootsUpTo(s, n - 1) \in Seq(Chunk) /\ last.roots \in Seq(Chunk)
    BY <1>2, <2>1, FrameFields, RootsUpToIs
  <2> DEFINE a == RootsUpTo(s, n - 1)
             b == last.roots
  <2>6. a \o Append(b, root) = Append(a \o b, root)
    <3>1. a \in Seq(Chunk) /\ b \in Seq(Chunk)
      BY <2>5
    <3> HIDE DEF a, b
    <3> QED BY <3>1
  <2>7. RootsUpTo(t, n - 1) = a
    BY <1>6, <2>1
  <2> QED BY <2>2, <2>3, <2>4, <2>6, <2>7
<1> QED BY <1>5, <1>6, <1>7 DEF new, last, t

(* Chunks flattened, in two parts.                                         *)
LEMMA FlatConcat ==
    ASSUME NEW X, NEW a, NEW b, a \in Seq(ChunkOf(X)), b \in Seq(ChunkOf(X))
    PROVE  FlattenSeq(a \o b) = FlattenSeq(a) \o FlattenSeq(b)
<1> DEFINE p(n) == SubSeq(b, 1, n)
           fa == FlattenSeq(a)
           P(n) == FlattenSeq(a \o p(n)) = fa \o FlattenSeq(p(n))
<1>1. fa \in Seq(X)
  BY FlatChunks
<1>2. P(0)
  <2>1. p(0) = << >> /\ a \o << >> = a /\ fa \o << >> = fa
    BY <1>1
  <2> HIDE DEF p, fa
  <2> QED BY <2>1, FlatOne DEF fa
<1>3. ASSUME NEW n \in Nat, P(n), n + 1 <= Len(b) PROVE P(n + 1)
  <2> DEFINE c == b[n + 1]
             q == p(n)
  <2>1. /\ q \in Seq(ChunkOf(X)) /\ c \in ChunkOf(X) /\ p(n + 1) = Append(q, c)
        /\ a \o q \in Seq(ChunkOf(X))
    BY <1>3
  <2>2. FlattenSeq(q) \in Seq(X)
    BY <2>1, FlatChunks
  <2>3. FlattenSeq(a \o q) = fa \o FlattenSeq(q)
    BY <1>3
  <2> HIDE DEF c, q, p, fa
  <2>4. a \o Append(q, c) = Append(a \o q, c)
    BY <2>1
  <2>5. FlattenSeq(Append(a \o q, c)) = FlattenSeq(a \o q) \o c
    BY <2>1, FlatOne
  <2>6. FlattenSeq(Append(q, c)) = FlattenSeq(q) \o c /\ c \in Seq(X)
    BY <2>1, FlatOne
  <2> DEFINE fq == FlattenSeq(q)
  <2>7. fq \in Seq(X) /\ fa \in Seq(X) /\ c \in Seq(X)
    BY <1>1, <2>2, <2>6
  <2> HIDE DEF fq
  <2>8. (fa \o fq) \o c = fa \o (fq \o c)
    BY ONLY <2>7, ConcatAssociative
  <2> QED BY <2>1, <2>3, <2>4, <2>5, <2>6, <2>8 DEF fq
<1> DEFINE T == {n \in Nat : n <= Len(b) => P(n)}
<1> HIDE DEF P
<1>4. 0 \in T
  BY <1>2
<1>5. ASSUME NEW n \in Nat, n \in T PROVE n + 1 \in T
  BY <1>3, <1>5
<1> HIDE DEF T
<1>6. \A n \in Nat : n \in T
  BY <1>4, <1>5, SetInduction
<1>7. P(Len(b))
  BY <1>6 DEF T
<1>8. p(Len(b)) = b
  OBVIOUS
<1> QED BY <1>7, <1>8 DEF P

(* How many members a frame may have.                                      *)
MembersIn(fr, max) == IF fr.kind = "container" THEN max ELSE fr.limit

(* The frame of the result, and on it frames that are not; every frame     *)
(* but the innermost has room for the root of the one it holds.            *)
IsStack(s, max) ==
    /\ s \in Seq(FrameOf) /\ Len(s) >= 1 /\ s[1].kind = "result"
    /\ \A i \in 2 .. Len(s) : /\ s[i].kind # "result"
                              /\ Len(s[i].roots) <= MembersIn(s[i], max)
    /\ \A i \in 2 .. Len(s) - 1 : Len(s[i].roots) < MembersIn(s[i], max)

(* Where the frames begin, on the hasher and on the wrapper.               *)
HasherIndices(s)  == \A i \in 1 .. Len(s) : s[i].hIndx = Len(RootsUpTo(s, i - 1)) * U
WrapperIndices(s) == \A i \in 1 .. Len(s) : s[i].wIndx = Len(RootsUpTo(s, i - 1))

HasRoom(s, max) == Len(s) = 1 \/ Len(s[Len(s)].roots) < MembersIn(s[Len(s)], max)

LEMMA AddRootStack ==
    ASSUME NEW s, NEW root, NEW max, IsStack(s, max), HasRoom(s, max), root \in Chunk,
           max \in Nat
    PROVE  /\ IsStack(AddRoot(s, root), max)
           /\ HasherIndices(s) => HasherIndices(AddRoot(s, root))
           /\ WrapperIndices(s) => WrapperIndices(AddRoot(s, root))
<1> DEFINE t == AddRoot(s, root)
           n == Len(s)
           last == s[n]
           new == [last EXCEPT !.roots = Append(last.roots, root)]
<1>1. s \in Seq(FrameOf) /\ s # << >> /\ n \in Nat /\ n >= 1
  BY DEF IsStack
<1>2. /\ t \in Seq(FrameOf) /\ Len(t) = n
      /\ \A i \in 1 .. n - 1 : t[i] = s[i]
      /\ t[n] = new
      /\ \A i \in 0 .. n - 1 : RootsUpTo(t, i) = RootsUpTo(s, i)
  BY <1>1, AddRootIs
<1>3. last \in FrameOf
  BY <1>1
<1>3a. last.roots \in Seq(Chunk) /\ last.limit \in 0 .. 2^MaxTreeDepth
  BY <1>3, FrameFields
<1>4. /\ new.kind = last.kind /\ new.hIndx = last.hIndx /\ new.wIndx = last.wIndx
      /\ new.limit = last.limit /\ new.roots = Append(last.roots, root)
  <2> HIDE DEF last
  <2> QED BY <1>3 DEF FrameOf
<1>5. Len(new.roots) = Len(last.roots) + 1 /\ Len(last.roots) \in Nat
  <2> HIDE DEF last, new
  <2> QED BY <1>3a, <1>4
<1>5a. MembersIn(last, max) = MembersIn(new, max)
  <2> HIDE DEF last, new
  <2> QED BY <1>4 DEF MembersIn
<1>5b. MembersIn(last, max) \in Nat
  <2> DEFINE q == 2^MaxTreeDepth
  <2>1. q \in Nat
    BY ChunkAssumption, TwoPowers
  <2>2. last.limit \in 0 .. q
    BY <1>3a
  <2> HIDE DEF q, last
  <2>3. last.limit \in Nat
    BY <2>2
  <2> QED BY <2>3 DEF MembersIn
<1>6. /\ s[1].kind = "result"
      /\ \A i \in 2 .. n : s[i].kind # "result" /\ Len(s[i].roots) <= MembersIn(s[i], max)
      /\ \A i \in 2 .. n - 1 : Len(s[i].roots) < MembersIn(s[i], max)
  BY DEF IsStack
<1>7. n = 1 \/ Len(last.roots) < MembersIn(last, max)
  BY DEF HasRoom
<1> HIDE DEF new, t
<1>8. IsStack(t, max)
  <2>1. t[1].kind = "result"
    <3>1. CASE n = 1
      BY <1>2, <1>4, <1>6, <3>1
    <3>2. CASE n # 1
      <4> HIDE DEF n
      <4>1. 1 \in 1 .. n - 1
        BY <1>1, <3>2
      <4> QED BY <1>2, <1>6, <4>1
    <3> QED BY <3>1, <3>2
  <2>2. ASSUME NEW i \in 2 .. n
        PROVE  t[i].kind # "result" /\ Len(t[i].roots) <= MembersIn(t[i], max)
    <3>1. CASE i = n
      <4>1. n # 1
        BY <1>1, <3>1
      <4>2. Len(new.roots) <= MembersIn(new, max)
        <5> HIDE DEF last
        <5> QED BY <1>5, <1>5a, <1>5b, <1>7, <4>1
      <4> QED BY <1>2, <1>4, <1>6, <3>1, <4>2
    <3>2. CASE i # n
      <4>1. i \in 1 .. n - 1
        BY <1>1, <3>2
      <4> QED BY <1>2, <1>6, <4>1
    <3> QED BY <3>1, <3>2
  <2>3. ASSUME NEW i \in 2 .. n - 1 PROVE Len(t[i].roots) < MembersIn(t[i], max)
    <3>1. i \in 1 .. n - 1
      BY <1>1
    <3> QED BY <1>2, <1>6, <3>1
  <2> QED BY <1>1, <1>2, <2>1, <2>2, <2>3 DEF IsStack
<1>9. \A i \in 1 .. n : /\ t[i].hIndx = s[i].hIndx /\ t[i].wIndx = s[i].wIndx
                        /\ RootsUpTo(t, i - 1) = RootsUpTo(s, i - 1)
  <2> TAKE i \in 1 .. n
  <2>1. i - 1 \in 0 .. n - 1
    BY <1>1
  <2>2. CASE i = n
    BY <1>2, <1>4, <2>1, <2>2
  <2>3. CASE i # n
    <3>1. i \in 1 .. n - 1
      BY <1>1, <2>3
    <3> QED BY <1>2, <2>1, <3>1
  <2> QED BY <2>2, <2>3
<1>10. HasherIndices(s) => HasherIndices(t)
  BY <1>2, <1>9 DEF HasherIndices
<1>11. WrapperIndices(s) => WrapperIndices(t)
  BY <1>2, <1>9 DEF WrapperIndices
<1> QED BY <1>8, <1>10, <1>11 DEF t

(* The frames around the innermost one.                                    *)
LEMMA FrontStack ==
    ASSUME NEW s, NEW max, IsStack(s, max), Len(s) # 1
    PROVE  /\ IsStack(Front(s), max) /\ HasRoom(Front(s), max)
           /\ Len(Front(s)) = Len(s) - 1
           /\ \A i \in 0 .. Len(s) - 1 : RootsUpTo(Front(s), i) = RootsUpTo(s, i)
           /\ HasherIndices(s) => HasherIndices(Front(s))
           /\ WrapperIndices(s) => WrapperIndices(Front(s))
<1> DEFINE t == Front(s)
           n == Len(s)
<1>1. s \in Seq(FrameOf) /\ n \in Nat /\ n >= 2
  <2>1. s \in Seq(FrameOf) /\ n >= 1 /\ n # 1
    BY DEF IsStack
  <2>2. n \in Nat
    BY <2>1
  <2> HIDE DEF n
  <2> QED BY <2>1, <2>2
<1>2. t \in Seq(FrameOf) /\ Len(t) = n - 1 /\ \A i \in 1 .. n - 1 : t[i] = s[i]
  BY <1>1 DEF Front
<1>3. /\ s[1].kind = "result"
      /\ \A i \in 2 .. n : s[i].kind # "result" /\ Len(s[i].roots) <= MembersIn(s[i], max)
      /\ \A i \in 2 .. n - 1 : Len(s[i].roots) < MembersIn(s[i], max)
  BY DEF IsStack
<1> HIDE DEF t, n
<1>4. IsStack(t, max)
  <2>1. /\ 1 \in 1 .. n - 1
        /\ \A i \in 2 .. n - 1 : i \in 1 .. n - 1 /\ i \in 2 .. n
        /\ \A i \in 2 .. (n - 1) - 1 : i \in 1 .. n - 1 /\ i \in 2 .. n - 1
        /\ n - 1 >= 1
    BY <1>1
  <2> QED BY <1>2, <1>3, <2>1 DEF IsStack
<1>5. HasRoom(t, max)
  <2>1. n - 1 \in 1 .. n - 1
    BY <1>1
  <2>2. CASE n - 1 = 1
    BY <1>2, <2>2 DEF HasRoom
  <2>3. CASE n - 1 # 1
    <3>1. n - 1 \in 2 .. n - 1
      BY <1>1, <2>3
    <3> QED BY <1>2, <1>3, <2>1, <3>1 DEF HasRoom
  <2> QED BY <2>2, <2>3
<1>6. ASSUME NEW i \in 0 .. n - 1 PROVE RootsUpTo(t, i) = RootsUpTo(s, i)
  <2>1. \A k \in 1 .. i : k \in 1 .. n - 1
    BY <1>1
  <2>2. \A k \in 1 .. i : t[k].roots = s[k].roots
    BY <1>2, <2>1
  <2> QED BY <2>2, SameRoots
<1>7. \A i \in 1 .. n - 1 : RootsUpTo(t, i - 1) = RootsUpTo(s, i - 1) /\ i \in 1 .. n
  <2> TAKE i \in 1 .. n - 1
  <2>1. i - 1 \in 0 .. n - 1 /\ i \in 1 .. n
    BY <1>1
  <2> QED BY <1>6, <2>1
<1>8. HasherIndices(s) => HasherIndices(t)
  BY <1>2, <1>7 DEF HasherIndices, n
<1>9. WrapperIndices(s) => WrapperIndices(t)
  BY <1>2, <1>7 DEF WrapperIndices, n
<1> QED BY <1>2, <1>4, <1>5, <1>6, <1>8, <1>9 DEF t, n

(* A frame for a new member.                                               *)
LEMMA OpenStack ==
    ASSUME NEW s, NEW max, NEW fr, IsStack(s, max), HasRoom(s, max), max \in Nat,
           fr \in FrameOf, fr.kind # "result", fr.roots = << >>
    PROVE  /\ IsStack(Append(s, fr), max) /\ Len(Append(s, fr)) = Len(s) + 1
           /\ RootsUpTo(Append(s, fr), Len(s) + 1) = RootsUpTo(s, Len(s))
           /\ HasherIndices(s) /\ fr.hIndx = Len(RootsUpTo(s, Len(s))) * U =>
                 HasherIndices(Append(s, fr))
           /\ WrapperIndices(s) /\ fr.wIndx = Len(RootsUpTo(s, Len(s))) =>
                 WrapperIndices(Append(s, fr))
<1> DEFINE t == Append(s, fr)
           n == Len(s)
<1>1. s \in Seq(FrameOf) /\ n \in Nat /\ n >= 1
  BY DEF IsStack
<1>2. t \in Seq(FrameOf) /\ Len(t) = n + 1 /\ t[n + 1] = fr /\ \A i \in 1 .. n : t[i] = s[i]
  BY <1>1
<1>3. /\ s[1].kind = "result"
      /\ \A i \in 2 .. n : s[i].kind # "result" /\ Len(s[i].roots) <= MembersIn(s[i], max)
      /\ \A i \in 2 .. n - 1 : Len(s[i].roots) < MembersIn(s[i], max)
  BY DEF IsStack
<1>4. n = 1 \/ Len(s[n].roots) < MembersIn(s[n], max)
  BY DEF HasRoom
<1> HIDE DEF t, n
<1>5. Len(fr.roots) <= MembersIn(fr, max)
  <2> DEFINE q == 2^MaxTreeDepth
  <2>1. q \in Nat
    BY ChunkAssumption, TwoPowers
  <2>2. fr.limit \in 0 .. q
    BY FrameFields
  <2> HIDE DEF q
  <2>3. fr.limit >= 0 /\ max >= 0 /\ Len(fr.roots) = 0
    BY <2>2
  <2> QED BY <2>3 DEF MembersIn
<1>6. IsStack(t, max)
  <2>1. /\ 1 \in 1 .. n /\ n + 1 >= 1
        /\ \A i \in 2 .. n + 1 : i = n + 1 \/ (i \in 2 .. n /\ i \in 1 .. n)
        /\ \A i \in 2 .. (n + 1) - 1 : (i = n /\ n # 1 /\ n \in 1 .. n)
                                       \/ (i \in 2 .. n - 1 /\ i \in 1 .. n)
    BY <1>1
  <2>2. \A i \in 2 .. n + 1 : t[i].kind # "result" /\ Len(t[i].roots) <= MembersIn(t[i], max)
    BY <1>2, <1>3, <1>5, <2>1
  <2>3. \A i \in 2 .. (n + 1) - 1 : Len(t[i].roots) < MembersIn(t[i], max)
    BY <1>2, <1>3, <1>4, <2>1
  <2> QED BY <1>2, <1>3, <2>1, <2>2, <2>3 DEF IsStack
<1>7. ASSUME NEW i \in 0 .. n PROVE RootsUpTo(t, i) = RootsUpTo(s, i)
  <2>1. \A k \in 1 .. i : k \in 1 .. n
    BY <1>1
  <2>2. \A k \in 1 .. i : t[k].roots = s[k].roots
    BY <1>2, <2>1
  <2> QED BY <2>2, SameRoots
<1>8. RootsUpTo(t, n + 1) = RootsUpTo(s, n)
  <2>1. n + 1 \in 1 .. Len(t) /\ (n + 1) - 1 = n /\ n \in 0 .. n /\ n \in 0 .. Len(s)
    BY <1>1, <1>2 DEF n
  <2>2. RootsUpTo(t, n + 1) = RootsUpTo(t, (n + 1) - 1) \o t[n + 1].roots
    BY <1>2, <2>1, RootsUpToIs
  <2>3. RootsUpTo(s, n) \in Seq(Chunk)
    BY <1>1, <2>1, RootsUpToIs
  <2>4. RootsUpTo(s, n) \o << >> = RootsUpTo(s, n)
    BY <2>3, ConcatEmptySeq
  <2> QED BY <1>2, <1>7, <2>1, <2>2, <2>4
<1>9. \A i \in 1 .. n + 1 : /\ i # n + 1 => i \in 1 .. n
                            /\ RootsUpTo(t, i - 1) = RootsUpTo(s, i - 1)
  <2> TAKE i \in 1 .. n + 1
  <2>1. i - 1 \in 0 .. n /\ (i # n + 1 => i \in 1 .. n)
    BY <1>1
  <2> QED BY <1>7, <2>1
<1>9a. (n + 1) - 1 = n
  BY <1>1
<1>10. HasherIndices(s) /\ fr.hIndx = Len(RootsUpTo(s, n)) * U => HasherIndices(t)
  BY <1>2, <1>9, <1>9a DEF HasherIndices, n
<1>11. WrapperIndices(s) /\ fr.wIndx = Len(RootsUpTo(s, n)) => WrapperIndices(t)
  BY <1>2, <1>9, <1>9a DEF WrapperIndices, n
<1> QED BY <1>2, <1>6, <1>8, <1>10, <1>11 DEF t, n

---------------------------------------------------------------------------
(***************************************************************************)
(* What the steps of the walk do to the hasher.                            *)
(***************************************************************************)
PlanInv  == /\ plan \in DOMAIN Plans
            /\ ops \in 0 .. MaxOps /\ walks \in 1 .. MaxWalks /\ done \in BOOLEAN
StackInv == IsStack(stack, MaxMembers)

(* What the buffer holds between two members.                              *)
OpenCells == FlattenSeq(OpenRoots)
HasherInv == HasherAt(Universe, h, OpenCells, << >>) /\ HasherIndices(stack)

(* Vectors of uint64 are as long as they may be without losing an item.    *)
NoVectorLost ==
    \A p \in DOMAIN Plans : \A f \in Plans[p].fields : f.kind = "uints" => NothingLost(f.n)

LEMMA PlanFacts ==
    ASSUME PlanInv
    PROVE  /\ \A f \in Fields : IsShape(f)
           /\ MaxOps \in Nat /\ MaxNesting \in Nat /\ MaxWalks \in Nat \ {0}
           /\ MaxMembers \in Nat /\ MaxMembers <= 2^MaxTreeDepth
           /\ \A l \in ListLimits : l \in Nat /\ l <= 2^MaxTreeDepth
           /\ ops \in Nat
           /\ NoVectorLost => \A f \in Fields : f.kind = "uints" => NothingLost(f.n)
<1> DEFINE q == 2^MaxTreeDepth
<1>0. q \in Nat
  BY ChunkAssumption, TwoPowers
<1>1. /\ \A f \in Fields : IsShape(f)
      /\ MaxOps \in Nat /\ MaxNesting \in Nat /\ MaxWalks \in Nat \ {0}
      /\ MaxMembers \in 0 .. q /\ ListLimits \subseteq 0 .. q
  BY PlansAssumption DEF PlanInv, Fields, MaxOps, MaxNesting, MaxWalks, MaxMembers, ListLimits
<1>2. NoVectorLost => \A f \in Fields : f.kind = "uints" => NothingLost(f.n)
  BY DEF NoVectorLost, Fields, PlanInv
<1>3. ops \in Nat
  BY <1>1 DEF PlanInv
<1> HIDE DEF q
<1>4. MaxMembers \in Nat /\ MaxMembers <= q /\ \A l \in ListLimits : l \in Nat /\ l <= q
  BY <1>0, <1>1
<1> QED BY <1>1, <1>2, <1>3, <1>4 DEF q

LEMMA DataIs ==
    ASSUME NEW n, n \in Nat, ops \in Nat
    PROVE  Data(n) \in Seq(Universe) /\ Len(Data(n)) = n
<1>1. \A i \in 1 .. n : <<10 * (ops + 1) + i>> \in Universe
  <2>1. \A i \in 1 .. n : 10 * (ops + 1) + i \in Int
    OBVIOUS
  <2> QED BY <2>1, UniverseIs DEF IsUniverse
<1>2. Data(n) \in [1 .. n -> Universe]
  BY <1>1 DEF Data
<1> QED BY <1>2, FunctionIsSeq

LEMMA BufferIs ==
    ASSUME StackInv
    PROVE  /\ OpenRoots \in Seq(Chunk) /\ OpenRoots = RootsUpTo(stack, Len(stack))
           /\ OpenCells \in Seq(Universe)
           /\ Len(OpenRoots) \in Nat /\ Len(OpenCells) = Len(OpenRoots) * U
<1>1. OpenRoots = RootsUpTo(stack, Len(stack))
  BY DEF OpenRoots, RootsUpTo
<1>2. OpenRoots \in Seq(Chunk)
  <2>1. stack \in Seq(FrameOf) /\ Len(stack) \in 0 .. Len(stack)
    BY DEF StackInv, IsStack
  <2> QED BY <1>1, <2>1, RootsUpToIs
<1>3. OpenRoots \in Seq(ChunkOf(Universe))
  BY <1>2 DEF Chunk
<1> DEFINE r == OpenRoots
<1> HIDE DEF r
<1>4. FlattenSeq(r) \in Seq(Universe) /\ Len(FlattenSeq(r)) = Len(r) * U
  BY <1>3, FlatChunks DEF r
<1> QED BY <1>1, <1>2, <1>4 DEF OpenCells, r

(* A field is behind the open members, as one root.                        *)
Emits ==
    \E root \in Chunk :
       /\ stack' = AddRoot(stack, root)
       /\ HasherAt(Universe, h', OpenCells, root)
       /\ plan' = plan /\ ops' = ops + 1 /\ walks' = walks /\ done' = done
       /\ ~ OverLimit' /\ (w.stuck => w' = w)

(* Only zero chunks lie beyond the limit.                                  *)
WithinLimit(cells, limit) ==
    \A j \in 1 .. Len(ChunksOf(cells)) : j > limit => ChunksOf(cells)[j] = ZeroChunk

LEMMA FewChunks ==
    ASSUME NEW cells, NEW limit, cells \in Seq(Universe), limit \in Nat,
           CeilDiv(Len(cells), U) <= limit
    PROVE  WithinLimit(cells, limit)
<1> DEFINE n == Len(ChunksOf(cells))
<1>1. n \in Nat /\ n <= limit
  <2>1. ChunksOf(cells) \in Seq(ChunkOf(Universe)) /\ n = CeilDiv(Len(cells), U)
    BY UniverseIs, ChunksOfIs
  <2>2. n \in Nat
    BY <2>1
  <2> QED BY <2>1, <2>2
<1> HIDE DEF n
<1>2. \A j \in 1 .. n : ~ (j > limit)
  BY <1>1
<1> QED BY <1>2 DEF WithinLimit, n

LEMMA EmitIs ==
    ASSUME NEW hh, NEW ww, NEW cells, NEW limit, NEW num, NEW mixin,
           Emit(hh, ww, cells, limit, num, mixin), WithinLimit(cells, limit),
           (IF mixin THEN hashPair(Root(cells, limit), LengthChunk(num)) ELSE Root(cells, limit))
             \in Chunk,
           HasherAt(Universe, hh, OpenCells,
                    IF mixin THEN hashPair(Root(cells, limit), LengthChunk(num))
                    ELSE Root(cells, limit))
    PROVE  Emits
<1>1. closed' = [chunks |-> ChunksOf(cells), limit |-> limit, mixin |-> mixin]
  BY DEF Emit, ChunksOf
<1>2. ~ OverLimit'
  <2>1. closed'.chunks = ChunksOf(cells) /\ closed'.limit = limit
    BY <1>1
  <2> QED BY <2>1 DEF OverLimit, WithinLimit
<1>3. w.stuck => w' = w
  BY DEF Emit, Walks
<1> QED BY <1>2, <1>3 DEF Emit, Emits

(* Emit with the root that is meant.                                       *)
LEMMA PlainIs ==
    ASSUME NEW hh, NEW ww, NEW cells, NEW limit, NEW num, Emit(hh, ww, cells, limit, num, FALSE),
           cells \in Seq(Universe), limit \in Nat, CeilDiv(Len(cells), U) <= limit,
           HasherAt(Universe, hh, OpenCells, Root(cells, limit)), Root(cells, limit) \in Chunk
    PROVE  Emits
BY EmitIs, FewChunks

LEMMA MixedIs ==
    ASSUME NEW hh, NEW ww, NEW cells, NEW limit, NEW num, Emit(hh, ww, cells, limit, num, TRUE),
           cells \in Seq(Universe), limit \in Nat, CeilDiv(Len(cells), U) <= limit,
           HasherAt(Universe, hh, OpenCells, hashPair(Root(cells, limit), LengthChunk(num))),
           hashPair(Root(cells, limit), LengthChunk(num)) \in Chunk
    PROVE  Emits
BY EmitIs, FewChunks

LEMMA PutUintEmits ==
    ASSUME PlanInv, StackInv, HasherInv, NEW f \in Fields, PutUint(f)
    PROVE  Emits
<1> DEFINE v == Data(1)
<1>1. v \in Seq(Universe) /\ Len(v) = 1
  BY PlanFacts, DataIs
<1>2. Emit(PutUint64(h, v[1]), wPutUint64(w, v[1]), v, 1, 0, FALSE)
  BY DEF PutUint
<1> HIDE DEF v
<1>3. v = <<v[1]>> /\ v[1] \in Universe
  BY <1>1
<1>4. /\ HasherAt(Universe, PutUint64(h, v[1]), OpenCells, Root(<<v[1]>>, 1))
      /\ Root(<<v[1]>>, 1) \in ChunkOf(Universe)
  BY <1>3, UniverseIs, PutUint64At DEF HasherInv
<1>5. CeilDiv(Len(v), U) <= 1
  <2>1. Len(v) \in 1 .. U
    BY <1>1, ChunkAssumption
  <2>2. CeilDiv(Len(v), U) = 1
    BY <1>1, <2>1, UniverseIs, RootOfOne
  <2> QED BY <2>2
<1> QED BY <1>1, <1>2, <1>3, <1>4, <1>5, PlainIs DEF Chunk

LEMMA PutFixedBytesEmits ==
    ASSUME PlanInv, StackInv, HasherInv, NEW f \in Fields, PutFixedBytes(f)
    PROVE  Emits
<1> DEFINE b == Data(f.n)
           limit == CeilDiv(f.n, U)
<1>0. f.n \in Nat \ {0} /\ limit <= 2^MaxTreeDepth
  <2>1. IsShape(f) /\ f.kind = "bytes"
    BY PlanFacts DEF PutFixedBytes
  <2> QED BY <2>1 DEF IsShape
<1>1. b \in Seq(Universe) /\ Len(b) = f.n
  BY <1>0, PlanFacts, DataIs
<1>2. Emit(PutBytes(h, b), wPutBytes(w, b), b, limit, 0, FALSE)
  BY DEF PutFixedBytes
<1>3. b # << >> /\ CeilDiv(Len(b), U) = limit
  <2> HIDE DEF b
  <2> QED BY <1>0, <1>1
<1> HIDE DEF b
<1>4. /\ HasherAt(Universe, PutBytes(h, b), OpenCells, Root(b, CeilDiv(Len(b), U)))
      /\ Root(b, CeilDiv(Len(b), U)) \in ChunkOf(Universe)
  <2>1. HasherAt(Universe, h, OpenCells, << >>)
    BY DEF HasherInv
  <2>2. CeilDiv(Len(b), U) <= 2^MaxTreeDepth /\ b \in Seq(Universe) /\ b # << >>
    BY <1>0, <1>1, <1>3
  <2> QED BY ONLY <2>1, <2>2, UniverseIs, PutBytesAt
<1> HIDE DEF limit
<1>5. HasherAt(Universe, PutBytes(h, b), OpenCells, Root(b, limit)) /\ Root(b, limit) \in Chunk
  BY <1>3, <1>4 DEF Chunk
<1>6. limit \in Nat /\ CeilDiv(Len(b), U) <= limit
  <2>1. limit \in Nat
    BY <1>0, CeilIs DEF limit
  <2> QED BY <1>3, <2>1
<1> QED BY <1>1, <1>2, <1>5, <1>6, PlainIs

(* The bits of a bitlist, and whether what is left of them has room.       *)
Bits(f) == Data(f.n) \o Zeros(f.z)
Fits(f) == CeilDiv(Len(parseBitlist(Bits(f))), U) <= CeilDiv(f.cap, U)

LEMMA BitsAre ==
    ASSUME PlanInv, NEW f \in Fields, PutBits(f)
    PROVE  /\ f.n \in Nat /\ f.z \in Nat /\ f.cap \in Nat \ {0}
           /\ CeilDiv(f.cap, U) \in Nat \ {0} /\ CeilDiv(f.cap, U) <= 2^MaxTreeDepth
           /\ Bits(f) \in Seq(Universe) /\ Len(Bits(f)) \in Nat
           /\ parseBitlist(Bits(f)) \in Seq(Universe)
           /\ \E z \in Nat : Bits(f) = parseBitlist(Bits(f)) \o Zeros(z)
           /\ Emit(PutBitlist(h, Bits(f), f.cap),
                   wPutBitlist(w, parseBitlist(Bits(f)), Len(Bits(f)), f.cap),
                   Bits(f), CeilDiv(f.cap, U), Len(Bits(f)), TRUE)
<1> DEFINE d == Data(f.n)
           zs == Zeros(f.z)
           b == Bits(f)
<1>0. f.n \in Nat /\ f.z \in Nat /\ f.cap \in Nat \ {0} /\ CeilDiv(f.cap, U) <= 2^MaxTreeDepth
  <2>1. IsShape(f) /\ f.kind = "bitlist"
    BY PlanFacts DEF PutBits
  <2> QED BY <2>1 DEF IsShape
<1>1. d \in Seq(Universe) /\ zs \in Seq(Universe)
  BY <1>0, PlanFacts, DataIs, UniverseIs, ChunkTypes
<1>2. b = d \o zs
  BY DEF Bits
<1> HIDE DEF d, zs
<1>3. b \in Seq(Universe) /\ Len(b) \in Nat
  <2>1. d \o zs \in Seq(Universe)
    BY ONLY <1>1
  <2>2. b \in Seq(Universe)
    BY <1>2, <2>1
  <2> HIDE DEF b
  <2> QED BY <2>2
<1>4. CeilDiv(f.cap, U) \in Nat \ {0}
  <2> DEFINE c == f.cap
  <2>1. c \in Nat /\ c # 0
    BY <1>0
  <2> HIDE DEF c
  <2>2. CeilDiv(c, U) \in Nat \ {0}
    BY <2>1, CeilIs
  <2> QED BY <2>2 DEF c
<1>5. Emit(PutBitlist(h, b, f.cap), wPutBitlist(w, parseBitlist(b), Len(b), f.cap),
           b, CeilDiv(f.cap, U), Len(b), TRUE)
  BY DEF PutBits, Bits
<1> HIDE DEF b
<1>6. parseBitlist(b) \in Seq(Universe) /\ \E z \in Nat : b = parseBitlist(b) \o Zeros(z)
  BY <1>3, UniverseIs, TrimIs
<1> QED BY <1>0, <1>3, <1>4, <1>5, <1>6 DEF b

(* Beyond what is left of the bits there are only zero chunks.             *)
LEMMA TrimmedWithin ==
    ASSUME NEW a, NEW z, NEW limit, a \in Seq(Universe), z \in Nat, limit \in Nat,
           CeilDiv(Len(a), U) <= limit
    PROVE  WithinLimit(a \o Zeros(z), limit)
<1> DEFINE b == a \o Zeros(z)
           c == ChunksOf(b)
           k == CeilDiv(Len(a), U)
<1>1. b \in Seq(Universe)
  <2>1. Zeros(z) \in Seq(Universe)
    BY UniverseIs, ChunkTypes
  <2> QED BY <2>1
<1>2. \A j \in Nat : j > k => CellsAt(a, j - 1) = ZeroChunk
  BY UniverseIs, ChunksOfIs
<1>3. c \in Seq(ChunkOf(Universe)) /\ \A j \in 1 .. Len(c) : c[j] = CellsAt(b, j - 1)
  BY <1>1, UniverseIs, ChunksOfIs
<1>4. \A j \in Nat : CellsAt(b, j) = CellsAt(a, j)
  <2>1. 0 \in Nat /\ 0 <= 2^MaxTreeDepth
    <3> DEFINE q == 2^MaxTreeDepth
    <3>1. q \in Nat
      BY ChunkAssumption, TwoPowers
    <3> HIDE DEF q
    <3>2. 0 <= q
      BY <3>1
    <3> QED BY <3>2 DEF q
  <2> QED BY <2>1, UniverseIs, RootOfZeros
<1>5. k \in Nat
  <2>1. Len(a) \in Nat
    OBVIOUS
  <2> QED BY <2>1, CeilIs
<1>6. Len(c) \in Nat
  BY <1>3
<1>7. k <= limit
  OBVIOUS
<1> HIDE DEF b, c, k
<1>8. ASSUME NEW j \in 1 .. Len(c), j > limit PROVE c[j] = ZeroChunk
  <2>1. j \in Nat /\ j - 1 \in Nat /\ j > k
    BY <1>5, <1>6, <1>7, <1>8
  <2> QED BY <1>2, <1>3, <1>4, <2>1
<1> QED BY <1>8 DEF WithinLimit, b, c

LEMMA PutBitsEmits ==
    ASSUME PlanInv, StackInv, HasherInv, NEW f \in Fields, PutBits(f), Fits(f)
    PROVE  Emits
<1> DEFINE b == Bits(f)
           c == f.cap
           limit == CeilDiv(c, U)
           m == Len(OpenRoots)
           a == parseBitlist(b)
           ww == wPutBitlist(w, parseBitlist(b), Len(b), c)
<1>1. /\ b \in Seq(Universe) /\ Len(b) \in Nat /\ c \in Nat
      /\ limit \in Nat /\ limit <= 2^MaxTreeDepth
      /\ a \in Seq(Universe) /\ CeilDiv(Len(a), U) <= limit
      /\ Emit(PutBitlist(h, b, c), ww, b, limit, Len(b), TRUE)
      /\ \E z \in Nat : b = a \o Zeros(z)
  BY BitsAre DEF Fits
<1>2. /\ IsUniverse(Universe) /\ HasherAt(Universe, h, OpenCells, << >>) /\ m \in Nat
      /\ Len(OpenCells) = m * U
  BY UniverseIs, BufferIs DEF HasherInv
<1>3. WithinLimit(b, limit)
  <2>1. PICK z : z \in Nat /\ b = a \o Zeros(z)
    BY <1>1
  <2> HIDE DEF b, a, limit
  <2> QED BY <1>1, <2>1, TrimmedWithin
<1> HIDE DEF b, c, m, ww
<1>4. LET root == hashPair(Root(b, CeilDiv(c, U)), LengthChunk(Len(b)))
      IN  HasherAt(Universe, PutBitlist(h, b, c), OpenCells, root) /\ root \in ChunkOf(Universe)
  BY ONLY <1>1, <1>2, PutBitlistAt
<1> DEFINE root == hashPair(Root(b, limit), LengthChunk(Len(b)))
<1>5. HasherAt(Universe, PutBitlist(h, b, c), OpenCells, root) /\ root \in Chunk
  BY <1>4 DEF Chunk
<1> DEFINE hh == PutBitlist(h, b, c)
<1> HIDE DEF hh, limit
<1> QED BY <1>1, <1>3, <1>5, EmitIs DEF hh

(* MerkleizeWithMixin and Merkleize of what lies behind the open members.  *)
LEMMA MixinHere ==
    ASSUME StackInv, NEW hh, NEW input, NEW num, NEW limit,
           HasherAt(Universe, hh, OpenCells, input), num \in Nat, limit \in Nat,
           CeilDiv(Len(input), U) <= limit, limit <= 2^MaxTreeDepth
    PROVE  /\ HasherAt(Universe, MerkleizeWithMixin(hh, Len(OpenCells), num, limit), OpenCells,
                       hashPair(Root(input, limit), LengthChunk(num)))
           /\ hashPair(Root(input, limit), LengthChunk(num)) \in ChunkOf(Universe)
<1> DEFINE m == Len(OpenRoots)
<1>1. m \in Nat /\ Len(OpenCells) = m * U
  BY BufferIs
<1> HIDE DEF m
<1> QED BY <1>1, UniverseIs, MixinStep

LEMMA IndexHere ==
    ASSUME StackInv, HasherInv
    PROVE  Index(h) = Len(OpenCells)
BY StartAt DEF HasherInv

LEMMA PutDynamicBytesEmits ==
    ASSUME PlanInv, StackInv, HasherInv, NEW f \in Fields, PutDynamicBytes(f)
    PROVE  Emits
<1> DEFINE b == Data(f.n)
           hh == IF Top.kind = "container" THEN Append_(h, b) ELSE AppendBytes32(h, b)
           ww == IF Top.kind = "container" THEN wAppend(w, b) ELSE wAppendBytes32(w, b)
           limit == CeilDiv(f.cap, U)
           n == f.n
<1>0. n \in Nat /\ f.cap \in Nat /\ n <= f.cap /\ limit <= 2^MaxTreeDepth
  <2>1. IsShape(f) /\ f.kind = "dynbytes" /\ f.n <= f.cap
    BY PlanFacts DEF PutDynamicBytes
  <2> QED BY <2>1 DEF IsShape
<1>1. b \in Seq(Universe) /\ Len(b) = n
  BY <1>0, PlanFacts, DataIs
<1>2. Emit(MerkleizeWithMixin(hh, Len(OpenCells), n, limit),
           wMerkleizeWithMixin(ww, wIndex(w), n, limit), b, limit, n, TRUE)
  BY IndexHere DEF PutDynamicBytes
<1>3. limit \in Nat /\ CeilDiv(n, U) \in Nat /\ CeilDiv(n, U) <= limit
  <2> DEFINE c == f.cap
  <2>1. n \in Nat /\ c \in Nat /\ n <= c /\ U \in Nat
    BY <1>0, ChunkAssumption
  <2>2. limit \in Nat /\ c <= limit * U /\ CeilDiv(n, U) \in Nat
    <3> HIDE DEF c, n
    <3>1. CeilDiv(c, U) \in Nat /\ c <= CeilDiv(c, U) * U /\ CeilDiv(n, U) \in Nat
      BY <2>1, CeilIs
    <3> QED BY <3>1 DEF c
  <2>3. n <= limit * U
    <3> HIDE DEF limit, n, c
    <3>1. limit * U \in Nat
      BY <2>1, <2>2
    <3> QED BY <2>1, <2>2, <3>1
  <2> HIDE DEF limit, n
  <2> QED BY <2>1, <2>2, <2>3, CeilIs
<1>4. HasherAt(Universe, Append_(h, b), OpenCells, b)
      /\ HasherAt(Universe, AppendBytes32(h, b), OpenCells, Padded(b))
  <2>1. HasherAt(Universe, h, OpenCells, << >>)
    BY DEF HasherInv
  <2> QED BY <1>1, <2>1, UniverseIs, AppendsFrom
<1>5. /\ Len(Padded(b)) = CeilDiv(n, U) * U
      /\ Root(Padded(b), limit) = Root(b, limit)
  <2>1. b \in Seq(Universe) /\ Len(b) = n /\ IsUniverse(Universe)
    BY <1>1, UniverseIs
  <2> HIDE DEF b, limit, n
  <2>2. Len(Padded(b)) = CeilDiv(Len(b), U) * U
    BY ONLY <2>1, PaddedIs
  <2>3. Root(Padded(b), limit) = Root(b, limit)
    BY ONLY <2>1, RootOfPadded
  <2> QED BY <2>1, <2>2, <2>3
<1>6. CeilDiv(Len(Padded(b)), U) = CeilDiv(n, U)
  <2> DEFINE k == CeilDiv(n, U)
  <2>1. k \in Nat /\ Len(Padded(b)) = k * U
    BY <1>3, <1>5
  <2> HIDE DEF k, b, n
  <2>2. CeilDiv(Len(Padded(b)), U) = k
    BY <2>1, CeilIs
  <2> QED BY <2>2 DEF k
<1> DEFINE root == hashPair(Root(b, limit), LengthChunk(n))
<1>7. \E input : /\ HasherAt(Universe, hh, OpenCells, input)
                 /\ CeilDiv(Len(input), U) <= limit
                 /\ Root(input, limit) = Root(b, limit)
  <2>1. CASE Top.kind = "container"
    <3>1. hh = Append_(h, b)
      BY <2>1
    <3> HIDE DEF hh, b, limit, n
    <3> QED BY <1>1, <1>3, <1>4, <3>1
  <2>2. CASE Top.kind # "container"
    <3>1. hh = AppendBytes32(h, b)
      BY <2>2
    <3> HIDE DEF hh, b, limit, n
    <3> QED BY <1>3, <1>4, <1>5, <1>6, <3>1
  <2> QED BY <2>1, <2>2
<1> HIDE DEF hh, ww, b, limit, n, root
<1>8. HasherAt(Universe, MerkleizeWithMixin(hh, Len(OpenCells), n, limit), OpenCells, root)
      /\ root \in ChunkOf(Universe)
  BY <1>0, <1>3, <1>7, MixinHere DEF root, limit
<1>9. CeilDiv(Len(b), U) <= limit
  BY <1>1, <1>3
<1> QED BY <1>1, <1>2, <1>3, <1>8, <1>9, MixedIs DEF root, Chunk

(* The limit of a list of integers has room for its items.                 *)
LEMMA UintListLimit ==
    ASSUME PlanInv, NEW f \in Fields, PutUintList(f)
    PROVE  /\ f.n \in Nat /\ CalculateLimit(f.cap, f.n) \in Nat
           /\ CalculateLimit(f.cap, f.n) <= 2^MaxTreeDepth
           /\ CeilDiv(f.n, U) \in Nat /\ CeilDiv(f.n, U) <= CalculateLimit(f.cap, f.n)
           /\ CalculateLimit(f.cap, f.n) = MaxOf(CeilDiv(f.cap, U), 1)
<1> DEFINE n == f.n
           limit == CalculateLimit(f.cap, f.n)
<1>0. n \in Nat /\ f.cap \in Nat /\ n <= f.cap /\ CeilDiv(f.cap, U) <= 2^MaxTreeDepth
  <2>1. IsShape(f) /\ f.kind = "uintlist" /\ f.n <= f.cap
    BY PlanFacts DEF PutUintList
  <2> QED BY <2>1 DEF IsShape
<1>3. /\ limit \in Nat /\ limit <= 2^MaxTreeDepth
      /\ CeilDiv(n, U) \in Nat /\ CeilDiv(n, U) <= limit
      /\ limit = MaxOf(CeilDiv(f.cap, U), 1)
  <2> DEFINE c == f.cap
             k == CeilDiv(c, U)
             q == 2^MaxTreeDepth
  <2>1. limit = IF c # 0 THEN k ELSE MaxOf(n, 1)
    BY DEF CalculateLimit
  <2>2. /\ k \in Nat /\ c <= k * U /\ CeilDiv(n, U) \in Nat /\ k * U \in Nat
        /\ CeilDiv(n, U) <= n /\ (c # 0 => k # 0) /\ (c = 0 => k = 0)
    <3>1. n \in Nat /\ c \in Nat /\ U \in Nat
      BY <1>0, ChunkAssumption
    <3> HIDE DEF c, n
    <3>2. k \in Nat /\ c <= k * U /\ CeilDiv(n, U) \in Nat
      BY <3>1, CeilIs
    <3>3. n <= n * U
      BY <3>1, ChunkAssumption
    <3>4. CeilDiv(n, U) <= n
      BY <3>1, <3>3, CeilIs
    <3>5. k * U \in Nat
      <4> HIDE DEF k
      <4> QED BY <3>1, <3>2
    <3>6. (c # 0 => k # 0) /\ (c = 0 => k = 0)
      BY <3>1, CeilIs
    <3> QED BY <3>2, <3>4, <3>5, <3>6
  <2>3. q \in Nat \ {0}
    BY ChunkAssumption, TwoPowers
  <2> HIDE DEF limit, n, c, q, k
  <2>4. CASE c # 0
    <3>1. n <= k * U
      BY <1>0, <2>2 DEF c
    <3>2. CeilDiv(n, U) <= k
      BY <1>0, <2>2, <3>1, CeilIs
    <3>3. limit = MaxOf(k, 1)
      BY <2>1, <2>2, <2>4 DEF MaxOf
    <3> QED BY <1>0, <2>1, <2>2, <2>4, <3>2, <3>3 DEF k, c, q
  <2>5. CASE c = 0
    <3>1. n = 0
      BY <1>0, <2>5 DEF c
    <3>2. limit = 1
      BY <2>1, <2>5, <3>1 DEF MaxOf
    <3>3. 1 <= q
      BY <2>3
    <3>4. CeilDiv(n, U) = 0
      BY <2>2, <3>1
    <3>5. limit = MaxOf(k, 1)
      BY <2>2, <2>5, <3>2 DEF MaxOf
    <3> QED BY <3>2, <3>3, <3>4, <3>5 DEF q, k, c
  <2> QED BY <2>4, <2>5
<1> QED BY <1>0, <1>3

LEMMA PutUintListEmits ==
    ASSUME PlanInv, StackInv, HasherInv, NEW f \in Fields, PutUintList(f)
    PROVE  Emits
<1> DEFINE v == Data(f.n)
           n == f.n
           limit == CalculateLimit(f.cap, f.n)
           a == AppendUint64s(h, v)
           p == Padded(v)
<1>0. n \in Nat /\ f.cap \in Nat /\ n <= f.cap /\ CeilDiv(f.cap, U) <= 2^MaxTreeDepth
  <2>1. IsShape(f) /\ f.kind = "uintlist" /\ f.n <= f.cap
    BY PlanFacts DEF PutUintList
  <2> QED BY <2>1 DEF IsShape
<1>1. v \in Seq(Universe) /\ Len(v) = n
  BY <1>0, PlanFacts, DataIs
<1>2. Emit(MerkleizeWithMixin(FillUpTo32(a), Len(OpenCells), n, limit),
           wMerkleizeWithMixin(wFillUpTo32(wAppend(w, v)), wIndex(w), n, limit),
           v, limit, n, TRUE)
  BY IndexHere, UintListLimit DEF PutUintList
<1>3. limit \in Nat /\ limit <= 2^MaxTreeDepth /\ CeilDiv(n, U) \in Nat /\ CeilDiv(n, U) <= limit
  BY UintListLimit
<1>4. HasherAt(Universe, a, OpenCells, v)
  <2>1. HasherAt(Universe, h, OpenCells, << >>)
    BY DEF HasherInv
  <2> QED BY <1>1, <2>1, UniverseIs, AppendsFrom
<1>5. HasherAt(Universe, FillUpTo32(a), OpenCells, p)
  <2> DEFINE m == Len(OpenRoots)
  <2>1. m \in Nat /\ Len(OpenCells) = m * U
    BY BufferIs
  <2> HIDE DEF a, m, v
  <2> QED BY <1>4, <2>1, UniverseIs, FillIs
<1>6. /\ Len(p) = CeilDiv(n, U) * U
      /\ Root(p, limit) = Root(v, limit)
  <2>1. v \in Seq(Universe) /\ Len(v) = n /\ IsUniverse(Universe)
    BY <1>1, UniverseIs
  <2> HIDE DEF v, limit, n
  <2>2. Len(p) = CeilDiv(Len(v), U) * U
    BY ONLY <2>1, PaddedIs
  <2>3. Root(p, limit) = Root(v, limit)
    BY ONLY <2>1, RootOfPadded
  <2> QED BY <2>1, <2>2, <2>3
<1>7. CeilDiv(Len(p), U) <= limit
  <2> DEFINE k == CeilDiv(n, U)
  <2>1. k \in Nat /\ Len(p) = k * U /\ k <= limit
    BY <1>3, <1>6
  <2> HIDE DEF k, p, n, limit
  <2>2. CeilDiv(Len(p), U) = k
    BY <2>1, CeilIs
  <2> QED BY <2>1, <2>2
<1> DEFINE root == hashPair(Root(v, limit), LengthChunk(n))
<1> HIDE DEF v, limit, n, root, a, p
<1>8. HasherAt(Universe, MerkleizeWithMixin(FillUpTo32(a), Len(OpenCells), n, limit),
               OpenCells, root)
      /\ root \in ChunkOf(Universe)
  <2> DEFINE g == FillUpTo32(a)
  <2> HIDE DEF g
  <2>1. HasherAt(Universe, g, OpenCells, p)
    BY <1>5 DEF g
  <2>2. HasherAt(Universe, MerkleizeWithMixin(g, Len(OpenCells), n, limit), OpenCells,
                 hashPair(Root(p, limit), LengthChunk(n)))
        /\ hashPair(Root(p, limit), LengthChunk(n)) \in ChunkOf(Universe)
    BY <1>0, <1>3, <1>7, <2>1, MixinHere
  <2> QED BY <1>6, <2>2 DEF root, g
<1>9. CeilDiv(Len(v), U) <= limit
  BY <1>1, <1>3
<1> QED BY <1>1, <1>2, <1>3, <1>8, <1>9, MixedIs DEF root, Chunk

LEMMA PutRootListEmits ==
    ASSUME PlanInv, StackInv, HasherInv, NEW f \in Fields, PutRootList(f)
    PROVE  Emits
<1> DEFINE v == Data(f.n * U)
           n == f.n
           limit == f.cap
           a == Append_(h, v)
<1>0. n \in Nat /\ limit \in Nat /\ n <= limit /\ limit <= 2^MaxTreeDepth /\ f.n * U \in Nat
  <2>1. IsShape(f) /\ f.kind = "rootlist" /\ f.n <= f.cap
    BY PlanFacts DEF PutRootList
  <2>2. U \in Nat
    BY ChunkAssumption
  <2> QED BY <2>1, <2>2 DEF IsShape
<1>1. v \in Seq(Universe) /\ Len(v) = n * U
  BY <1>0, PlanFacts, DataIs
<1>2. Emit(MerkleizeWithMixin(a, Len(OpenCells), n, limit),
           wMerkleizeWithMixin(wAppend(w, v), wIndex(w), n, limit), v, limit, n, TRUE)
  BY IndexHere DEF PutRootList
<1>4. HasherAt(Universe, a, OpenCells, v)
  <2>1. HasherAt(Universe, h, OpenCells, << >>)
    BY DEF HasherInv
  <2> QED BY <1>1, <2>1, UniverseIs, AppendsFrom
<1>5. CeilDiv(Len(v), U) <= limit
  <2> HIDE DEF v, n, limit
  <2>1. CeilDiv(Len(v), U) = n
    BY <1>0, <1>1, CeilIs
  <2> QED BY <1>0, <2>1
<1> DEFINE root == hashPair(Root(v, limit), LengthChunk(n))
<1> HIDE DEF v, limit, n, a
<1>8. HasherAt(Universe, MerkleizeWithMixin(a, Len(OpenCells), n, limit), OpenCells, root)
      /\ root \in ChunkOf(Universe)
  BY <1>0, <1>4, <1>5, MixinHere
<1> QED BY <1>0, <1>1, <1>2, <1>5, <1>8, MixedIs DEF Chunk

LEMMA PutUintVectorEmits ==
    ASSUME NoVectorLost, PlanInv, StackInv, HasherInv, NEW f \in Fields, PutUintVector(f)
    PROVE  Emits
<1> DEFINE v == Data(f.n)
           n == f.n
           limit == CeilDiv(f.n, U)
           a == AppendUint64s(h, v)
<1>0. n \in Nat /\ limit <= 2^MaxTreeDepth /\ NothingLost(n)
  <2>1. IsShape(f) /\ f.kind = "uints" /\ NothingLost(f.n)
    BY PlanFacts DEF PutUintVector
  <2> QED BY <2>1 DEF IsShape
<1>1. v \in Seq(Universe) /\ Len(v) = n
  BY <1>0, PlanFacts, DataIs
<1>2. Emit(Merkleize(a, Len(OpenCells)), wMerkleize(wAppend(w, v), wIndex(w)), v, limit, 0, FALSE)
  BY IndexHere DEF PutUintVector
<1>4. HasherAt(Universe, a, OpenCells, v)
  <2>1. HasherAt(Universe, h, OpenCells, << >>)
    BY DEF HasherInv
  <2> QED BY <1>1, <2>1, UniverseIs, AppendsFrom
<1>5. NothingLost(Len(v)) /\ CeilDiv(Len(v), U) = limit
  <2> HIDE DEF v
  <2> QED BY <1>0, <1>1
<1> HIDE DEF v, limit, n, a
<1>6. HasherAt(Universe, Merkleize(a, Len(OpenCells)), OpenCells, Root(v, CeilDiv(Len(v), U)))
      /\ Root(v, CeilDiv(Len(v), U)) \in ChunkOf(Universe)
  BY <1>0, <1>4, <1>5, UniverseIs, MerkleizeStep
<1>7. limit \in Nat /\ CeilDiv(Len(v), U) <= limit
  <2>1. limit \in Nat
    BY <1>0, CeilIs DEF limit, n
  <2> QED BY <1>5, <2>1
<1> QED BY <1>1, <1>2, <1>5, <1>6, <1>7, PlainIs DEF Chunk

LEMMA PutRootsEmits ==
    ASSUME PlanInv, StackInv, HasherInv, NEW f \in Fields, PutRoots(f)
    PROVE  Emits
<1> DEFINE v == Data(f.n * U)
           n == f.n
           a == Append_(h, v)
<1>0. n \in Nat /\ n <= 2^MaxTreeDepth /\ f.n * U \in Nat
  <2>1. IsShape(f) /\ f.kind = "roots"
    BY PlanFacts DEF PutRoots
  <2>2. U \in Nat
    BY ChunkAssumption
  <2> QED BY <2>1, <2>2 DEF IsShape
<1>1. v \in Seq(Universe) /\ Len(v) = n * U
  BY <1>0, PlanFacts, DataIs
<1>2. Emit(Merkleize(a, Len(OpenCells)), wMerkleize(wAppend(w, v), wIndex(w)), v, n, 0, FALSE)
  BY IndexHere DEF PutRoots
<1>4. HasherAt(Universe, a, OpenCells, v)
  <2>1. HasherAt(Universe, h, OpenCells, << >>)
    BY DEF HasherInv
  <2> QED BY <1>1, <2>1, UniverseIs, AppendsFrom
<1> HIDE DEF v, n, a
<1>5. NothingLost(Len(v)) /\ CeilDiv(Len(v), U) = n
  BY <1>0, <1>1, LengthFacts, CeilIs
<1>6. HasherAt(Universe, Merkleize(a, Len(OpenCells)), OpenCells, Root(v, CeilDiv(Len(v), U)))
      /\ Root(v, CeilDiv(Len(v), U)) \in ChunkOf(Universe)
  BY <1>0, <1>4, <1>5, UniverseIs, MerkleizeStep
<1>7. CeilDiv(Len(v), U) <= n
  BY <1>0, <1>5
<1> QED BY <1>0, <1>1, <1>2, <1>5, <1>6, <1>7, PlainIs DEF Chunk

---------------------------------------------------------------------------
(***************************************************************************)
(* The nodes of the Wrapper, and the tree that is built over them.         *)
(***************************************************************************)
RootsOf(ns) == [i \in 1 .. Len(ns) |-> ns[i].root]

LEMMA NodeTypes ==
    ASSUME NEW X, IsUniverse(X)
    PROVE  /\ \A n \in NodeOf(X) : n.root \in ChunkOf(X) /\ n \in X
           /\ \A c \in ChunkOf(X) : Leaf(c) \in NodeOf(X) /\ NewEmptyNode(c) \in NodeOf(X)
           /\ \A l, r \in NodeOf(X) : NewNodeWithLR(l, r) \in NodeOf(X)
<1>1. \A n \in NodeOf(X) : n.root \in ChunkOf(X)
  BY DEF NodeOf
<1>2. \A n \in NodeOf(X) : n \in X
  BY DEF IsUniverse
<1>3. ASSUME NEW c \in ChunkOf(X)
      PROVE  Leaf(c) \in NodeOf(X) /\ NewEmptyNode(c) \in NodeOf(X)
  BY DEF NodeOf, Leaf, NewEmptyNode
<1>4. ASSUME NEW l \in NodeOf(X), NEW r \in NodeOf(X) PROVE NewNodeWithLR(l, r) \in NodeOf(X)
  <2> DEFINE c == hashPair(l.root, r.root)
             k == <<l, r>>
  <2>1. c \in ChunkOf(X)
    BY <1>1, ChunkTypes
  <2>2. k \in {<< >>} \cup {<<a, b>> : a \in X, b \in X}
    BY <1>2
  <2> HIDE DEF c, k
  <2>3. [root |-> c, empty |-> FALSE, kids |-> k] \in NodeOf(X)
    BY <2>1, <2>2 DEF NodeOf
  <2> QED BY <2>3 DEF NewNodeWithLR, c, k
<1> QED BY <1>1, <1>2, <1>3, <1>4

LEMMA RootsOfIs ==
    ASSUME NEW X, NEW ns, IsUniverse(X), ns \in Seq(NodeOf(X))
    PROVE  /\ RootsOf(ns) \in Seq(ChunkOf(X)) /\ Len(RootsOf(ns)) = Len(ns)
           /\ \A i \in 1 .. Len(ns) : RootsOf(ns)[i] = ns[i].root /\ ns[i].root \in ChunkOf(X)
<1>1. \A i \in 1 .. Len(ns) : ns[i] \in NodeOf(X)
  OBVIOUS
<1>2. \A i \in 1 .. Len(ns) : ns[i].root \in ChunkOf(X)
  BY <1>1, NodeTypes
<1> DEFINE n == Len(ns)
<1>3. n \in Nat
  OBVIOUS
<1>4. RootsOf(ns) = [i \in 1 .. n |-> ns[i].root]
  BY DEF RootsOf
<1> HIDE DEF n
<1>5. \A i \in 1 .. n : ns[i].root \in ChunkOf(X)
  BY <1>2 DEF n
<1>6. RootsOf(ns) \in [1 .. n -> ChunkOf(X)] /\ \A i \in 1 .. n : RootsOf(ns)[i] = ns[i].root
  BY <1>4, <1>5
<1>7. RootsOf(ns) \in Seq(ChunkOf(X)) /\ Len(RootsOf(ns)) = n
  BY <1>3, <1>6, FunctionIsSeq
<1> QED BY <1>2, <1>6, <1>7 DEF n

(* The layer above: pairs, an empty node beside a last one that is alone.  *)
NodesAbove(ns, z) ==
    [p \in 1 .. (Len(ns) + 1) \div 2 |->
        NewNodeWithLR(ns[2 * p - 1], IF 2 * p <= Len(ns) THEN ns[2 * p] ELSE NewEmptyNode(z))]

(* What they are.                                                          *)
AreNodesAbove(X, ns, z, t) ==
    /\ t \in Seq(NodeOf(X))
    /\ Len(t) = (Len(ns) + 1) \div 2
    /\ \A p \in 1 .. (Len(ns) + 1) \div 2 :
          /\ 2 * p - 1 \in 1 .. Len(ns)
          /\ t[p] = NewNodeWithLR(ns[2 * p - 1],
                                  IF 2 * p <= Len(ns) THEN ns[2 * p] ELSE NewEmptyNode(z))
    /\ RootsOf(t) = LayerAbove(RootsOf(ns), z)

LEMMA NodesAboveType ==
    ASSUME NEW X, NEW ns, NEW z, IsUniverse(X), ns \in Seq(NodeOf(X)), z \in ChunkOf(X)
    PROVE  AreNodesAbove(X, ns, z, NodesAbove(ns, z))
<1> DEFINE n == Len(ns)
           m == (n + 1) \div 2
           sib(p) == IF 2 * p <= n THEN ns[2 * p] ELSE NewEmptyNode(z)
           el(p) == NewNodeWithLR(ns[2 * p - 1], sib(p))
           t == NodesAbove(ns, z)
           rs == RootsOf(ns)
<1>0. n \in Nat /\ \A i \in 1 .. n : ns[i] \in NodeOf(X)
  OBVIOUS
<1>0a. Len(rs) = n /\ \A i \in 1 .. n : rs[i] = ns[i].root
  BY RootsOfIs
<1>0b. t = [p \in 1 .. m |-> el(p)]
  BY DEF NodesAbove
<1>0c. LayerAbove(rs, z) = [p \in 1 .. m |-> hashPair(rs[2 * p - 1], IF 2 * p <= n THEN rs[2 * p] ELSE z)]
  BY <1>0a DEF LayerAbove
<1> HIDE DEF n, t, rs
<1>1. m \in Nat /\ \A p \in 1 .. m : 2 * p - 1 \in 1 .. n /\ (2 * p <= n => 2 * p \in 1 .. n)
  BY <1>0
<1>2. ASSUME NEW p \in 1 .. m
      PROVE  el(p) \in NodeOf(X)
             /\ el(p).root = hashPair(rs[2 * p - 1], IF 2 * p <= n THEN rs[2 * p] ELSE z)
  <2>1. ns[2 * p - 1] \in NodeOf(X) /\ rs[2 * p - 1] = ns[2 * p - 1].root
    BY <1>0, <1>0a, <1>1
  <2>2. sib(p) \in NodeOf(X) /\ sib(p).root = IF 2 * p <= n THEN rs[2 * p] ELSE z
    <3>1. CASE 2 * p <= n
      BY <1>0, <1>0a, <1>1, <3>1
    <3>2. CASE ~ (2 * p <= n)
      <4>1. NewEmptyNode(z) \in NodeOf(X) /\ NewEmptyNode(z).root = z
        BY NodeTypes DEF NewEmptyNode
      <4> QED BY <3>2, <4>1
    <3> QED BY <3>1, <3>2
  <2> HIDE DEF sib
  <2>3. el(p) \in NodeOf(X)
    BY <2>1, <2>2, NodeTypes
  <2>4. el(p).root = hashPair(ns[2 * p - 1].root, sib(p).root)
    BY DEF NewNodeWithLR
  <2> QED BY <2>1, <2>2, <2>3, <2>4
<1> HIDE DEF el, m
<1>3. t \in [1 .. m -> NodeOf(X)] /\ \A p \in 1 .. m : t[p] = el(p)
  BY <1>0b, <1>2
<1>4. t \in Seq(NodeOf(X)) /\ Len(t) = m
  BY <1>1, <1>3, FunctionIsSeq
<1>5. RootsOf(t) = LayerAbove(rs, z)
  <2>1. RootsOf(t) = [p \in 1 .. m |-> t[p].root]
    BY <1>4 DEF RootsOf
  <2> QED BY <1>0c, <1>2, <1>3, <2>1
<1> QED BY <1>1, <1>3, <1>4, <1>5 DEF n, m, el, t, rs, AreNodesAbove

(* The layers of nodes over ns, up to the d-th.                            *)
NodeLevelsOf(X, ns, d) ==
    {N \in [0 .. d -> Seq(NodeOf(X))] :
        N[0] = ns /\ \A e \in 1 .. d : N[e] = NodesAbove(N[e - 1], zeroHashes[e - 1])}

LEMMA NodeLevelsExist ==
    ASSUME NEW X, NEW ns, NEW d, IsUniverse(X), ns \in Seq(NodeOf(X)), d \in 0 .. MaxTreeDepth
    PROVE  \E N : N \in NodeLevelsOf(X, ns, d)
<1>0. MaxTreeDepth \in Nat /\ d \in Nat
  BY ChunkAssumption
<1> DEFINE D == Seq(NodeOf(X))
           step == [e \in 1 .. d |-> [x \in D |-> NodesAbove(x, zeroHashes[e - 1])]]
<1>1. ASSUME NEW e \in 1 .. d
      PROVE  zeroHashes[e - 1] \in ChunkOf(X)
  <2>1. e - 1 \in 0 .. MaxTreeDepth
    BY <1>0
  <2> QED BY <2>1, ZeroHashes
<1>2. \A e \in 1 .. d, x \in D : NodesAbove(x, zeroHashes[e - 1]) \in D
  BY <1>1, NodesAboveType DEF AreNodesAbove
<1>3. ns \in D
  OBVIOUS
<1> HIDE DEF D
<1>4. step \in [1 .. d -> [D -> D]]
      /\ \A e \in 1 .. d, x \in D : step[e][x] = NodesAbove(x, zeroHashes[e - 1])
  BY <1>2
<1> HIDE DEF step
<1>5. PICK N \in [0 .. d -> D] : Steps(N, d, ns, step)
  BY <1>0, <1>3, <1>4, StepsExist, Zenon
<1>6. ASSUME NEW e \in 1 .. d PROVE N[e] = NodesAbove(N[e - 1], zeroHashes[e - 1])
  <2>1. e - 1 \in 0 .. d
    BY <1>0
  <2>2. N[e - 1] \in D
    BY <1>5, <2>1
  <2>3. N[e] = step[e][N[e - 1]]
    BY <1>5 DEF Steps
  <2> QED BY <1>4, <2>2, <2>3
<1>7. N[0] = ns
  BY <1>5 DEF Steps
<1> QED BY <1>5, <1>6, <1>7 DEF D, NodeLevelsOf

(* What the layers of nodes are made of.                                   *)
AreNodeLevels(X, ns, d, N, L) ==
    /\ N[0] = ns
    /\ \A e \in 0 .. d : N[e] \in Seq(NodeOf(X)) /\ RootsOf(N[e]) = L[e]
    /\ \A e \in 1 .. d :
          /\ Len(N[e]) = (Len(N[e - 1]) + 1) \div 2
          /\ \A p \in 1 .. Len(N[e]) :
                /\ 2 * p - 1 \in 1 .. Len(N[e - 1])
                /\ N[e][p] = NewNodeWithLR(N[e - 1][2 * p - 1],
                                IF 2 * p <= Len(N[e - 1]) THEN N[e - 1][2 * p]
                                ELSE NewEmptyNode(zeroHashes[e - 1]))
    /\ ns # << >> => Len(N[d]) = 1 /\ \A e \in 0 .. d : Len(N[e]) >= 1

(* The roots of the layers of nodes are the layers of the roots.           *)
LEMMA NodeLevelsAre ==
    ASSUME NEW X, NEW ns, NEW d, NEW N, NEW L, IsUniverse(X), ns \in Seq(NodeOf(X)),
           d \in 0 .. MaxTreeDepth, N \in NodeLevelsOf(X, ns, d),
           L \in LevelsOf(X, RootsOf(ns), d)
    PROVE  AreNodeLevels(X, ns, d, N, L)
<1>0. MaxTreeDepth \in Nat /\ d \in Nat
  BY ChunkAssumption
<1>1. /\ \A e \in 0 .. d : N[e] \in Seq(NodeOf(X))
      /\ N[0] = ns
      /\ \A e \in 1 .. d : N[e] = NodesAbove(N[e - 1], zeroHashes[e - 1])
  BY DEF NodeLevelsOf
<1>2. /\ L[0] = RootsOf(ns)
      /\ \A e \in 1 .. d : L[e] = LayerAbove(L[e - 1], zeroHashes[e - 1])
      /\ \A e \in 0 .. d : Len(L[e]) = 0 <=> RootsOf(ns) = << >>
      /\ RootsOf(ns) # << >> => Len(L[d]) = 1
  BY DEF LevelsOf, IsLevels
<1>3. ASSUME NEW e \in 1 .. d
      PROVE  /\ Len(N[e]) = (Len(N[e - 1]) + 1) \div 2
             /\ \A p \in 1 .. Len(N[e]) :
                   /\ 2 * p - 1 \in 1 .. Len(N[e - 1])
                   /\ N[e][p] = NewNodeWithLR(N[e - 1][2 * p - 1],
                                   IF 2 * p <= Len(N[e - 1]) THEN N[e - 1][2 * p]
                                   ELSE NewEmptyNode(zeroHashes[e - 1]))
             /\ RootsOf(N[e]) = LayerAbove(RootsOf(N[e - 1]), zeroHashes[e - 1])
  <2>1. e - 1 \in 0 .. d /\ e - 1 \in 0 .. MaxTreeDepth
    BY <1>0
  <2> DEFINE a == N[e - 1]
             z == zeroHashes[e - 1]
  <2>2. a \in Seq(NodeOf(X)) /\ z \in ChunkOf(X) /\ N[e] = NodesAbove(a, z)
    BY <1>1, <2>1, ZeroHashes
  <2> HIDE DEF a, z
  <2>3. AreNodesAbove(X, a, z, NodesAbove(a, z))
    BY ONLY IsUniverse(X), <2>2, NodesAboveType
  <2> QED BY <2>2, <2>3 DEF a, z, AreNodesAbove
<1> DEFINE R == [e \in 0 .. d |-> RootsOf(N[e])]
<1>4. \A e \in 0 .. d : RootsOf(N[e]) = L[e]
  <2>1. R[0] = L[0]
    <3>1. 0 \in 0 .. d
      BY <1>0
    <3> QED BY <1>1, <1>2, <3>1
  <2>2. ASSUME NEW e \in 1 .. d, R[e - 1] = L[e - 1] PROVE R[e] = L[e]
    <3>1. e - 1 \in 0 .. d /\ e \in 0 .. d
      BY <1>0
    <3>2. RootsOf(N[e]) = LayerAbove(RootsOf(N[e - 1]), zeroHashes[e - 1])
      BY <1>3
    <3>3. R[e - 1] = RootsOf(N[e - 1]) /\ R[e] = RootsOf(N[e])
      BY <3>1
    <3> QED BY <1>2, <2>2, <3>2, <3>3
  <2> HIDE DEF R
  <2>3. \A e \in 0 .. d : R[e] = L[e]
    <3>1. d \in Nat
      BY <1>0
    <3>2. \A e \in 1 .. d : R[e - 1] = L[e - 1] => R[e] = L[e]
      BY <2>2
    <3> QED BY ONLY <2>1, <3>1, <3>2, StepsAgree
  <2> QED BY <2>3 DEF R
<1>5. ASSUME ns # << >> PROVE Len(N[d]) = 1 /\ \A e \in 0 .. d : Len(N[e]) >= 1
  <2>1. \A e \in 0 .. d : Len(L[e]) = Len(N[e]) /\ Len(N[e]) \in Nat
    BY <1>1, <1>4, RootsOfIs
  <2>2. RootsOf(ns) # << >>
    <3>1. Len(RootsOf(ns)) = Len(ns)
      BY RootsOfIs
    <3>2. Len(ns) # 0
      BY <1>5
    <3> QED BY <3>1, <3>2
  <2>3. d \in 0 .. d
    BY <1>0
  <2>4. Len(N[d]) = 1
    BY <1>2, <2>1, <2>2, <2>3
  <2>5. \A e \in 0 .. d : Len(N[e]) # 0
    BY <1>2, <2>1, <2>2
  <2>6. \A e \in 0 .. d : Len(N[e]) >= 1
    BY <2>1, <2>5
  <2> QED BY <2>4, <2>6
<1> QED BY <1>1, <1>3, <1>4, <1>5 DEF AreNodeLevels

LEMMA DivTwice ==
    ASSUME NEW a, NEW p, a \in Nat, p \in Nat \ {0}
    PROVE  a \div p \in Nat /\ (a \div p) \div 2 = a \div (2 * p)
<1> DEFINE q == a \div p
           s == q \div 2
           P == 2 * p
           x == a \div P
<1>1. q \in Nat /\ q * p <= a /\ a < q * p + p /\ q * p \in Nat
  OBVIOUS
<1>2. P \in Nat \ {0}
  OBVIOUS
<1>3. x \in Nat /\ x * P <= a /\ a < x * P + P /\ x * P \in Nat
  <2> HIDE DEF P
  <2> QED BY <1>2
<1> HIDE DEF q, x
<1>4. s \in Nat /\ (q = 2 * s \/ q = 2 * s + 1)
  BY <1>1
<1> HIDE DEF s
<1>5. s * P \in Nat /\ s * P <= a /\ a < s * P + P
  <2>1. s * P = (2 * s) * p /\ (2 * s) * p \in Nat
    BY <1>4
  <2>2. CASE q = 2 * s
    BY <1>1, <2>1, <2>2
  <2>3. CASE q = 2 * s + 1
    <3>1. q * p = (2 * s) * p + p
      BY <1>4, <2>3
    <3> QED BY <1>1, <2>1, <3>1
  <2> QED BY <1>4, <2>2, <2>3
<1> HIDE DEF P
<1>6. ~ (x < s)
  <2>1. SUFFICES ASSUME x < s PROVE FALSE
    OBVIOUS
  <2>2. s - x - 1 \in Nat /\ s = x + 1 + (s - x - 1)
    BY <1>3, <1>4, <2>1
  <2> DEFINE y == s - x - 1
  <2> HIDE DEF y
  <2>3. y \in Nat /\ s = x + 1 + y
    BY <2>2 DEF y
  <2>4. s * P = x * P + P + y * P /\ y * P \in Nat
    BY <1>2, <1>3, <2>3
  <2> QED BY <1>2, <1>3, <1>5, <2>4
<1>7. ~ (s < x)
  <2>1. SUFFICES ASSUME s < x PROVE FALSE
    OBVIOUS
  <2> DEFINE y == x - s - 1
  <2>2. y \in Nat /\ x = s + 1 + y
    BY <1>3, <1>4, <2>1
  <2> HIDE DEF y
  <2>4. x * P = s * P + P + y * P /\ y * P \in Nat
    BY <1>2, <1>4, <2>2
  <2> QED BY <1>2, <1>3, <1>5, <2>4
<1>8. x = s
  BY <1>3, <1>4, <1>6, <1>7
<1> QED BY <1>1, <1>8 DEF q, s, x, P

(* Where the levels of TreeFromNodes end.                                  *)
LEMMA LevelsEnd ==
    ASSUME NEW d, NEW len, d \in Nat, \A e \in 0 .. d : len[e] \in Nat \ {0},
           \A e \in 1 .. d : len[e] = (len[e - 1] + 1) \div 2
    PROVE  \A e \in 0 .. d : (2^d + len[0] - 1) \div 2^e = 2^(d - e) + len[e] - 1
<1> DEFINE a == 2^d + len[0] - 1
           T == {e \in Nat : e <= d => a \div 2^e = 2^(d - e) + len[e] - 1}
<1>1. a \in Nat
  <2>1. 2^d \in Nat \ {0} /\ 0 \in 0 .. d
    BY TwoPowers
  <2> DEFINE q == 2^d
  <2> HIDE DEF q
  <2>2. q \in Nat \ {0} /\ len[0] \in Nat \ {0}
    BY <2>1 DEF q
  <2>3. q + len[0] - 1 \in Nat
    BY <2>2
  <2> QED BY <2>3 DEF q
<1>2. 0 \in T
  <2>1. 2^0 = 1 /\ d - 0 = d
    BY TwoPowers
  <2>2. a \div 1 = a
    <3> HIDE DEF a
    <3> QED BY <1>1
  <2> QED BY <2>1, <2>2
<1>3. ASSUME NEW e \in Nat, e \in T PROVE e + 1 \in T
  <2>1. SUFFICES ASSUME e + 1 <= d PROVE a \div 2^(e + 1) = 2^(d - (e + 1)) + len[e + 1] - 1
    OBVIOUS
  <2> DEFINE p == 2^e
             k == d - (e + 1)
             r == 2^k
             m == len[e]
             n == len[e + 1]
  <2>2. k \in Nat /\ d - e = k + 1
    BY <2>1
  <2>3. p \in Nat \ {0} /\ r \in Nat \ {0} /\ 2^(e + 1) = 2 * p /\ 2^(d - e) = 2 * r
    BY <2>2, TwoPowers
  <2>4. a \div p = 2 * r + m - 1
    BY <1>3, <2>1, <2>3
  <2>5. m \in Nat \ {0} /\ n = (m + 1) \div 2
    <3>1. e \in 0 .. d /\ e + 1 \in 1 .. d /\ (e + 1) - 1 = e
      BY <2>1
    <3> QED BY <3>1
  <2> HIDE DEF a, p, r, m, n
  <2>6. (a \div p) \div 2 = a \div (2 * p)
    BY <1>1, <2>3, DivTwice
  <2>7. (2 * r + m - 1) \div 2 = r + n - 1
    BY <2>3, <2>5
  <2>8. a \div 2^(e + 1) = r + n - 1
    BY <2>3, <2>4, <2>6, <2>7
  <2> QED BY <2>8 DEF r, n
<1> HIDE DEF T
<1>4. \A e \in Nat : e \in T
  BY <1>2, <1>3, SetInduction
<1> QED BY <1>4 DEF T

(* TreeFromNodes builds these layers.                                      *)
LEMMA TreeIs ==
    ASSUME NEW X, NEW leaves, NEW limit, NEW N, NEW L, IsUniverse(X),
           leaves \in Seq(NodeOf(X)), leaves # << >>, limit \in Nat, limit <= 2^MaxTreeDepth,
           Len(leaves) <= limit,
           N \in NodeLevelsOf(X, leaves, DepthFor(limit)),
           L \in LevelsOf(X, RootsOf(leaves), DepthFor(limit))
    PROVE  TreeFromNodes(leaves, limit) = N[DepthFor(limit)][1]
<1> DEFINE d == DepthFor(limit)
           n == Len(leaves)
           last(k) == (2^d + n - 1) \div 2^(d - k)
           Lev(k, f) ==
             [i \in 2^k .. last(k) |->
                    IF k = d THEN leaves[i - 2^d + 1]
                    ELSE IF 2 * i + 1 \in DOMAIN f[k + 1]
                    THEN NewNodeWithLR(f[k + 1][2 * i], f[k + 1][2 * i + 1])
                    ELSE NewNodeWithLR(f[k + 1][2 * i],
                                       NewEmptyNode(zeroHashes[d - k - 1]))]
           Rec(f) == f = [k \in 0 .. d |-> Lev(k, f)]
           c == CHOOSE f : Rec(f)
           len == [e \in 0 .. d |-> Len(N[e])]
           row(k) == [i \in 2^k .. 2^k + Len(N[d - k]) - 1 |-> N[d - k][i - 2^k + 1]]
           v == [k \in 0 .. d |-> row(k)]
<1>0. ~ (Len(leaves) > limit)
  <2> DEFINE l == Len(leaves)
  <2>1. l \in Nat /\ l <= limit
    OBVIOUS
  <2> HIDE DEF l
  <2>2. ~ (l > limit)
    BY <2>1
  <2> QED BY <2>2 DEF l
<1>1. TreeFromNodes(leaves, limit) = c[0][1]
  BY <1>0 DEF TreeFromNodes
<1>2. d \in 0 .. MaxTreeDepth /\ d \in Nat
  <2>1. d \in 0 .. MaxTreeDepth
    BY DepthIs
  <2> QED BY <2>1, ChunkAssumption
<1>3. /\ N[0] = leaves
      /\ \A e \in 0 .. d : N[e] \in Seq(NodeOf(X))
      /\ \A e \in 1 .. d :
            /\ Len(N[e]) = (Len(N[e - 1]) + 1) \div 2
            /\ \A p \in 1 .. Len(N[e]) :
                  /\ 2 * p - 1 \in 1 .. Len(N[e - 1])
                  /\ N[e][p] = NewNodeWithLR(N[e - 1][2 * p - 1],
                                  IF 2 * p <= Len(N[e - 1]) THEN N[e - 1][2 * p]
                                  ELSE NewEmptyNode(zeroHashes[e - 1]))
      /\ Len(N[d]) = 1 /\ \A e \in 0 .. d : Len(N[e]) >= 1
  <2>1. /\ IsUniverse(X) /\ leaves \in Seq(NodeOf(X)) /\ d \in 0 .. MaxTreeDepth
        /\ N \in NodeLevelsOf(X, leaves, d) /\ L \in LevelsOf(X, RootsOf(leaves), d)
    BY <1>2
  <2>2. leaves # << >>
    OBVIOUS
  <2> HIDE DEF d
  <2>3. AreNodeLevels(X, leaves, d, N, L)
    BY ONLY <2>1, NodeLevelsAre
  <2> QED BY <2>2, <2>3 DEF AreNodeLevels
<1>3a. \A e \in 0 .. d : Len(N[e]) \in Nat \ {0}
  BY <1>3
<1> HIDE DEF d
<1>4. \A k \in 0 .. d : last(k) = 2^k + Len(N[d - k]) - 1 /\ d - k \in 0 .. d
  <2>1. \A e \in 0 .. d : len[e] = Len(N[e])
    OBVIOUS
  <2>2. \A e \in 1 .. d : e \in 0 .. d /\ e - 1 \in 0 .. d
    BY <1>2
  <2>3. /\ \A e \in 0 .. d : len[e] \in Nat \ {0}
        /\ \A e \in 1 .. d : len[e] = (len[e - 1] + 1) \div 2
    BY <1>3, <1>3a, <2>1, <2>2
  <2>4. 0 \in 0 .. d /\ len[0] = n
    BY <1>2, <1>3
  <2> HIDE DEF len
  <2>5. \A e \in 0 .. d : (2^d + len[0] - 1) \div 2^e = 2^(d - e) + len[e] - 1
    BY <1>2, <2>3, LevelsEnd
  <2> HIDE DEF n
  <2>6. ASSUME NEW k \in 0 .. d
        PROVE  last(k) = 2^k + Len(N[d - k]) - 1 /\ d - k \in 0 .. d
    <3>1. d - k \in 0 .. d /\ d - (d - k) = k
      BY <1>2
    <3>2. (2^d + len[0] - 1) \div 2^(d - k) = 2^(d - (d - k)) + len[d - k] - 1
      BY <2>5, <3>1
    <3> QED BY <2>1, <2>4, <3>1, <3>2
  <2> QED BY <2>6
<1>5. \A k \in 0 .. d : v[k] = row(k)
  OBVIOUS
<1>6. ASSUME NEW k \in 0 .. d - 1
      PROVE  row(k) = Lev(k, v)
  <2> DEFINE e == d - k
             a == N[e - 1]
             b == N[e]
             p == 2^k
             m == Len(a)
             up == row(k + 1)
             z == zeroHashes[e - 1]
             new(i) == IF 2 * i + 1 \in DOMAIN up
                       THEN NewNodeWithLR(up[2 * i], up[2 * i + 1])
                       ELSE NewNodeWithLR(up[2 * i], NewEmptyNode(z))
  <2>1. /\ k \in Nat /\ k \in 0 .. d /\ k + 1 \in 0 .. d /\ e \in 1 .. d /\ e - 1 = d - (k + 1)
        /\ e - 1 \in 0 .. d /\ e \in 0 .. d /\ k # d /\ d - k - 1 = e - 1
    BY <1>2
  <2>2. p \in Nat \ {0} /\ 2^(k + 1) = 2 * p
    BY <2>1, TwoPowers
  <2>3. /\ Len(b) = (m + 1) \div 2 /\ m \in Nat \ {0}
        /\ \A i \in 1 .. Len(b) :
              b[i] = NewNodeWithLR(a[2 * i - 1],
                                   IF 2 * i <= m THEN a[2 * i] ELSE NewEmptyNode(z))
    BY <1>3, <1>3a, <2>1
  <2>4. up = [i \in 2 * p .. 2 * p + m - 1 |-> a[i - 2 * p + 1]]
    BY <2>1, <2>2
  <2>5. row(k) = [i \in p .. p + Len(b) - 1 |-> b[i - p + 1]]
    OBVIOUS
  <2>6. Lev(k, v) = [i \in p .. p + Len(b) - 1 |-> new(i)]
    <3>1. last(k) = p + Len(b) - 1
      BY <1>4, <2>1
    <3>2. v[k + 1] = up
      BY <1>5, <2>1
    <3> HIDE DEF v, row, last
    <3>3. Lev(k, v) = [i \in p .. last(k) |->
                    IF k = d THEN leaves[i - 2^d + 1]
                    ELSE IF 2 * i + 1 \in DOMAIN v[k + 1]
                    THEN NewNodeWithLR(v[k + 1][2 * i], v[k + 1][2 * i + 1])
                    ELSE NewNodeWithLR(v[k + 1][2 * i], NewEmptyNode(zeroHashes[d - k - 1]))]
      OBVIOUS
    <3> HIDE DEF Lev
    <3>4. k # d /\ d - k - 1 = e - 1
      BY <2>1
    <3> HIDE DEF up, b
    <3> QED BY <3>1, <3>2, <3>3, <3>4
  <2> HIDE DEF up, row, Lev
  <2>7. ASSUME NEW i \in p .. p + Len(b) - 1 PROVE b[i - p + 1] = new(i)
    <3> DEFINE q == i - p + 1
    <3> HIDE DEF a, b, m
    <3>1. /\ q \in 1 .. Len(b) /\ q \in Nat /\ 2 * i \in 2 * p .. 2 * p + m - 1
          /\ 2 * i - 2 * p + 1 = 2 * q - 1 /\ (2 * i + 1) - 2 * p + 1 = 2 * q
          /\ (2 * i + 1 \in 2 * p .. 2 * p + m - 1 <=> 2 * q <= m)
      <4> HIDE DEF p
      <4>0. i \in Int /\ p <= i /\ i <= p + Len(b) - 1
        BY <2>2, <2>3
      <4>1. i = q + p - 1 /\ q \in Int
        BY <2>2, <4>0
      <4>2. q \in 1 .. Len(b)
        BY <2>2, <2>3, <4>0
      <4> HIDE DEF q
      <4>3. 2 * q - 1 <= m /\ q >= 1
        BY <2>3, <4>2
      <4> QED BY <2>2, <2>3, <4>1, <4>2, <4>3
    <3> HIDE DEF q, p
    <3>2. up[2 * i] = a[2 * q - 1]
      BY <2>4, <3>1
    <3>3. 2 * i + 1 \in DOMAIN up <=> 2 * q <= m
      BY <2>4, <3>1
    <3>4. 2 * q <= m => up[2 * i + 1] = a[2 * q]
      BY <2>4, <3>1
    <3>5. b[q] = NewNodeWithLR(a[2 * q - 1], IF 2 * q <= m THEN a[2 * q] ELSE NewEmptyNode(z))
      BY <2>3, <3>1
    <3>6. CASE 2 * q <= m
      BY <3>2, <3>3, <3>4, <3>5, <3>6 DEF q
    <3>7. CASE ~ (2 * q <= m)
      BY <3>2, <3>3, <3>5, <3>7 DEF q
    <3> QED BY <3>6, <3>7
  <2> HIDE DEF new, b, p
  <2> QED BY <2>5, <2>6, <2>7
<1>7. row(d) = Lev(d, v)
  <2> DEFINE p == 2^d
  <2>1. d \in 0 .. d /\ d - d = 0
    BY <1>2
  <2>2. last(d) = p + Len(N[d - d]) - 1
    BY <1>4, <2>1
  <2>3. Lev(d, v) = [i \in p .. last(d) |-> leaves[i - p + 1]]
    BY DEF Lev
  <2>4. row(d) = [i \in p .. p + Len(N[d - d]) - 1 |-> N[d - d][i - p + 1]]
    OBVIOUS
  <2> HIDE DEF row, Lev, last, p
  <2> QED BY <1>3, <2>1, <2>2, <2>3, <2>4
<1>8. Rec(v)
  <2> HIDE DEF row, Lev
  <2>1. \A k \in 0 .. d : k = d \/ k \in 0 .. d - 1
    BY <1>2
  <2>2. \A k \in 0 .. d : row(k) = Lev(k, v)
    <3> HIDE DEF v
    <3> QED BY <1>6, <1>7, <2>1
  <2>3. v = [k \in 0 .. d |-> row(k)]
    OBVIOUS
  <2> HIDE DEF v
  <2> QED BY <2>2, <2>3
<1>9. Rec(c)
  <2> HIDE DEF v, Rec
  <2> QED BY <1>8
<1>10. \A k \in 0 .. d : c[k] = Lev(k, c) /\ v[k] = Lev(k, v)
  <2> HIDE DEF Lev, c
  <2>1. \A k \in 0 .. d : c[k] = Lev(k, c)
    BY <1>9
  <2> HIDE DEF v
  <2>2. \A k \in 0 .. d : v[k] = Lev(k, v)
    BY <1>8
  <2> QED BY <2>1, <2>2
<1> HIDE DEF c, v, row, last, Rec, n
<1>11. \A k \in 0 .. d : c[k] = v[k]
  <2> DEFINE f == [e \in 0 .. d |-> c[d - e]]
             g == [e \in 0 .. d |-> v[d - e]]
  <2>0. \A e \in 0 .. d : f[e] = c[d - e] /\ g[e] = v[d - e] /\ d - e \in 0 .. d
    BY <1>2
  <2>1. f[0] = g[0]
    <3>1. d - 0 = d /\ d \in 0 .. d /\ 0 \in 0 .. d
      BY <1>2
    <3>2. Lev(d, c) = Lev(d, v)
      BY DEF Lev
    <3> HIDE DEF f, g, Lev
    <3> QED BY <1>10, <2>0, <3>1, <3>2
  <2> HIDE DEF f, g
  <2>2. ASSUME NEW e \in 1 .. d, f[e - 1] = g[e - 1] PROVE f[e] = g[e]
    <3> DEFINE k == d - e
    <3>1. k \in 0 .. d /\ e - 1 \in 0 .. d /\ e \in 0 .. d /\ d - (e - 1) = k + 1
      BY <1>2
    <3>2. c[k + 1] = v[k + 1]
      BY <2>0, <2>2, <3>1
    <3>3. f[e] = c[k] /\ g[e] = v[k]
      BY <2>0, <3>1
    <3> HIDE DEF k
    <3>4. Lev(k, c) = Lev(k, v)
      BY <3>2 DEF Lev
    <3> HIDE DEF Lev
    <3> QED BY <1>10, <3>1, <3>3, <3>4
  <2>3. \A e \in 0 .. d : f[e] = g[e]
    <3>1. \A e \in 1 .. d : f[e - 1] = g[e - 1] => f[e] = g[e]
      BY <2>2
    <3>2. d \in Nat
      BY <1>2
    <3> QED BY ONLY <2>1, <3>1, <3>2, StepsAgree
  <2>4. ASSUME NEW k \in 0 .. d PROVE c[k] = v[k]
    <3>1. d - k \in 0 .. d /\ d - (d - k) = k
      BY <1>2
    <3> QED BY <2>0, <2>3, <3>1
  <2> QED BY <2>4
<1>12. v[0][1] = N[d][1]
  <2>1. 0 \in 0 .. d /\ d - 0 = d /\ 2^0 = 1
    BY <1>2, TwoPowers
  <2>2. row(0) = [i \in 1 .. 1 + Len(N[d]) - 1 |-> N[d][i - 1 + 1]]
    BY <2>1 DEF row
  <2>3. 1 \in 1 .. 1 + Len(N[d]) - 1 /\ 1 - 1 + 1 = 1
    BY <1>3
  <2>4. row(0)[1] = N[d][1]
    BY <2>2, <2>3
  <2> QED BY <1>5, <2>1, <2>4
<1> QED BY <1>1, <1>2, <1>11, <1>12 DEF d

(* Get goes down one level at a time.                                      *)
Child(x, b)  == IF x.kids = << >> THEN NotFound ELSE x.kids[b + 1]
IsDown(node, f, n) ==
    f = [g \in 1 .. n |-> IF g = 1 THEN node
                          ELSE IF f[g \div 2].kids = << >> THEN NotFound
                          ELSE f[g \div 2].kids[(g % 2) + 1]]

LEMMA GetIs ==
    ASSUME NEW node
    PROVE  /\ Get(node, 1) = node
           /\ \A g \in Nat : g >= 2 => /\ Get(node, g) = Child(Get(node, g \div 2), g % 2)
                                       /\ g \div 2 \in Nat /\ g \div 2 >= 1
<1> DEFINE P(n) == \E f : IsDown(node, f, n)
           T == {n \in Nat : P(n)}
           c(n) == CHOOSE f : IsDown(node, f, n)
<1>1. \A g \in Nat : g >= 2 => g \div 2 \in Nat /\ g \div 2 >= 1 /\ g \div 2 <= g - 1
  OBVIOUS
<1>2. \A n \in Nat : P(n)
  <2>1. P(0)
    <3> DEFINE f == [g \in 1 .. 0 |-> node]
    <3>1. IsDown(node, f, 0)
      <4>1. \A g \in 1 .. 0 : FALSE
        OBVIOUS
      <4> QED BY <4>1 DEF IsDown
    <3> HIDE DEF f
    <3> QED BY <3>1
  <2>2. ASSUME NEW n \in Nat, P(n) PROVE P(n + 1)
    <3>1. PICK f : IsDown(node, f, n)
      BY <2>2
    <3> DEFINE el(x, g) == IF g = 1 THEN node
                           ELSE IF x[g \div 2].kids = << >> THEN NotFound
                           ELSE x[g \div 2].kids[(g % 2) + 1]
               e == [g \in 1 .. n + 1 |-> IF g = n + 1 THEN el(f, n + 1) ELSE f[g]]
    <3>2. f = [g \in 1 .. n |-> el(f, g)]
      BY <3>1 DEF IsDown
    <3>3. \A g \in 1 .. n : e[g] = f[g]
      <4>1. \A g \in 1 .. n : g \in 1 .. n + 1 /\ g # n + 1
        OBVIOUS
      <4> HIDE DEF el
      <4> QED BY <4>1
    <3>4. \A g \in 1 .. n + 1 : e[g] = IF g = n + 1 THEN el(f, n + 1) ELSE f[g]
      <4> HIDE DEF el
      <4> QED OBVIOUS
    <3>4a. e = [g \in 1 .. n + 1 |-> e[g]]
      <4> HIDE DEF el
      <4> QED OBVIOUS
    <3> HIDE DEF e
    <3>5. \A g \in 1 .. n + 1 : g = 1 \/ (g \div 2 \in 1 .. n)
      BY <1>1
    <3>6. \A g \in 1 .. n + 1 : el(e, g) = el(f, g)
      BY <3>3, <3>5
    <3>7. \A g \in 1 .. n + 1 : e[g] = el(e, g)
      <4> HIDE DEF el
      <4>1. \A g \in 1 .. n : f[g] = el(f, g)
        BY <3>2
      <4>2. \A g \in 1 .. n + 1 : g = n + 1 \/ g \in 1 .. n
        OBVIOUS
      <4> QED BY <3>4, <3>6, <4>1, <4>2
    <3>8. e = [g \in 1 .. n + 1 |-> el(e, g)]
      <4> HIDE DEF el
      <4> QED BY <3>4a, <3>7
    <3>9. IsDown(node, e, n + 1)
      BY <3>8 DEF IsDown
    <3> QED BY <3>9
  <2> HIDE DEF P
  <2>3. 0 \in T
    BY <2>1
  <2>4. ASSUME NEW n \in Nat, n \in T PROVE n + 1 \in T
    BY <2>2, <2>4
  <2> HIDE DEF T
  <2>5. \A n \in Nat : n \in T
    BY <2>3, <2>4, SetInduction
  <2> QED BY <2>5 DEF T
<1>3. \A n \in Nat : IsDown(node, c(n), n)
  BY <1>2
<1>4. \A n \in Nat : Get(node, n) = c(n)[n]
  BY DEF Get, IsDown
<1> HIDE DEF c
<1>5. ASSUME NEW n \in Nat, NEW g \in 1 .. n
      PROVE  c(n)[g] = IF g = 1 THEN node ELSE Child(c(n)[g \div 2], g % 2)
  <2>1. IsDown(node, c(n), n)
    BY <1>3
  <2>2. c(n)[g] = IF g = 1 THEN node
                  ELSE IF c(n)[g \div 2].kids = << >> THEN NotFound
                  ELSE c(n)[g \div 2].kids[(g % 2) + 1]
    BY <2>1 DEF IsDown
  <2> QED BY <2>2 DEF Child
<1>6. ASSUME NEW m \in Nat, NEW n \in Nat, m <= n PROVE \A g \in 1 .. m : c(m)[g] = c(n)[g]
  <2> DEFINE Q(k) == \A g \in 1 .. m : g <= k => c(m)[g] = c(n)[g]
             S == {k \in Nat : Q(k)}
  <2>1. 0 \in S
    OBVIOUS
  <2>2. ASSUME NEW k \in Nat, k \in S PROVE k + 1 \in S
    <3>1. ASSUME NEW g \in 1 .. m, g <= k + 1 PROVE c(m)[g] = c(n)[g]
      <4>1. g \in 1 .. n
        BY <1>6
      <4>2. CASE g = 1
        BY <1>5, <4>1, <4>2
      <4>3. CASE g # 1
        <5>1. g \in Nat /\ g >= 2 /\ g \div 2 \in 1 .. m /\ g \div 2 <= k
          BY <1>1, <3>1, <4>3
        <5>2. c(m)[g \div 2] = c(n)[g \div 2]
          BY <2>2, <5>1
        <5>3. c(m)[g] = Child(c(m)[g \div 2], g % 2)
          BY <1>5, <4>3
        <5>4. c(n)[g] = Child(c(n)[g \div 2], g % 2)
          BY <1>5, <4>1, <4>3
        <5> QED BY <5>2, <5>3, <5>4
      <4> QED BY <4>2, <4>3
    <3> QED BY <3>1
  <2> HIDE DEF S
  <2>3. m \in S
    BY <2>1, <2>2, SetInduction
  <2>4. Q(m)
    BY <2>3 DEF S
  <2> QED BY <2>4
<1>7. Get(node, 1) = node
  BY <1>4, <1>5
<1>8. ASSUME NEW g \in Nat, g >= 2 PROVE Get(node, g) = Child(Get(node, g \div 2), g % 2)
  <2>1. g \div 2 \in Nat /\ g \div 2 \in 1 .. g \div 2 /\ g \div 2 <= g /\ g \in 1 .. g /\ g # 1
    BY <1>1, <1>8
  <2>2. c(g)[g] = Child(c(g)[g \div 2], g % 2)
    BY <1>5, <2>1
  <2>3. c(g \div 2)[g \div 2] = c(g)[g \div 2]
    BY <1>6, <2>1
  <2> QED BY <1>4, <2>1, <2>2, <2>3
<1> QED BY <1>1, <1>7, <1>8

(* A node that is not there, or an empty one of this root.                 *)
IsAbsent(x, z) == x.kids = << >> /\ (x = NotFound \/ x.root = z)

(* What Get finds in a layer of a tree that has its root at index b: the   *)
(* nodes of that layer, and beyond them nothing but empty nodes.           *)
FindsLayer(r, i, ns, width, z) ==
    \A p \in 1 .. width : IF p <= Len(ns) THEN Get(r, i + p - 1) = ns[p]
                          ELSE IsAbsent(Get(r, i + p - 1), z)

LEMMA GetNextLayer ==
    ASSUME NEW r, NEW c, NEW m, NEW a, NEW width, NEW up, NEW z, NEW zu,
           c \in Nat \ {0}, width \in Nat \ {0}, m \in Nat \ {0}, m = Len(a),
           Len(up) = (m + 1) \div 2,
           \A p \in 1 .. Len(up) :
              up[p] = NewNodeWithLR(a[2 * p - 1],
                                    IF 2 * p <= m THEN a[2 * p] ELSE NewEmptyNode(z)),
           FindsLayer(r, c, up, width, zu)
    PROVE  FindsLayer(r, 2 * c, a, 2 * width, z)
<1> SUFFICES ASSUME NEW p \in 1 .. 2 * width
             PROVE  IF p <= Len(a) THEN Get(r, 2 * c + p - 1) = a[p]
                    ELSE IsAbsent(Get(r, 2 * c + p - 1), z)
  BY DEF FindsLayer
<1> DEFINE q == (p + 1) \div 2
           g == 2 * c + p - 1
           x == Get(r, c + q - 1)
<1>1. /\ g \in Nat /\ g >= 2 /\ g \div 2 = c + q - 1 /\ q \in 1 .. width /\ p \in Nat
      /\ \/ p = 2 * q - 1 /\ g % 2 = 0
         \/ p = 2 * q /\ g % 2 = 1
  <2>1. p \in Nat /\ p >= 1 /\ p <= 2 * width
    OBVIOUS
  <2>2. q \in Nat /\ (p = 2 * q - 1 \/ p = 2 * q)
    BY <2>1
  <2> HIDE DEF q
  <2>3. q >= 1 /\ q <= width
    BY <2>1, <2>2
  <2>4. CASE p = 2 * q - 1
    <3>1. g = 2 * (c + q - 1)
      BY <2>2, <2>4
    <3>2. g \div 2 = c + q - 1 /\ g % 2 = 0 /\ g \in Nat /\ g >= 2
      BY <2>2, <2>3, <3>1
    <3> QED BY <2>1, <2>2, <2>3, <2>4, <3>2
  <2>5. CASE p = 2 * q
    <3> DEFINE y == c + q - 1
    <3>1. g = 2 * y + 1 /\ y \in Nat /\ y >= 1
      BY <2>2, <2>3, <2>5
    <3> HIDE DEF y, g
    <3>2. g \div 2 = y /\ g % 2 = 1 /\ g \in Nat /\ g >= 2
      BY <3>1
    <3> USE DEF y, g
    <3> QED BY <2>1, <2>2, <2>3, <2>5, <3>2
  <2> QED BY <2>2, <2>4, <2>5
<1>2. Get(r, g) = Child(x, g % 2)
  <2> HIDE DEF g
  <2>1. Get(r, g) = Child(Get(r, g \div 2), g % 2)
    BY <1>1, GetIs
  <2> QED BY <1>1, <2>1
<1>3. IF q <= Len(up) THEN x = up[q] ELSE IsAbsent(x, zu)
  BY <1>1 DEF FindsLayer
<1> HIDE DEF g, x
<1>4. CASE q <= Len(up)
  <2>1. q \in 1 .. Len(up) /\ 2 * q - 1 <= m
    <3> HIDE DEF q
    <3> QED BY <1>1, <1>4
  <2>2. x = NewNodeWithLR(a[2 * q - 1], IF 2 * q <= m THEN a[2 * q] ELSE NewEmptyNode(z))
    BY <1>3, <1>4, <2>1
  <2> DEFINE s == IF 2 * q <= m THEN a[2 * q] ELSE NewEmptyNode(z)
  <2>3. x.kids = <<a[2 * q - 1], s>>
    BY <2>2 DEF NewNodeWithLR
  <2> HIDE DEF s, q
  <2>4. x.kids # << >> /\ x.kids[0 + 1] = a[2 * q - 1] /\ x.kids[1 + 1] = s
    BY <2>3
  <2>5. CASE p = 2 * q - 1 /\ g % 2 = 0
    <3>1. Get(r, g) = a[p] /\ p <= Len(a)
      BY <1>2, <2>1, <2>4, <2>5 DEF Child
    <3> QED BY <3>1 DEF g
  <2>6. CASE p = 2 * q /\ g % 2 = 1
    <3>1. Get(r, g) = s
      BY <1>2, <2>4, <2>6 DEF Child
    <3>2. CASE 2 * q <= m
      <4>1. s = a[p] /\ p <= Len(a)
        BY <2>6, <3>2 DEF s
      <4> QED BY <3>1, <4>1 DEF g
    <3>3. CASE ~ (2 * q <= m)
      <4>1. s = NewEmptyNode(z) /\ ~ (p <= Len(a))
        BY <2>6, <3>3 DEF s
      <4>2. IsAbsent(NewEmptyNode(z), z)
        BY DEF IsAbsent, NewEmptyNode
      <4> QED BY <3>1, <4>1, <4>2 DEF g
    <3> QED BY <3>2, <3>3
  <2> QED BY <1>1, <2>5, <2>6
<1>5. CASE ~ (q <= Len(up))
  <2>1. ~ (p <= Len(a))
    <3> HIDE DEF q
    <3> QED BY <1>1, <1>5
  <2>2. x.kids = << >>
    BY <1>3, <1>5 DEF IsAbsent
  <2>3. Get(r, g) = NotFound
    BY <1>2, <2>2 DEF Child
  <2>4. IsAbsent(NotFound, z)
    BY DEF IsAbsent, NotFound
  <2> QED BY <2>1, <2>3, <2>4 DEF g
<1> QED BY <1>4, <1>5

LEMMA GetsLeaves ==
    ASSUME NEW X, NEW ns, NEW d, NEW N, NEW L, NEW r, NEW b, AreNodeLevels(X, ns, d, N, L),
           ns # << >>, d \in Nat, b \in Nat \ {0}, Get(r, b) = N[d][1]
    PROVE  FindsLayer(r, b * 2^d, ns, 2^d, zeroHashes[0])
<1> DEFINE Q(k) == FindsLayer(r, b * 2^k, N[d - k], 2^k, zeroHashes[d - k])
           T == {k \in Nat : k <= d => Q(k)}
<1>1. /\ N[0] = ns
      /\ \A e \in 0 .. d : N[e] \in Seq(NodeOf(X))
      /\ \A e \in 1 .. d :
            /\ Len(N[e]) = (Len(N[e - 1]) + 1) \div 2
            /\ \A p \in 1 .. Len(N[e]) :
                  N[e][p] = NewNodeWithLR(N[e - 1][2 * p - 1],
                                  IF 2 * p <= Len(N[e - 1]) THEN N[e - 1][2 * p]
                                  ELSE NewEmptyNode(zeroHashes[e - 1]))
      /\ Len(N[d]) = 1 /\ \A e \in 0 .. d : Len(N[e]) >= 1
  BY DEF AreNodeLevels
<1>2. \A e \in 0 .. d : Len(N[e]) \in Nat \ {0}
  BY <1>1
<1>3. 0 \in T
  <2>1. 2^0 = 1 /\ d - 0 = d /\ b * 1 = b /\ b + 1 - 1 = b
    BY TwoPowers
  <2>2. FindsLayer(r, b, N[d], 1, zeroHashes[d])
    <3>1. \A p \in 1 .. 1 : p = 1
      OBVIOUS
    <3> QED BY <1>1, <2>1, <3>1 DEF FindsLayer
  <2> QED BY <2>1, <2>2
<1>4. ASSUME NEW k \in Nat, k \in T PROVE k + 1 \in T
  <2>1. SUFFICES ASSUME k + 1 <= d PROVE Q(k + 1)
    OBVIOUS
  <2> DEFINE e == d - k
             j == d - (k + 1)
             q == 2^k
             c == b * q
  <2>2. e \in 1 .. d /\ e - 1 = j /\ j \in 0 .. d /\ k <= d
    BY <2>1
  <2>3. q \in Nat \ {0} /\ 2^(k + 1) = 2 * q
    BY TwoPowers
  <2>4. c \in Nat \ {0} /\ b * (2 * q) = 2 * c
    <3> HIDE DEF q
    <3> QED BY <2>3
  <2>5. FindsLayer(r, c, N[e], q, zeroHashes[e])
    BY <1>4, <2>2
  <2> DEFINE up == N[e]
             a == N[j]
             z == zeroHashes[j]
             zu == zeroHashes[e]
             m == Len(a)
  <2>6. /\ m \in Nat \ {0} /\ m = Len(a) /\ Len(up) = (m + 1) \div 2
        /\ \A p \in 1 .. Len(up) :
              up[p] = NewNodeWithLR(a[2 * p - 1],
                                    IF 2 * p <= m THEN a[2 * p] ELSE NewEmptyNode(z))
    BY <1>1, <1>2, <2>2
  <2> HIDE DEF e, j, q, c, T
  <2>7. FindsLayer(r, c, up, q, zu)
    BY <2>5
  <2> HIDE DEF up, a, z, zu, m
  <2>8. FindsLayer(r, 2 * c, a, 2 * q, z)
    BY <2>3, <2>4, <2>6, <2>7, GetNextLayer
  <2> QED BY <2>3, <2>4, <2>8 DEF a, z, j
<1> HIDE DEF T, Q
<1>5. d \in T
  BY <1>3, <1>4, SetInduction
<1>6. Q(d)
  BY <1>5 DEF T
<1>7. d - d = 0
  OBVIOUS
<1> QED BY <1>1, <1>6, <1>7 DEF Q

(* A tree with these leaves in layer d, wherever in a tree it is.          *)
HasLeaves(t, leaves, d) ==
    leaves # << >> =>
       \A r : \A b \in Nat \ {0} :
          Get(r, b) = t => FindsLayer(r, b * 2^d, leaves, 2^d, ZeroChunk)

LEMMA TreeOver ==
    ASSUME NEW X, NEW leaves, NEW limit, NEW cells, IsUniverse(X),
           leaves \in Seq(NodeOf(X)), limit \in Nat, limit <= 2^MaxTreeDepth,
           Len(leaves) <= limit, Len(leaves) <= 2^DepthFor(limit), Padded(cells) = FlattenSeq(RootsOf(leaves))
    PROVE  /\ TreeFromNodes(leaves, limit) \in NodeOf(X)
           /\ TreeFromNodes(leaves, limit).root = Root(cells, limit)
           /\ HasLeaves(TreeFromNodes(leaves, limit), leaves, DepthFor(limit))
<1> DEFINE d == DepthFor(limit)
           rs == RootsOf(leaves)
           t == TreeFromNodes(leaves, limit)
<1>0. d \in 0 .. MaxTreeDepth /\ d \in Nat
  <2>1. d \in 0 .. MaxTreeDepth
    BY DepthIs
  <2> QED BY <2>1, ChunkAssumption
<1>1. rs \in Seq(ChunkOf(X)) /\ Len(rs) = Len(leaves)
  BY RootsOfIs
<1>2. rs = << >> <=> leaves = << >>
  <2> HIDE DEF rs
  <2> QED BY <1>1
<1>3. PICK L : L \in LevelsOf(X, rs, d)
  <2>1. Len(rs) <= 2^d
    BY <1>1
  <2> HIDE DEF rs, d
  <2> QED BY <1>0, <1>1, <2>1, LevelsExist
<1>4. PICK N : N \in NodeLevelsOf(X, leaves, d)
  BY <1>0, NodeLevelsExist
<1>5. Root(cells, limit) = IF rs = << >> THEN zeroHashes[d] ELSE L[d][1]
  <2>1. Padded(cells) = FlattenSeq(rs)
    OBVIOUS
  <2> HIDE DEF rs
  <2> QED BY <1>1, <1>3, <2>1, RootIs
<1>6. AreNodeLevels(X, leaves, d, N, L)
  <2>1. /\ IsUniverse(X) /\ leaves \in Seq(NodeOf(X)) /\ d \in 0 .. MaxTreeDepth
        /\ N \in NodeLevelsOf(X, leaves, d) /\ L \in LevelsOf(X, RootsOf(leaves), d)
    BY <1>0, <1>3, <1>4
  <2> HIDE DEF d
  <2> QED BY ONLY <2>1, NodeLevelsAre
<1>7. CASE leaves = << >>
  <2>1. t = NewEmptyNode(zeroHashes[d])
    BY <1>7 DEF TreeFromNodes
  <2>2. zeroHashes[d] \in ChunkOf(X)
    BY <1>0, ZeroHashes
  <2>3. t \in NodeOf(X)
    BY <2>1, <2>2, NodeTypes
  <2>4. t.root = Root(cells, limit)
    BY <1>2, <1>5, <1>7, <2>1 DEF NewEmptyNode
  <2>5. HasLeaves(t, leaves, d)
    BY <1>7 DEF HasLeaves
  <2> QED BY <2>3, <2>4, <2>5
<1>8. CASE leaves # << >>
  <2>1. t = N[d][1]
    BY <1>3, <1>4, <1>8, TreeIs
  <2>2. d \in 0 .. d /\ Len(N[d]) = 1 /\ N[d] \in Seq(NodeOf(X)) /\ RootsOf(N[d]) = L[d]
    <3>1. d \in 0 .. d
      BY <1>0
    <3> HIDE DEF d
    <3> QED BY <1>6, <1>8, <3>1 DEF AreNodeLevels
  <2>3. t \in NodeOf(X) /\ t.root = L[d][1]
    <3> DEFINE top == N[d]
    <3>1. Len(top) = 1 /\ top \in Seq(NodeOf(X)) /\ RootsOf(top) = L[d]
      BY <2>2
    <3> HIDE DEF top, d
    <3>2. RootsOf(top)[1] = top[1].root /\ top[1] \in NodeOf(X)
      BY <3>1, RootsOfIs
    <3> HIDE DEF t
    <3> QED BY <2>1, <3>1, <3>2 DEF top
  <2>4. t.root = Root(cells, limit)
    BY <1>2, <1>5, <1>8, <2>3
  <2>5. ASSUME NEW r, NEW b \in Nat \ {0}, Get(r, b) = t
        PROVE  FindsLayer(r, b * 2^d, leaves, 2^d, ZeroChunk)
    <3>1. Get(r, b) = N[d][1]
      BY <2>1, <2>5
    <3>2. FindsLayer(r, b * 2^d, leaves, 2^d, zeroHashes[0])
      <4> HIDE DEF d
      <4> QED BY <1>0, <1>6, <1>8, <3>1, GetsLeaves
    <3> QED BY <3>2, ZeroHashes
  <2>6. HasLeaves(t, leaves, d)
    BY <2>5 DEF HasLeaves
  <2> QED BY <2>3, <2>4, <2>6
<1> QED BY <1>7, <1>8

(* The leaves that bytes become.                                           *)
LeavesOf(cells) ==
    IF cells = << >> THEN <<Leaf(ZeroChunk)>>
    ELSE [j \in 1 .. Len(Padded(cells)) \div U |-> Leaf(ChunkAt(Padded(cells), j - 1))]

LEMMA LeavesOfIs ==
    ASSUME NEW X, NEW cells, IsUniverse(X), cells \in Seq(X)
    PROVE  /\ LeavesOf(cells) \in Seq(NodeOf(X))
           /\ RootsOf(LeavesOf(cells)) = IF cells = << >> THEN <<ZeroChunk>> ELSE ChunksOf(cells)
           /\ \A ns \in Seq(NodeOf(X)) :
                 ns \o LeavesOf(cells) =
                   LET b == IF cells = << >> THEN ZeroChunk ELSE Padded(cells)
                   IN  ns \o [j \in 1 .. Len(b) \div U |-> Leaf(ChunkAt(b, j - 1))]
<1>0. U \in Nat \ {0}
  BY ChunkAssumption
<1>1. ZeroChunk \in ChunkOf(X) /\ ZeroChunk \in Seq(X) /\ Len(ZeroChunk) = U
  <2>1. ZeroChunk \in ChunkOf(X)
    BY ChunkTypes
  <2> QED BY <2>1, FlatOne
<1>2. CASE cells = << >>
  <2> DEFINE s == <<Leaf(ZeroChunk)>>
  <2>1. LeavesOf(cells) = s
    BY <1>2 DEF LeavesOf
  <2>2. Leaf(ZeroChunk) \in NodeOf(X) /\ Leaf(ZeroChunk).root = ZeroChunk
    BY <1>1, NodeTypes DEF Leaf
  <2>3. s \in Seq(NodeOf(X))
    BY <2>2
  <2>4. RootsOf(s) = <<ZeroChunk>>
    <3>1. RootsOf(s) = [i \in 1 .. 1 |-> s[i].root]
      BY DEF RootsOf
    <3>2. RootsOf(s) = [i \in 1 .. 1 |-> ZeroChunk]
      BY <2>2, <3>1
    <3>3. [i \in 1 .. 1 |-> ZeroChunk] = <<ZeroChunk>>
      <4> DEFINE z == ZeroChunk
      <4> HIDE DEF z
      <4>1. [i \in 1 .. 1 |-> z] = <<z>>
        OBVIOUS
      <4> QED BY <4>1 DEF z
    <3> QED BY <3>2, <3>3
  <2>5. [j \in 1 .. Len(ZeroChunk) \div U |-> Leaf(ChunkAt(ZeroChunk, j - 1))] = s
    <3>1. U \div U = 1
      BY <1>0
    <3>2. ChunkAt(ZeroChunk, 1 - 1) = ZeroChunk
      <4>1. FlattenSeq(<<ZeroChunk>>) = ZeroChunk
        BY <1>1, FlatOne
      <4>2. <<ZeroChunk>> \in Seq(ChunkOf(X)) /\ Len(<<ZeroChunk>>) = 1 /\ <<ZeroChunk>>[1] = ZeroChunk
        BY <1>1
      <4> DEFINE cs == <<ZeroChunk>>
      <4> HIDE DEF cs
      <4>3. \A j \in 0 .. Len(cs) - 1 : ChunkAt(FlattenSeq(cs), j) = cs[j + 1]
        BY <4>2, FlatChunks DEF cs
      <4>4. 0 \in 0 .. Len(cs) - 1 /\ 0 + 1 = 1 /\ 1 - 1 = 0
        BY <4>2 DEF cs
      <4>5. ChunkAt(FlattenSeq(cs), 0) = cs[1]
        BY <4>3, <4>4
      <4> QED BY <4>1, <4>2, <4>4, <4>5 DEF cs
    <3> DEFINE lf(j) == Leaf(ChunkAt(ZeroChunk, j - 1))
    <3>3. lf(1) = Leaf(ZeroChunk)
      BY <3>2
    <3> HIDE DEF lf
    <3>4. [j \in 1 .. 1 |-> lf(j)] = <<lf(1)>>
      OBVIOUS
    <3>5. [j \in 1 .. Len(ZeroChunk) \div U |-> lf(j)] = s
      BY <1>1, <3>1, <3>3, <3>4
    <3> QED BY <3>5 DEF lf
  <2> HIDE DEF s
  <2> QED BY <1>2, <2>1, <2>3, <2>4, <2>5
<1>3. CASE cells # << >>
  <2> DEFINE cs == ChunksOf(cells)
             m == Len(Padded(cells)) \div U
             lf(j) == Leaf(ChunkAt(Padded(cells), j - 1))
             s == [j \in 1 .. m |-> lf(j)]
  <2>1. LeavesOf(cells) = s
    BY <1>3 DEF LeavesOf
  <2>2. cs = [j \in 1 .. m |-> ChunkAt(Padded(cells), j - 1)]
    BY DEF ChunksOf
  <2>3. cs \in Seq(ChunkOf(X))
    BY ChunksOfIs
  <2>4. m \in Nat
    <3>1. Len(Padded(cells)) \in Nat
      BY PaddedIs
    <3> DEFINE q == Len(Padded(cells))
    <3> HIDE DEF q
    <3>2. q \div U \in Nat
      BY <1>0, <3>1 DEF q
    <3> QED BY <3>2 DEF q
  <2> HIDE DEF cs, m
  <2>5. \A j \in 1 .. m : /\ lf(j) = Leaf(cs[j]) /\ cs[j] \in ChunkOf(X)
    <3>1. Len(cs) = m
      BY <2>2, <2>4
    <3>2. \A j \in 1 .. m : cs[j] \in ChunkOf(X)
      BY <2>3, <3>1
    <3>3. \A j \in 1 .. m : cs[j] = ChunkAt(Padded(cells), j - 1)
      BY <2>2
    <3> QED BY <3>2, <3>3
  <2> HIDE DEF lf
  <2>6. \A j \in 1 .. m : lf(j) \in NodeOf(X) /\ lf(j).root = cs[j]
    <3>1. \A j \in 1 .. m : Leaf(cs[j]) \in NodeOf(X)
      BY <2>5, NodeTypes
    <3>2. \A j \in 1 .. m : Leaf(cs[j]).root = cs[j]
      BY DEF Leaf
    <3> QED BY <2>5, <3>1, <3>2
  <2>7. s \in [1 .. m -> NodeOf(X)] /\ \A j \in 1 .. m : s[j] = lf(j)
    BY <2>6
  <2>8. s \in Seq(NodeOf(X)) /\ Len(s) = m
    BY <2>4, <2>7, FunctionIsSeq
  <2>9. RootsOf(s) = cs
    <3>1. RootsOf(s) = [j \in 1 .. m |-> s[j].root]
      BY <2>8 DEF RootsOf
    <3>2. RootsOf(s) = [j \in 1 .. m |-> cs[j]]
      BY <2>6, <2>7, <3>1
    <3>3. cs = [j \in 1 .. m |-> cs[j]]
      BY <2>2
    <3> QED BY <3>2, <3>3
  <2>10. [j \in 1 .. Len(Padded(cells)) \div U |-> Leaf(ChunkAt(Padded(cells), j - 1))] = s
    BY DEF lf, m
  <2> HIDE DEF s
  <2> QED BY <1>3, <2>1, <2>8, <2>9, <2>10 DEF cs
<1> QED BY <1>2, <1>3

---------------------------------------------------------------------------
(***************************************************************************)
(* The operations of the Wrapper.                                          *)
(***************************************************************************)
WrapperOf(X) == [nodes : Seq(NodeOf(X)), buf : Seq(X), stuck : BOOLEAN]

IsWrapper(x, n, b, s) == x = [nodes |-> n, buf |-> b, stuck |-> s]

(* A wrapper that runs, with these nodes and with b waiting.               *)
WrapperAt(X, ww, ns, b) ==
    /\ ns \in Seq(NodeOf(X)) /\ b \in Seq(X)
    /\ IsWrapper(ww, ns, b, FALSE)

LEMMA WrapperFields ==
    ASSUME NEW X, NEW ww, NEW ns, NEW b, WrapperAt(X, ww, ns, b)
    PROVE  /\ ww \in WrapperOf(X) /\ ww.nodes = ns /\ ww.buf = b /\ ww.stuck = FALSE
           /\ ns \in Seq(NodeOf(X)) /\ b \in Seq(X) /\ wIndex(ww) = Len(ns)
BY DEF WrapperAt, WrapperOf, wIndex, IsWrapper

WithBuf(ww, c)   == [ww EXCEPT !.buf = c]
WithNodes(ww, m) == [ww EXCEPT !.nodes = m]
WithStuck(ww, t) == [ww EXCEPT !.stuck = t]

LEMMA WrapperRecord ==
    ASSUME NEW ww, NEW n, NEW b, NEW s, IsWrapper(ww, n, b, s)
    PROVE  /\ ww.nodes = n /\ ww.buf = b
           /\ \A c : /\ IsWrapper(WithBuf(ww, c), n, c, s)
                    /\ IsWrapper(WithNodes(ww, c), c, b, s)
                    /\ IsWrapper(WithStuck(ww, c), n, b, c)
<1>0. ww = [nodes |-> n, buf |-> b, stuck |-> s]
  BY DEF IsWrapper
<1>1. ww.nodes = n /\ ww.buf = b
  BY <1>0
<1>2. ASSUME NEW c PROVE WithBuf(ww, c) = [nodes |-> n, buf |-> c, stuck |-> s]
  BY <1>0 DEF WithBuf
<1>3. ASSUME NEW c PROVE WithNodes(ww, c) = [nodes |-> c, buf |-> b, stuck |-> s]
  BY <1>0 DEF WithNodes
<1>4. ASSUME NEW c PROVE WithStuck(ww, c) = [nodes |-> n, buf |-> b, stuck |-> c]
  BY <1>0 DEF WithStuck
<1> QED BY <1>1, <1>2, <1>3, <1>4 DEF IsWrapper

LEMMA WrapperPuts ==
    ASSUME NEW X, NEW ww, NEW ns, NEW b, NEW cells, IsUniverse(X), WrapperAt(X, ww, ns, b),
           cells \in Seq(X)
    PROVE  /\ WrapperAt(X, wAppend(ww, cells), ns, b \o cells)
           /\ WrapperAt(X, wFillUpTo32(ww), ns, Padded(b))
           /\ WrapperAt(X, wAppendBytes32(ww, cells), ns, Padded(b \o cells))
           /\ WrapperAt(X, appendBytesAsNodes(ww, cells), ns \o LeavesOf(cells), b)
           /\ \A node \in NodeOf(X) : WrapperAt(X, AddNode(ww, node), Append(ns, node), b)
<1>1. ns \in Seq(NodeOf(X)) /\ b \in Seq(X) /\ IsWrapper(ww, ns, b, FALSE)
  BY DEF WrapperAt
<1>2. ASSUME NEW x, NEW a, IsWrapper(x, ns, a, FALSE), a \in Seq(X)
      PROVE  WrapperAt(X, wFillUpTo32(x), ns, Padded(a))
  <2>1. Padded(a) \in Seq(X)
    BY <1>2, PaddedIs
  <2>2. IsWrapper(wFillUpTo32(x), ns, Padded(a), FALSE)
    <3>1. /\ x.buf = a
          /\ \A c : IsWrapper(WithBuf(x, c), ns, c, FALSE)
      BY ONLY <1>2, WrapperRecord
    <3>2. wFillUpTo32(x) = WithBuf(x, Padded(x.buf))
      BY DEF wFillUpTo32, WithBuf
    <3> QED BY ONLY <3>1, <3>2
  <2> QED BY <1>1, <2>1, <2>2 DEF WrapperAt
<1>3. b \o cells \in Seq(X)
  BY <1>1
<1>i. IsWrapper(ww, ns, b, FALSE)
  BY <1>1
<1>r. /\ ww.nodes = ns /\ ww.buf = b
      /\ \A c : IsWrapper(WithBuf(ww, c), ns, c, FALSE)
      /\ \A c : IsWrapper(WithNodes(ww, c), c, b, FALSE)
  <2>1. ww.nodes = ns
    BY ONLY <1>i, WrapperRecord
  <2>2. ww.buf = b
    BY ONLY <1>i, WrapperRecord
  <2>3. ASSUME NEW c PROVE IsWrapper(WithBuf(ww, c), ns, c, FALSE)
    BY ONLY <1>i, WrapperRecord
  <2>4. ASSUME NEW c PROVE IsWrapper(WithNodes(ww, c), c, b, FALSE)
    BY ONLY <1>i, WrapperRecord
  <2> QED BY <2>1, <2>2, <2>3, <2>4
<1>4. IsWrapper(wAppend(ww, cells), ns, b \o cells, FALSE)
  <2>1. wAppend(ww, cells) = WithBuf(ww, ww.buf \o cells)
    BY DEF wAppend, WithBuf
  <2> QED BY ONLY <1>r, <2>1
<1>5. WrapperAt(X, wAppend(ww, cells), ns, b \o cells)
  BY <1>1, <1>3, <1>4 DEF WrapperAt
<1>6. WrapperAt(X, wAppendBytes32(ww, cells), ns, Padded(b \o cells))
  BY <1>2, <1>3, <1>4 DEF wAppendBytes32
<1>7. WrapperAt(X, wFillUpTo32(ww), ns, Padded(b))
  BY <1>1, <1>2
<1>8. WrapperAt(X, appendBytesAsNodes(ww, cells), ns \o LeavesOf(cells), b)
  <2> DEFINE c == IF cells = << >> THEN ZeroChunk ELSE Padded(cells)
             s == [j \in 1 .. Len(c) \div U |-> Leaf(ChunkAt(c, j - 1))]
  <2>1. appendBytesAsNodes(ww, cells) = WithNodes(ww, ww.nodes \o s)
    BY DEF appendBytesAsNodes, WithNodes
  <2>2. ns \o LeavesOf(cells) = ns \o s /\ LeavesOf(cells) \in Seq(NodeOf(X))
    BY <1>1, LeavesOfIs
  <2>3. ns \o LeavesOf(cells) \in Seq(NodeOf(X))
    <3> DEFINE D == NodeOf(X)  v == LeavesOf(cells)
    <3>1. ns \in Seq(D) /\ v \in Seq(D)
      BY <1>1, <2>2
    <3> HIDE DEF D, v
    <3>2. ns \o v \in Seq(D)
      BY <3>1
    <3> QED BY <3>2 DEF D, v
  <2> HIDE DEF s
  <2>4. IsWrapper(appendBytesAsNodes(ww, cells), ns \o s, b, FALSE)
    BY ONLY <1>r, <2>1
  <2> QED BY <1>1, <2>2, <2>3, <2>4 DEF WrapperAt
<1>9. ASSUME NEW node \in NodeOf(X) PROVE WrapperAt(X, AddNode(ww, node), Append(ns, node), b)
  <2>1. Append(ns, node) \in Seq(NodeOf(X))
    <3> DEFINE D == NodeOf(X)
    <3>1. ns \in Seq(D) /\ node \in D
      BY <1>1
    <3> HIDE DEF D
    <3>2. Append(ns, node) \in Seq(D)
      BY <3>1
    <3> QED BY <3>2 DEF D
  <2>2. IsWrapper(AddNode(ww, node), Append(ns, node), b, FALSE)
    <3>1. AddNode(ww, node) = WithNodes(ww, Append(ww.nodes, node))
      BY DEF AddNode, WithNodes
    <3> QED BY ONLY <1>r, <3>1
  <2> QED BY <1>1, <2>1, <2>2 DEF WrapperAt
<1> QED BY <1>5, <1>6, <1>7, <1>8, <1>9

(* The leaves that what is waiting becomes.                                *)
Waiting(b) == IF b = << >> THEN << >> ELSE LeavesOf(b)

LEMMA FlushedAt ==
    ASSUME NEW X, NEW ww, NEW ns, NEW b, IsUniverse(X), WrapperAt(X, ww, ns, b)
    PROVE  /\ WrapperAt(X, Flushed(ww), ns \o Waiting(b), << >>)
           /\ Waiting(b) \in Seq(NodeOf(X)) /\ RootsOf(Waiting(b)) = ChunksOf(b)
<1>1. /\ ns \in Seq(NodeOf(X)) /\ b \in Seq(X)
      /\ IsWrapper(ww, ns, b, FALSE)
  BY DEF WrapperAt
<1>w. ww.buf = b
  BY ONLY <1>1, WrapperRecord
<1>2. CASE b = << >>
  <2>1. Flushed(ww) = ww /\ Waiting(b) = << >>
    BY <1>w, <1>2 DEF Flushed, Waiting
  <2>2. ns \o << >> = ns /\ << >> \in Seq(NodeOf(X))
    BY <1>1, ConcatEmptySeq
  <2>3. RootsOf(<< >>) = ChunksOf(b)
    <3>1. ChunksOf(b) \in Seq(ChunkOf(X)) /\ Len(ChunksOf(b)) = CeilDiv(Len(b), U)
      BY <1>1, ChunksOfIs
    <3>2. CeilDiv(0, U) = 0 /\ Len(b) = 0
      BY <1>2, CeilIs
    <3> DEFINE c == ChunksOf(b)
    <3>3. c \in Seq(ChunkOf(X)) /\ Len(c) = 0
      BY <3>1, <3>2
    <3> HIDE DEF c
    <3>4. c = << >>
      BY <3>3
    <3>5. RootsOf(<< >>) \in Seq(ChunkOf(X)) /\ Len(RootsOf(<< >>)) = 0
      BY <2>2, RootsOfIs
    <3> DEFINE e == RootsOf(<< >>)
    <3> HIDE DEF e
    <3>6. e = << >>
      BY <3>5 DEF e
    <3> QED BY <3>4, <3>6 DEF c, e
  <2> QED BY <1>2, <2>1, <2>2, <2>3
<1>3. CASE b # << >>
  <2>1. /\ Flushed(ww) = [appendBytesAsNodes(ww, b) EXCEPT !.buf = << >>]
        /\ Waiting(b) = LeavesOf(b)
    BY <1>w, <1>3 DEF Flushed, Waiting
  <2>2. WrapperAt(X, appendBytesAsNodes(ww, b), ns \o LeavesOf(b), b)
    BY <1>1, WrapperPuts
  <2>3. LeavesOf(b) \in Seq(NodeOf(X)) /\ RootsOf(LeavesOf(b)) = ChunksOf(b)
    BY <1>1, <1>3, LeavesOfIs
  <2>4. << >> \in Seq(X)
    OBVIOUS
  <2>5. WrapperAt(X, Flushed(ww), ns \o LeavesOf(b), << >>)
    <3> DEFINE y == appendBytesAsNodes(ww, b)
               n == ns \o LeavesOf(b)
    <3>1. IsWrapper(y, n, b, FALSE) /\ n \in Seq(NodeOf(X))
      BY <2>2 DEF WrapperAt
    <3>2. Flushed(ww) = WithBuf(y, << >>)
      BY <2>1 DEF WithBuf
    <3> HIDE DEF y, n
    <3>3. IsWrapper(WithBuf(y, << >>), n, << >>, FALSE)
      BY ONLY <3>1, WrapperRecord
    <3>4. WrapperAt(X, Flushed(ww), n, << >>)
      BY <2>4, <3>1, <3>2, <3>3 DEF WrapperAt
    <3> QED BY <3>4 DEF n
  <2> QED BY <2>1, <2>3, <2>5
<1> QED BY <1>2, <1>3

(* The power of two that Commit takes for a limit.                         *)
LEMMA DepthOfPower ==
    ASSUME NEW n, n \in Nat, n <= 2^MaxTreeDepth
    PROVE  /\ 2^DepthFor(n) \in Nat /\ 2^DepthFor(n) <= 2^MaxTreeDepth
           /\ DepthFor(2^DepthFor(n)) = DepthFor(n)
<1> DEFINE d == DepthFor(n)
           q == 2^d
           e == DepthFor(q)
<1>0. MaxTreeDepth \in Nat
  BY ChunkAssumption
<1>1. d \in 0 .. MaxTreeDepth
  BY DepthIs
<1> HIDE DEF d
<1>2. d \in Nat /\ d <= MaxTreeDepth
  BY <1>0, <1>1
<1>3. q \in Nat \ {0} /\ q <= 2^MaxTreeDepth
  BY <1>0, <1>2, TwoPowers
<1> HIDE DEF q
<1>4. e \in 0 .. MaxTreeDepth /\ q <= 2^e /\ \A x \in 0 .. e - 1 : 2^x < q
  BY <1>3, DepthIs
<1> HIDE DEF e
<1>5. e \in Nat
  BY <1>0, <1>4
<1>6. ~ (d < e)
  <2>1. d < e => d \in 0 .. e - 1
    BY <1>2, <1>5
  <2>2. ~ (q < q)
    BY <1>3
  <2> QED BY <1>4, <2>1, <2>2 DEF q
<1>7. ~ (e < d)
  <2>1. SUFFICES ASSUME e + 1 <= d PROVE FALSE
    BY <1>2, <1>5
  <2> DEFINE p == 2^e
  <2>2. p \in Nat \ {0} /\ 2 * p <= q
    <3>1. 2^(e + 1) = 2 * 2^e /\ 2^(e + 1) <= 2^d /\ 2^e \in Nat \ {0}
      <4>1. e + 1 \in Nat
        BY <1>5
      <4> QED BY <1>2, <1>5, <2>1, <4>1, TwoPowers
    <3> QED BY <3>1 DEF q
  <2>3. q <= p
    BY <1>4
  <2> HIDE DEF p
  <2> QED BY <1>3, <2>2, <2>3
<1>8. e = d
  BY <1>2, <1>5, <1>6, <1>7
<1> QED BY <1>3, <1>8 DEF d, q, e

(* Leaves whose roots are these chunks, zero chunks at the end apart.      *)
Shows(leaves, chunks) ==
    /\ chunks # << >> => leaves # << >>
    /\ \A i \in 1 .. Len(chunks) :
          chunks[i] = IF i <= Len(leaves) THEN leaves[i].root ELSE ZeroChunk

(* What is found for a chunk is a node with it, or nothing for zeros.      *)
IsFound(x, c) == IF x = NotFound THEN c = ZeroChunk ELSE x.root = c

(* The chunks sit where proofs look for them.                              *)
HasMembers(node, chunks, limit, mixin) ==
    \A i \in 1 .. Len(chunks) :
       i <= limit =>
          LET first == 2^(DepthFor(limit) + (IF mixin THEN 1 ELSE 0))
          IN  IsFound(Get(node, first + i - 1), chunks[i])

LEMMA FoundAt ==
    ASSUME NEW X, NEW t, NEW leaves, NEW d, NEW chunks, NEW r, NEW b, NEW i,
           IsUniverse(X), leaves \in Seq(NodeOf(X)), HasLeaves(t, leaves, d),
           chunks \in Seq(ChunkOf(X)), Shows(leaves, chunks), i <= 2^d,
           d \in Nat, b \in Nat \ {0}, Get(r, b) = t, i \in 1 .. Len(chunks)
    PROVE  IsFound(Get(r, b * 2^d + i - 1), chunks[i])
<1> DEFINE x == Get(r, b * 2^d + i - 1)
           q == 2^d
<1>0. q \in Nat /\ Len(chunks) \in Nat
  BY TwoPowers
<1>1. chunks # << >>
  <2>1. Len(chunks) >= 1
    BY <1>0
  <2> QED BY <2>1
<1>2. leaves # << >>
  BY <1>1 DEF Shows
<1>3. FindsLayer(r, b * 2^d, leaves, 2^d, ZeroChunk)
  BY <1>2 DEF HasLeaves
<1>4. i \in 1 .. 2^d
  <2>1. i \in 1 .. q
    <3> HIDE DEF q
    <3>1. i <= q
      BY DEF q
    <3> QED BY <1>0, <3>1
  <2> QED BY <2>1
<1>5. IF i <= Len(leaves) THEN x = leaves[i] ELSE IsAbsent(x, ZeroChunk)
  BY <1>3, <1>4 DEF FindsLayer
<1>6. chunks[i] = IF i <= Len(leaves) THEN leaves[i].root ELSE ZeroChunk
  BY DEF Shows
<1> HIDE DEF x, q
<1>x. SUFFICES IF x = NotFound THEN chunks[i] = ZeroChunk ELSE x.root = chunks[i]
  BY DEF IsFound, x
<1>7. CASE i <= Len(leaves)
  <2>1. leaves[i] \in NodeOf(X)
    <3>1. i \in 1 .. Len(leaves)
      BY <1>7
    <3> QED BY <3>1
  <2>2. leaves[i].root # << >>
    <3>1. leaves[i].root \in ChunkOf(X)
      BY <2>1, NodeTypes
    <3>2. \A c \in ChunkOf(X) : c \in Seq(X) /\ Len(c) = U
      BY FlatOne
    <3>3. U # 0
      BY ChunkAssumption
    <3>4. Len(leaves[i].root) # 0
      BY <3>1, <3>2, <3>3
    <3> QED BY <3>4
  <2>3. NotFound.root = << >>
    BY DEF NotFound
  <2> QED BY <1>5, <1>6, <1>7, <2>2, <2>3
<1>8. CASE ~ (i <= Len(leaves))
  BY <1>5, <1>6, <1>8 DEF IsAbsent
<1> QED BY <1>7, <1>8

(* A limit that no tree is built for.                                      *)
HasNoTree(limit, mixin) == limit = 0 \/ (mixin /\ ~ isPowerOfTwo(limit))

(* The node for a member is on top, with the member's root and its chunks  *)
(* where proofs look for them, or there is no tree for the limit.          *)
Built(X, ww, ns, root, chunks, limit, mixin) ==
    \/ ww \in WrapperOf(X) /\ ww.stuck /\ HasNoTree(limit, mixin)
    \/ ~ HasNoTree(limit, mixin)
       /\ \E node \in NodeOf(X) : /\ WrapperAt(X, ww, Append(ns, node), << >>)
                                  /\ node.root = root
                                  /\ HasMembers(node, chunks, limit, mixin)

(* A tree that shows the chunks.                                           *)
TreeShows(X, t, chunks, limit) ==
    /\ limit \in Nat /\ limit <= 2^MaxTreeDepth
    /\ t \in NodeOf(X) /\ chunks \in Seq(ChunkOf(X))
    /\ \E leaves \in Seq(NodeOf(X)) :
          HasLeaves(t, leaves, DepthFor(limit)) /\ Shows(leaves, chunks)

LEMMA BuiltPlain ==
    ASSUME NEW X, NEW ww, NEW ns, NEW t, NEW chunks, NEW limit, IsUniverse(X),
           WrapperAt(X, ww, ns, << >>), TreeShows(X, t, chunks, limit), limit # 0
    PROVE  Built(X, AddNode(ww, t), ns, t.root, chunks, limit, FALSE)
<1> DEFINE d == DepthFor(limit)
<1>1. PICK leaves : leaves \in Seq(NodeOf(X)) /\ HasLeaves(t, leaves, d) /\ Shows(leaves, chunks)
  BY DEF TreeShows
<1>2. /\ limit \in Nat /\ limit <= 2^MaxTreeDepth /\ t \in NodeOf(X)
      /\ chunks \in Seq(ChunkOf(X))
  BY DEF TreeShows
<1>3. MaxTreeDepth \in Nat /\ d \in 0 .. MaxTreeDepth
  BY <1>2, ChunkAssumption, DepthIs
<1>4. d \in Nat
  <2> HIDE DEF d
  <2> QED BY <1>3
<1>5. WrapperAt(X, AddNode(ww, t), Append(ns, t), << >>)
  <2>1. << >> \in Seq(X)
    OBVIOUS
  <2> QED BY <1>2, <2>1, WrapperPuts
<1>6. HasMembers(t, chunks, limit, FALSE)
  <2> HIDE DEF d
  <2>0. ASSUME NEW i, i \in 1 .. Len(chunks), i <= limit
        PROVE  i <= 2^d
    <3> DEFINE q == 2^d
    <3>1. q \in Nat /\ limit <= q
      BY <1>2, <1>4, DepthIs, TwoPowers DEF d
    <3> HIDE DEF q
    <3>2. i <= q
      BY <1>2, <2>0, <3>1
    <3> QED BY <3>2 DEF q
  <2>1. ASSUME NEW i, i \in 1 .. Len(chunks), i <= limit
        PROVE  IsFound(Get(t, 2^d + i - 1), chunks[i])
    <3> DEFINE one == 1
    <3>1. one \in Nat \ {0} /\ Get(t, one) = t
      BY GetIs
    <3>2. one * 2^d = 2^d
      <4>1. 2^d \in Nat
        BY <1>4, TwoPowers
      <4> QED BY <4>1
    <3> HIDE DEF one
    <3>h. /\ IsUniverse(X) /\ leaves \in Seq(NodeOf(X)) /\ HasLeaves(t, leaves, d)
          /\ chunks \in Seq(ChunkOf(X)) /\ Shows(leaves, chunks) /\ i <= 2^d
          /\ d \in Nat /\ one \in Nat \ {0} /\ Get(t, one) = t /\ i \in 1 .. Len(chunks)
      BY <1>1, <1>2, <1>4, <2>0, <2>1, <3>1
    <3>3. IsFound(Get(t, one * 2^d + i - 1), chunks[i])
      BY ONLY <3>h, FoundAt
    <3> QED BY ONLY <3>2, <3>3
  <2>2. 2^(d + (IF FALSE THEN 1 ELSE 0)) = 2^d
    <3>1. d + 0 = d
      BY <1>4
    <3> QED BY <3>1
  <2> QED BY <2>1, <2>2 DEF HasMembers, d
<1>7. ~ HasNoTree(limit, FALSE)
  BY DEF HasNoTree
<1> QED BY <1>2, <1>5, <1>6, <1>7 DEF Built

LEMMA BuiltMixed ==
    ASSUME NEW X, NEW ww, NEW ns, NEW t, NEW chunks, NEW limit, NEW num, IsUniverse(X),
           WrapperAt(X, ww, ns, << >>), TreeShows(X, t, chunks, limit), num \in Nat,
           limit # 0, isPowerOfTwo(limit)
    PROVE  Built(X, AddNode(ww, NewNodeWithLR(t, Leaf(LengthChunk(num)))), ns,
                 hashPair(t.root, LengthChunk(num)), chunks, limit, TRUE)
<1> DEFINE d == DepthFor(limit)
           len == Leaf(LengthChunk(num))
           node == NewNodeWithLR(t, len)
<1>1. PICK leaves : leaves \in Seq(NodeOf(X)) /\ HasLeaves(t, leaves, d) /\ Shows(leaves, chunks)
  BY DEF TreeShows
<1>2. /\ limit \in Nat /\ limit <= 2^MaxTreeDepth /\ t \in NodeOf(X)
      /\ chunks \in Seq(ChunkOf(X))
  BY DEF TreeShows
<1>3. MaxTreeDepth \in Nat /\ d \in 0 .. MaxTreeDepth
  BY <1>2, ChunkAssumption, DepthIs
<1>4. d \in Nat
  <2> HIDE DEF d
  <2> QED BY <1>3
<1>n. node \in NodeOf(X) /\ node.root = hashPair(t.root, LengthChunk(num)) /\ node.kids = <<t, len>>
  <2>1. LengthChunk(num) \in ChunkOf(X)
    BY ChunkTypes
  <2>2. len \in NodeOf(X)
    BY <2>1, NodeTypes
  <2>3. len.root = LengthChunk(num)
    BY DEF Leaf
  <2>4. node \in NodeOf(X)
    BY <1>2, <2>2, NodeTypes
  <2> HIDE DEF len
  <2>5. node.root = hashPair(t.root, len.root) /\ node.kids = <<t, len>>
    BY DEF NewNodeWithLR
  <2> QED BY <2>3, <2>4, <2>5
<1> HIDE DEF len, node
<1>5. WrapperAt(X, AddNode(ww, node), Append(ns, node), << >>)
  <2>1. << >> \in Seq(X)
    OBVIOUS
  <2> QED BY <1>n, <2>1, WrapperPuts
<1>g. Get(node, 2) = t
  <2>1. Get(node, 2) = Child(Get(node, 2 \div 2), 2 % 2)
    BY GetIs
  <2>2. 2 \div 2 = 1 /\ 2 % 2 = 0
    OBVIOUS
  <2>3. Get(node, 1) = node
    BY GetIs
  <2>4. Child(node, 0) = t
    BY <1>n DEF Child
  <2> QED BY <2>1, <2>2, <2>3, <2>4
<1>6. HasMembers(node, chunks, limit, TRUE)
  <2> HIDE DEF d
  <2>0. ASSUME NEW i, i \in 1 .. Len(chunks), i <= limit
        PROVE  i <= 2^d
    <3> DEFINE q == 2^d
    <3>1. q \in Nat /\ limit <= q
      BY <1>2, <1>4, DepthIs, TwoPowers DEF d
    <3> HIDE DEF q
    <3>2. i <= q
      BY <1>2, <2>0, <3>1
    <3> QED BY <3>2 DEF q
  <2>1. ASSUME NEW i, i \in 1 .. Len(chunks), i <= limit
        PROVE  IsFound(Get(node, 2 * 2^d + i - 1), chunks[i])
    <3> DEFINE two == 2
    <3>h. /\ IsUniverse(X) /\ leaves \in Seq(NodeOf(X)) /\ HasLeaves(t, leaves, d)
          /\ chunks \in Seq(ChunkOf(X)) /\ Shows(leaves, chunks) /\ i <= 2^d
          /\ d \in Nat /\ two \in Nat \ {0} /\ Get(node, two) = t /\ i \in 1 .. Len(chunks)
      BY <1>1, <1>2, <1>4, <1>g, <2>0, <2>1
    <3> HIDE DEF two
    <3>3. IsFound(Get(node, two * 2^d + i - 1), chunks[i])
      BY ONLY <3>h, FoundAt
    <3> QED BY <3>3 DEF two
  <2>2. 2^(d + (IF TRUE THEN 1 ELSE 0)) = 2 * 2^d
    <3>1. 2^(d + 1) = 2 * 2^d
      BY <1>4, TwoPowers
    <3> QED BY <3>1
  <2> QED BY <2>1, <2>2 DEF HasMembers, d
<1>7. ~ HasNoTree(limit, TRUE)
  BY DEF HasNoTree
<1> QED BY <1>n, <1>5, <1>6, <1>7 DEF Built, node, len

(* Nodes that are leaves of these chunks.                                  *)
LEMMA SameShows ==
    ASSUME NEW leaves, NEW chunks, RootsOf(leaves) = chunks,
           Len(chunks) = Len(leaves), Len(leaves) \in Nat
    PROVE  Shows(leaves, chunks)
<1>1. ASSUME NEW i, i \in 1 .. Len(chunks)
      PROVE  i <= Len(leaves) /\ chunks[i] = leaves[i].root
  BY <1>1 DEF RootsOf
<1>2. chunks # << >> => leaves # << >>
  BY DEF RootsOf
<1> QED BY <1>1, <1>2 DEF Shows

(* What Commit and CommitWithMixin find on the wrapper.                    *)
Ready(X, ww, ns, leaves) ==
    /\ IsUniverse(X) /\ ns \in Seq(NodeOf(X)) /\ leaves \in Seq(NodeOf(X))
    /\ WrapperAt(X, ww, ns \o leaves, << >>)

LEMMA ReadyParts ==
    ASSUME NEW X, NEW ww, NEW ns, NEW leaves, Ready(X, ww, ns, leaves)
    PROVE  /\ TailNodes(ww, Len(ns)) = leaves
           /\ WrapperAt(X, [ww EXCEPT !.nodes = SubSeq(@, 1, Len(ns))], ns, << >>)
           /\ ww \in WrapperOf(X)
<1> DEFINE D == NodeOf(X)
           v == ns \o leaves
<1>1. IsWrapper(ww, v, << >>, FALSE) /\ << >> \in Seq(X)
  BY DEF Ready, WrapperAt
<1>i. IsWrapper(ww, v, << >>, FALSE)
  BY <1>1
<1>2. ns \in Seq(D) /\ leaves \in Seq(D)
  BY DEF Ready
<1> HIDE DEF D
<1>3. /\ SubSeq(v, 1, Len(ns)) = ns
      /\ SubSeq(v, Len(ns) + 1, Len(v)) = leaves
  BY ONLY <1>2, PartsOfConcat DEF v
<1> HIDE DEF v
<1>4. ww.nodes = v
  BY ONLY <1>i, WrapperRecord
<1>5. IsWrapper(WithNodes(ww, SubSeq(v, 1, Len(ns))), SubSeq(v, 1, Len(ns)), << >>, FALSE)
  <2> DEFINE c == SubSeq(v, 1, Len(ns))
             e == << >>
  <2>1. IsWrapper(ww, v, e, FALSE)
    BY <1>i
  <2> HIDE DEF c, e
  <2>2. IsWrapper(WithNodes(ww, c), c, e, FALSE)
    BY ONLY <2>1, WrapperRecord
  <2> QED BY <2>2 DEF c, e
<1>6. [ww EXCEPT !.nodes = SubSeq(@, 1, Len(ns))] = WithNodes(ww, SubSeq(v, 1, Len(ns)))
  BY <1>4 DEF WithNodes
<1>7. IsWrapper([ww EXCEPT !.nodes = SubSeq(@, 1, Len(ns))], ns, << >>, FALSE)
  BY ONLY <1>3, <1>5, <1>6
<1>8. ww \in WrapperOf(X)
  BY DEF Ready, WrapperAt, WrapperOf, IsWrapper
<1> QED BY <1>1, <1>2, <1>3, <1>4, <1>7, <1>8 DEF TailNodes, WrapperAt, D

(* A wrapper that is stuck where no tree is built.                         *)
LEMMA StuckAt ==
    ASSUME NEW X, NEW ww, NEW ns, NEW leaves, NEW root, NEW chunks, NEW limit, NEW mixin,
           Ready(X, ww, ns, leaves), HasNoTree(limit, mixin)
    PROVE  Built(X, [ww EXCEPT !.stuck = TRUE], ns, root, chunks, limit, mixin)
<1> DEFINE v == ns \o leaves
           z == WithStuck(ww, TRUE)
<1>1. IsWrapper(ww, v, << >>, FALSE) /\ v \in Seq(NodeOf(X)) /\ << >> \in Seq(X)
  BY DEF Ready, WrapperAt
<1>2. IsWrapper(ww, v, << >>, FALSE)
  BY <1>1
<1> HIDE DEF v
<1>3. IsWrapper(z, v, << >>, TRUE)
  BY ONLY <1>2, WrapperRecord
<1>4. z = [ww EXCEPT !.stuck = TRUE]
  BY DEF WithStuck
<1> HIDE DEF z
<1>5. z \in WrapperOf(X) /\ z.stuck
  BY <1>1, <1>3 DEF WrapperOf, IsWrapper
<1> QED BY <1>4, <1>5 DEF Built

(* The root for a limit is that for the next power of two.                 *)
LEMMA RootOfPower ==
    ASSUME NEW X, NEW cells, NEW n, IsUniverse(X), cells \in Seq(X), n \in Nat,
           n <= 2^MaxTreeDepth
    PROVE  Root(cells, 2^DepthFor(n)) = Root(cells, n)
<1> DEFINE d == DepthFor(n)
           q == 2^d
<1>1. q \in Nat /\ q <= 2^MaxTreeDepth /\ DepthFor(q) = d
  BY DepthOfPower
<1> HIDE DEF q
<1>2. Root(cells, q) = RootFrom(RowOf(cells, DepthFor(q)), DepthFor(q))
  BY <1>1, RootByRow
<1>3. Root(cells, n) = RootFrom(RowOf(cells, d), d)
  BY RootByRow
<1> QED BY <1>1, <1>2, <1>3 DEF q

LEMMA CommitAt ==
    ASSUME NEW X, NEW ww, NEW ns, NEW leaves, NEW cells, NEW chunks, NEW n,
           Ready(X, ww, ns, leaves), leaves # << >>, n = Len(leaves), n <= 2^MaxTreeDepth,
           cells \in Seq(X), Padded(cells) = FlattenSeq(RootsOf(leaves)),
           chunks \in Seq(ChunkOf(X)), Shows(leaves, chunks)
    PROVE  Built(X, Commit(ww, Len(ns)), ns, Root(cells, n), chunks, n, FALSE)
<1> DEFINE d == DepthFor(n)
           q == 2^d
           t == TreeFromNodes(leaves, q)
           y == [ww EXCEPT !.nodes = SubSeq(@, 1, Len(ns))]
<1>0. IsUniverse(X) /\ leaves \in Seq(NodeOf(X)) /\ n \in Nat
  BY DEF Ready
<1>1. TailNodes(ww, Len(ns)) = leaves /\ WrapperAt(X, y, ns, << >>)
  BY ReadyParts
<1>2. Commit(ww, Len(ns)) = AddNode(y, t)
  BY <1>1 DEF Commit
<1>z. n # 0
  <2>1. Len(leaves) # 0
    BY <1>0
  <2> QED BY <2>1
<1>3. q \in Nat /\ q <= 2^MaxTreeDepth /\ DepthFor(q) = d /\ n <= q
  BY <1>0, DepthOfPower, DepthIs
<1>4. t \in NodeOf(X) /\ t.root = Root(cells, q) /\ HasLeaves(t, leaves, DepthFor(q))
  <2> HIDE DEF q
  <2>1. Len(leaves) <= 2^DepthFor(q)
    BY <1>3 DEF q
  <2>2. Len(leaves) <= q
    BY <1>3
  <2> QED BY <1>0, <1>3, <2>1, <2>2, TreeOver
<1>5. t.root = Root(cells, n)
  BY <1>0, <1>4, RootOfPower
<1> HIDE DEF q, t, y
<1>7. TreeShows(X, t, chunks, n)
  BY <1>0, <1>3, <1>4 DEF TreeShows
<1>8. Built(X, AddNode(y, t), ns, t.root, chunks, n, FALSE)
  BY ONLY <1>0, <1>1, <1>7, <1>z, BuiltPlain
<1> QED BY <1>2, <1>5, <1>8

LEMMA CommitWithMixinAt ==
    ASSUME NEW X, NEW ww, NEW ns, NEW leaves, NEW cells, NEW chunks, NEW limit, NEW num,
           Ready(X, ww, ns, leaves), limit \in Nat, limit <= 2^MaxTreeDepth, num \in Nat,
           Len(leaves) <= limit,
           cells \in Seq(X), Padded(cells) = FlattenSeq(RootsOf(leaves)),
           chunks \in Seq(ChunkOf(X)), Shows(leaves, chunks)
    PROVE  Built(X, CommitWithMixin(ww, Len(ns), num, limit), ns,
                 hashPair(Root(cells, limit), LengthChunk(num)), chunks, limit, TRUE)
<1> DEFINE t == TreeFromNodes(leaves, limit)
           y == [ww EXCEPT !.nodes = SubSeq(@, 1, Len(ns))]
<1>0. IsUniverse(X) /\ leaves \in Seq(NodeOf(X))
  BY DEF Ready
<1>1. /\ TailNodes(ww, Len(ns)) = leaves /\ WrapperAt(X, y, ns, << >>)
  BY ReadyParts
<1>2. CASE HasNoTree(limit, TRUE)
  <2>1. CommitWithMixin(ww, Len(ns), num, limit) = [ww EXCEPT !.stuck = TRUE]
    BY <1>2 DEF CommitWithMixin, HasNoTree
  <2> DEFINE root == hashPair(Root(cells, limit), LengthChunk(num))
             x == [ww EXCEPT !.stuck = TRUE]
  <2> HIDE DEF root
  <2>2. Built(X, x, ns, root, chunks, limit, TRUE)
    BY <1>2, StuckAt
  <2> HIDE DEF x
  <2>3. CommitWithMixin(ww, Len(ns), num, limit) = x
    BY <2>1 DEF x
  <2> QED BY <2>2, <2>3 DEF root
<1>3. CASE ~ HasNoTree(limit, TRUE)
  <2>0. limit # 0 /\ isPowerOfTwo(limit)
    BY <1>3 DEF HasNoTree
  <2>1. CommitWithMixin(ww, Len(ns), num, limit)
          = AddNode(y, NewNodeWithLR(t, Leaf(LengthChunk(num))))
    BY <1>1, <2>0 DEF CommitWithMixin
  <2>2. t \in NodeOf(X) /\ t.root = Root(cells, limit) /\ HasLeaves(t, leaves, DepthFor(limit))
    <3> DEFINE q == 2^DepthFor(limit)
               l == Len(leaves)
    <3>1. q \in Nat /\ limit <= q /\ l \in Nat
      BY <1>0, DepthOfPower, DepthIs
    <3> HIDE DEF q, l
    <3>2. l <= limit
      BY DEF l
    <3>3. l <= q
      BY <3>1, <3>2
    <3>4. Len(leaves) <= 2^DepthFor(limit)
      BY <3>3 DEF q, l
    <3> QED BY <1>0, <3>4, TreeOver
  <2> HIDE DEF t, y
  <2>3. TreeShows(X, t, chunks, limit)
    BY <1>0, <2>2 DEF TreeShows
  <2>4. num \in Nat
    OBVIOUS
  <2>5. Built(X, AddNode(y, NewNodeWithLR(t, Leaf(LengthChunk(num)))), ns,
              hashPair(t.root, LengthChunk(num)), chunks, limit, TRUE)
    BY ONLY <1>0, <1>1, <2>0, <2>3, <2>4, BuiltMixed
  <2> QED BY <2>1, <2>2, <2>5
<1> QED BY <1>2, <1>3

(* What was waiting, as leaves of its chunks.                              *)
LEMMA WaitingIs ==
    ASSUME NEW X, NEW ww, NEW ns, NEW b, IsUniverse(X), WrapperAt(X, ww, ns, b)
    PROVE  /\ Ready(X, Flushed(ww), ns, Waiting(b)) /\ b \in Seq(X)
           /\ Len(Waiting(b)) = CeilDiv(Len(b), U) /\ CeilDiv(Len(b), U) \in Nat
           /\ b # << >> => Waiting(b) # << >>
           /\ Padded(b) = FlattenSeq(RootsOf(Waiting(b)))
           /\ ChunksOf(b) \in Seq(ChunkOf(X)) /\ Len(ChunksOf(b)) = CeilDiv(Len(b), U)
           /\ Shows(Waiting(b), ChunksOf(b))
<1> DEFINE D == NodeOf(X)
           v == Waiting(b)
           c == ChunksOf(b)
           n == CeilDiv(Len(b), U)
<1>1. ns \in Seq(D) /\ b \in Seq(X)
  BY DEF WrapperAt
<1>2. WrapperAt(X, Flushed(ww), ns \o v, << >>) /\ v \in Seq(D) /\ RootsOf(v) = c
  BY FlushedAt
<1>3. c \in Seq(ChunkOf(X)) /\ Len(c) = n /\ FlattenSeq(c) = Padded(b)
  BY <1>1, ChunksOfIs
<1>4. Len(b) \in Nat /\ n \in Nat /\ (n = 0 <=> Len(b) = 0)
  <2>1. Len(b) \in Nat
    BY <1>1
  <2> HIDE DEF n
  <2> QED BY <2>1, CeilIs DEF n
<1>5. Len(v) = n
  <2>1. Len(RootsOf(v)) = Len(v)
    BY <1>2, RootsOfIs
  <2> QED BY <1>2, <1>3, <2>1
<1>6. b # << >> => v # << >>
  <2>1. SUFFICES ASSUME b # << >> PROVE Len(v) # 0
    OBVIOUS
  <2>2. Len(b) # 0
    BY <1>1, <2>1
  <2> HIDE DEF v, n
  <2> QED BY <1>4, <1>5, <2>2
<1> HIDE DEF v, c, n, D
<1>7. Shows(v, c)
  <2>1. Len(c) = Len(v) /\ Len(v) \in Nat
    BY <1>3, <1>4, <1>5
  <2> QED BY <1>2, <2>1, SameShows
<1>8. Ready(X, Flushed(ww), ns, v)
  BY <1>1, <1>2 DEF Ready, D
<1> QED BY <1>1, <1>2, <1>3, <1>4, <1>5, <1>6, <1>7, <1>8 DEF v, c, n, D

LEMMA wMerkleizeAt ==
    ASSUME NEW X, NEW ww, NEW ns, NEW b, IsUniverse(X), WrapperAt(X, ww, ns, b),
           b # << >>, CeilDiv(Len(b), U) <= 2^MaxTreeDepth
    PROVE  Built(X, wMerkleize(ww, Len(ns)), ns, Root(b, CeilDiv(Len(b), U)), ChunksOf(b),
                 CeilDiv(Len(b), U), FALSE)
<1> DEFINE v == Waiting(b)
           c == ChunksOf(b)
           n == CeilDiv(Len(b), U)
           y == Flushed(ww)
<1>1. /\ Ready(X, y, ns, v) /\ v # << >> /\ n = Len(v) /\ n <= 2^MaxTreeDepth
      /\ b \in Seq(X) /\ Padded(b) = FlattenSeq(RootsOf(v))
      /\ c \in Seq(ChunkOf(X)) /\ Shows(v, c)
  BY WaitingIs
<1>2. wMerkleize(ww, Len(ns)) = Commit(y, Len(ns))
  BY DEF wMerkleize
<1> HIDE DEF v, c, n, y
<1>3. Built(X, Commit(y, Len(ns)), ns, Root(b, n), c, n, FALSE)
  BY ONLY <1>1, CommitAt
<1> QED BY <1>2, <1>3 DEF c, n

LEMMA wMerkleizeWithMixinAt ==
    ASSUME NEW X, NEW ww, NEW ns, NEW b, NEW num, NEW limit, IsUniverse(X),
           WrapperAt(X, ww, ns, b), num \in Nat, limit \in Nat, limit <= 2^MaxTreeDepth,
           CeilDiv(Len(b), U) <= limit
    PROVE  Built(X, wMerkleizeWithMixin(ww, Len(ns), num, limit), ns,
                 hashPair(Root(b, limit), LengthChunk(num)), ChunksOf(b), limit, TRUE)
<1> DEFINE v == Waiting(b)
           c == ChunksOf(b)
           n == CeilDiv(Len(b), U)
           y == Flushed(ww)
<1>1. /\ Ready(X, y, ns, v) /\ n = Len(v) /\ n <= limit /\ n \in Nat
      /\ b \in Seq(X) /\ Padded(b) = FlattenSeq(RootsOf(v))
      /\ c \in Seq(ChunkOf(X)) /\ Len(c) = n /\ Shows(v, c)
  BY WaitingIs
<1>2. wMerkleizeWithMixin(ww, Len(ns), num, limit) = CommitWithMixin(y, Len(ns), num, limit)
  BY DEF wMerkleizeWithMixin
<1> HIDE DEF v, c, n, y
<1>5. /\ Ready(X, y, ns, v) /\ limit \in Nat /\ limit <= 2^MaxTreeDepth /\ num \in Nat
      /\ Len(v) <= limit
      /\ b \in Seq(X) /\ Padded(b) = FlattenSeq(RootsOf(v))
      /\ c \in Seq(ChunkOf(X)) /\ Shows(v, c)
  BY <1>1
<1>6. Built(X, CommitWithMixin(y, Len(ns), num, limit), ns,
            hashPair(Root(b, limit), LengthChunk(num)), c, limit, TRUE)
  BY ONLY <1>5, CommitWithMixinAt
<1> QED BY <1>2, <1>6 DEF c

(* A leaf is a tree over itself.                                           *)
LEMMA LeafShows ==
    ASSUME NEW X, NEW c, IsUniverse(X), c \in ChunkOf(X)
    PROVE  TreeShows(X, Leaf(c), <<c>>, 1)
<1> DEFINE t == Leaf(c)
           q == 2^MaxTreeDepth
<1>1. t \in NodeOf(X) /\ t.root = c
  BY NodeTypes DEF Leaf
<1>2. q \in Nat \ {0} /\ 2^0 = 1
  BY ChunkAssumption, TwoPowers
<1>3. 1 <= q
  <2> HIDE DEF q
  <2> QED BY <1>2
<1>4. DepthFor(1) = 0
  BY <1>3, DepthIs
<1> HIDE DEF t
<1>5. HasLeaves(t, <<t>>, 0)
  <2>1. ASSUME NEW r, NEW b \in Nat \ {0}, Get(r, b) = t
        PROVE  FindsLayer(r, b * 1, <<t>>, 1, ZeroChunk)
    <3>1. ASSUME NEW p \in 1 .. 1
          PROVE  p <= Len(<<t>>) /\ Get(r, b * 1 + p - 1) = <<t>>[p]
      <4>1. p = 1 /\ b * 1 + p - 1 = b
        OBVIOUS
      <4> QED BY <2>1, <4>1
    <3> QED BY <3>1 DEF FindsLayer
  <2> QED BY <1>2, <2>1 DEF HasLeaves
<1>6. Shows(<<t>>, <<c>>)
  BY <1>1 DEF Shows
<1>7. <<t>> \in Seq(NodeOf(X)) /\ <<c>> \in Seq(ChunkOf(X))
  BY <1>1
<1> QED BY <1>1, <1>2, <1>3, <1>4, <1>5, <1>6, <1>7 DEF TreeShows, t, q

(* A single chunk, past the buffer.                                        *)
LEMMA AddLeafAt ==
    ASSUME NEW X, NEW ww, NEW ns, NEW cells, IsUniverse(X), WrapperAt(X, ww, ns, << >>),
           cells \in Seq(X), Len(cells) \in 1 .. U
    PROVE  /\ Built(X, AddNode(ww, Leaf(Padded(cells))), ns, Root(cells, 1), ChunksOf(cells),
                    1, FALSE)
           /\ CeilDiv(Len(cells), U) = 1
<1> DEFINE c == Padded(cells)
<1>1. Root(cells, 1) = c /\ c \in ChunkOf(X) /\ CeilDiv(Len(cells), U) = 1
  BY RootOfOne
<1>2. ChunksOf(cells) = <<c>>
  <2> DEFINE s == ChunksOf(cells)
  <2>1. s \in Seq(ChunkOf(X)) /\ Len(s) = 1 /\ FlattenSeq(s) = Padded(cells)
    BY <1>1, ChunksOfIs
  <2> HIDE DEF s
  <2>2. s = <<s[1]>> /\ s[1] \in ChunkOf(X)
    <3> DEFINE D == ChunkOf(X)
    <3>1. s \in Seq(D) /\ Len(s) = 1
      BY <2>1
    <3> HIDE DEF D
    <3>2. s = <<s[1]>> /\ s[1] \in D
      BY ONLY <3>1
    <3> QED BY <3>2 DEF D
  <2>3. FlattenSeq(<<s[1]>>) = s[1]
    BY <2>2, FlatOne
  <2>4. s[1] = c
    BY <2>1, <2>2, <2>3
  <2> QED BY <2>2, <2>4 DEF s
<1> HIDE DEF c
<1>3. TreeShows(X, Leaf(c), <<c>>, 1)
  BY <1>1, LeafShows
<1>4. Built(X, AddNode(ww, Leaf(c)), ns, Leaf(c).root, <<c>>, 1, FALSE)
  <2>1. 1 # 0
    OBVIOUS
  <2> QED BY <1>3, <2>1, BuiltPlain
<1>5. Leaf(c).root = c
  BY DEF Leaf
<1> QED BY <1>1, <1>2, <1>4, <1>5 DEF c

(* PutBytes and PutBitlist make leaves at once.                            *)
LEMMA wPutBytesAt ==
    ASSUME NEW X, NEW ww, NEW ns, NEW cells, IsUniverse(X), WrapperAt(X, ww, ns, << >>),
           cells \in Seq(X), cells # << >>, CeilDiv(Len(cells), U) <= 2^MaxTreeDepth
    PROVE  Built(X, wPutBytes(ww, cells), ns, Root(cells, CeilDiv(Len(cells), U)),
                 ChunksOf(cells), CeilDiv(Len(cells), U), FALSE)
<1>1. CASE Len(cells) <= U
  <2>1. wPutBytes(ww, cells) = AddNode(ww, Leaf(Padded(cells)))
    BY <1>1 DEF wPutBytes
  <2>2. Len(cells) \in 1 .. U
    BY <1>1, ChunkAssumption
  <2>3. /\ Built(X, AddNode(ww, Leaf(Padded(cells))), ns, Root(cells, 1), ChunksOf(cells),
                 1, FALSE)
        /\ CeilDiv(Len(cells), U) = 1
    BY <2>2, AddLeafAt
  <2> QED BY <2>1, <2>3
<1>2. CASE ~ (Len(cells) <= U)
  <2> DEFINE y == appendBytesAsNodes(ww, cells)
             v == LeavesOf(cells)
             c == ChunksOf(cells)
             n == CeilDiv(Len(cells), U)
  <2>1. wPutBytes(ww, cells) = Commit(y, Len(ns))
    <3>1. wIndex(ww) = Len(ns)
      BY WrapperFields
    <3> QED BY <1>2, <3>1 DEF wPutBytes
  <2>2. WrapperAt(X, y, ns \o v, << >>)
    BY WrapperPuts
  <2>3. v \in Seq(NodeOf(X)) /\ RootsOf(v) = c
    BY LeavesOfIs
  <2>4. c \in Seq(ChunkOf(X)) /\ Len(c) = n /\ FlattenSeq(c) = Padded(cells)
    BY ChunksOfIs
  <2>5. Len(v) = n
    <3>1. Len(RootsOf(v)) = Len(v)
      BY <2>3, RootsOfIs
    <3> QED BY <2>3, <2>4, <3>1
  <2>6. n \in Nat /\ n # 0
    <3>1. Len(cells) \in Nat /\ Len(cells) # 0
      OBVIOUS
    <3> HIDE DEF n
    <3> QED BY <3>1, CeilIs DEF n
  <2>7. ns \in Seq(NodeOf(X))
    BY WrapperFields
  <2> HIDE DEF y, v, c, n
  <2>8. v # << >>
    BY <2>5, <2>6
  <2>9. Shows(v, c)
    BY <2>3, <2>4, <2>5, <2>6, SameShows
  <2>10. /\ Ready(X, y, ns, v) /\ v # << >> /\ n = Len(v) /\ n <= 2^MaxTreeDepth
         /\ cells \in Seq(X) /\ Padded(cells) = FlattenSeq(RootsOf(v))
         /\ c \in Seq(ChunkOf(X)) /\ Shows(v, c)
    BY <2>2, <2>3, <2>4, <2>5, <2>7, <2>8, <2>9 DEF Ready, n
  <2>11. Built(X, Commit(y, Len(ns)), ns, Root(cells, n), c, n, FALSE)
    BY ONLY <2>10, CommitAt
  <2> QED BY <2>1, <2>11 DEF c, n
<1> QED BY <1>1, <1>2

(* The chunks of a bitlist, which the leaves of what is left after         *)
(* trimming show.                                                          *)
LEMMA TrimmedShows ==
    ASSUME NEW X, NEW a, NEW z, IsUniverse(X), a \in Seq(X), z \in Nat
    PROVE  Shows(LeavesOf(a), ChunksOf(a \o Zeros(z)))
<1> DEFINE b == a \o Zeros(z)
           v == LeavesOf(a)
           c == ChunksOf(b)
           k == CeilDiv(Len(a), U)
<1>1. b \in Seq(X)
  <2>1. Zeros(z) \in Seq(X)
    BY ChunkTypes
  <2> QED BY <2>1
<1>2. v \in Seq(NodeOf(X)) /\ RootsOf(v) = IF a = << >> THEN <<ZeroChunk>> ELSE ChunksOf(a)
  BY LeavesOfIs
<1>3. /\ Len(RootsOf(v)) = Len(v)
      /\ \A i \in 1 .. Len(v) : RootsOf(v)[i] = v[i].root
  BY <1>2, RootsOfIs
<1>4. /\ ChunksOf(a) \in Seq(ChunkOf(X)) /\ Len(ChunksOf(a)) = k
      /\ \A j \in 1 .. Len(ChunksOf(a)) : ChunksOf(a)[j] = CellsAt(a, j - 1)
      /\ \A j \in Nat : j > k => CellsAt(a, j - 1) = ZeroChunk
  BY ChunksOfIs
<1>5. /\ c \in Seq(ChunkOf(X)) /\ \A j \in 1 .. Len(c) : c[j] = CellsAt(b, j - 1)
  BY <1>1, ChunksOfIs
<1>6. \A j \in Nat : CellsAt(b, j) = CellsAt(a, j)
  <2>1. 0 \in Nat /\ 0 <= 2^MaxTreeDepth
    <3> DEFINE q == 2^MaxTreeDepth
    <3>1. q \in Nat
      BY ChunkAssumption, TwoPowers
    <3> HIDE DEF q
    <3>2. 0 <= q
      BY <3>1
    <3> QED BY <3>2 DEF q
  <2> QED BY <2>1, RootOfZeros
<1>7. k \in Nat /\ (k = 0 <=> a = << >>)
  <2>1. Len(a) \in Nat /\ (Len(a) = 0 <=> a = << >>)
    OBVIOUS
  <2> HIDE DEF k
  <2> QED BY <2>1, CeilIs DEF k
<1>8. Len(c) \in Nat
  BY <1>5
<1> HIDE DEF b, c, k, v
<1>9. v # << >>
  <2>1. Len(v) # 0
    <3>1. CASE a = << >>
      BY <1>2, <1>3, <3>1
    <3>2. CASE a # << >>
      BY <1>2, <1>3, <1>4, <1>7, <3>2
    <3> QED BY <3>1, <3>2
  <2> QED BY <2>1
<1>10. ASSUME NEW i, i \in 1 .. Len(c)
       PROVE  c[i] = IF i <= Len(v) THEN v[i].root ELSE ZeroChunk
  <2>1. c[i] = CellsAt(a, i - 1) /\ i \in Nat /\ i >= 1
    <3>1. c[i] = CellsAt(b, i - 1) /\ i - 1 \in Nat /\ i \in Nat /\ i >= 1
      BY <1>5, <1>8, <1>10
    <3> QED BY <1>6, <3>1
  <2>2. CASE a = << >>
    <3>1. RootsOf(v) = <<ZeroChunk>> /\ Len(v) = 1
      BY <1>2, <1>3, <2>2
    <3>2. CellsAt(a, i - 1) = ZeroChunk
      BY <1>4, <1>7, <2>1, <2>2
    <3>3. i <= 1 => v[i].root = ZeroChunk
      BY <1>3, <2>1, <3>1
    <3> QED BY <2>1, <3>1, <3>2, <3>3
  <2>3. CASE a # << >>
    <3>1. RootsOf(v) = ChunksOf(a) /\ Len(v) = k
      BY <1>2, <1>3, <1>4, <2>3
    <3>2. i <= k => v[i].root = CellsAt(a, i - 1)
      <4>1. i <= k => i \in 1 .. k
        BY <1>7, <2>1
      <4> QED BY <1>3, <1>4, <3>1, <4>1
    <3>3. ~ (i <= k) => CellsAt(a, i - 1) = ZeroChunk
      BY <1>4, <1>7, <2>1
    <3> QED BY <2>1, <3>1, <3>2, <3>3
  <2> QED BY <2>2, <2>3
<1> QED BY <1>9, <1>10 DEF Shows, b, c, v

LEMMA CeilMonotone ==
    ASSUME NEW a, NEW c, a \in Nat, c \in Nat, a <= c
    PROVE  CeilDiv(a, U) \in Nat /\ CeilDiv(c, U) \in Nat /\ CeilDiv(a, U) <= CeilDiv(c, U)
<1> DEFINE k == CeilDiv(c, U)
<1>0. U \in Nat
  BY ChunkAssumption
<1>1. k \in Nat /\ c <= k * U /\ CeilDiv(a, U) \in Nat
  BY CeilIs
<1> HIDE DEF k
<1>2. k * U \in Nat
  BY <1>0, <1>1
<1>3. a <= k * U
  BY <1>1, <1>2
<1>4. CeilDiv(a, U) <= k
  BY <1>1, <1>3, CeilIs
<1> QED BY <1>1, <1>4 DEF k

IsLimit(n) == n \in Nat /\ n <= 2^MaxTreeDepth

(* The leaves of what is left have the root of all of it.                  *)
LEMMA TrimmedLeaves ==
    ASSUME NEW X, NEW a, NEW limit, IsUniverse(X), a \in Seq(X), IsLimit(limit)
    PROVE  \E s \in Seq(X) : /\ Padded(s) = FlattenSeq(RootsOf(LeavesOf(a)))
                             /\ Root(s, limit) = Root(a, limit)
<1>1. RootsOf(LeavesOf(a)) = IF a = << >> THEN <<ZeroChunk>> ELSE ChunksOf(a)
  BY LeavesOfIs
<1>2. CASE a # << >>
  <2>1. FlattenSeq(ChunksOf(a)) = Padded(a)
    BY ChunksOfIs
  <2> QED BY <1>1, <1>2, <2>1
<1>3. CASE a = << >>
  <2>1. ZeroChunk \in ChunkOf(X) /\ U \in Nat
    BY ChunkTypes, ChunkAssumption
  <2>2. FlattenSeq(<<ZeroChunk>>) = ZeroChunk /\ ZeroChunk \in Seq(X) /\ Len(ZeroChunk) = U
    BY <2>1, FlatOne
  <2>3. Padded(ZeroChunk) = ZeroChunk
    <3> DEFINE s == ZeroChunk
               one == 1
    <3>1. s \in Seq(X) /\ Len(s) = one * U /\ one \in Nat
      BY <2>1, <2>2
    <3> HIDE DEF s, one
    <3>2. Padded(s) = s
      BY <3>1, PaddedIs
    <3> QED BY <3>2 DEF s
  <2>4. Root(ZeroChunk, limit) = Root(a, limit)
    <3>1. Root(a \o Zeros(U), limit) = Root(a, limit)
      BY <2>1, RootOfZeros DEF IsLimit
    <3>2. a \o ZeroChunk = ZeroChunk
      <4> DEFINE s == ZeroChunk
      <4>1. s \in Seq(X)
        BY <2>2
      <4> HIDE DEF s
      <4>2. << >> \o s = s
        BY <4>1
      <4> QED BY <1>3, <4>2 DEF s
    <3> QED BY <3>1, <3>2 DEF ZeroChunk
  <2> QED BY <1>1, <1>3, <2>2, <2>3, <2>4
<1> QED BY <1>2, <1>3

LEMMA wPutBitlistAt ==
    ASSUME NEW X, NEW ww, NEW ns, NEW cells, NEW maxSize, IsUniverse(X),
           WrapperAt(X, ww, ns, << >>), cells \in Seq(X), maxSize \in Nat,
           maxSize # 0, CeilDiv(maxSize, U) <= 2^MaxTreeDepth,
           CeilDiv(Len(parseBitlist(cells)), U) <= CeilDiv(maxSize, U)
    PROVE  Built(X, wPutBitlist(ww, parseBitlist(cells), Len(cells), maxSize), ns,
                 hashPair(Root(cells, CeilDiv(maxSize, U)), LengthChunk(Len(cells))),
                 ChunksOf(cells), CeilDiv(maxSize, U), TRUE)
<1> DEFINE a == parseBitlist(cells)
           limit == CeilDiv(maxSize, U)
           y == appendBytesAsNodes(ww, a)
           v == LeavesOf(a)
           c == ChunksOf(cells)
           num == Len(cells)
<1>1. a \in Seq(X) /\ Len(a) <= num /\ num \in Nat
  BY TrimIs
<1>2. PICK z : z \in Nat /\ cells = a \o Zeros(z)
  BY TrimIs
<1>4. CeilDiv(Len(a), U) \in Nat /\ CeilDiv(Len(a), U) <= limit
  <2>1. Len(a) \in Nat
    BY <1>1
  <2> QED BY <2>1, CeilIs
<1> HIDE DEF a
<1>3. limit \in Nat /\ limit <= 2^MaxTreeDepth /\ limit >= 1
  BY CeilIs
<1>6. wPutBitlist(ww, a, num, maxSize) = CommitWithMixin(y, Len(ns), num, limit)
  <2>1. wIndex(ww) = Len(ns)
    BY WrapperFields
  <2> QED BY <2>1 DEF wPutBitlist
<1>7. WrapperAt(X, y, ns \o v, << >>)
  BY <1>1, WrapperPuts
<1>8. v \in Seq(NodeOf(X)) /\ RootsOf(v) = IF a = << >> THEN <<ZeroChunk>> ELSE ChunksOf(a)
  BY <1>1, LeavesOfIs
<1>9. Len(v) <= limit
  <2>1. Len(RootsOf(v)) = Len(v)
    BY <1>8, RootsOfIs
  <2>2. Len(ChunksOf(a)) = CeilDiv(Len(a), U)
    BY <1>1, ChunksOfIs
  <2> HIDE DEF v, limit
  <2>3. CASE a = << >>
    <3>1. Len(v) = 1
      BY <1>8, <2>1, <2>3
    <3> QED BY <1>3, <3>1
  <2>4. CASE a # << >>
    <3>1. Len(v) = CeilDiv(Len(a), U)
      BY <1>8, <2>1, <2>2, <2>4
    <3> DEFINE k == CeilDiv(Len(a), U)
    <3>2. k \in Nat /\ k <= limit /\ Len(v) = k
      BY <1>4, <3>1
    <3> HIDE DEF k
    <3> QED BY <3>2
  <2> QED BY <2>3, <2>4
<1>10. c \in Seq(ChunkOf(X))
  BY ChunksOfIs
<1>12. Shows(v, c)
  BY <1>1, <1>2, TrimmedShows
<1>13. ns \in Seq(NodeOf(X))
  BY WrapperFields
<1>14. PICK s : /\ s \in Seq(X) /\ Padded(s) = FlattenSeq(RootsOf(v))
                /\ Root(s, limit) = Root(a, limit)
  <2>1. IsUniverse(X) /\ a \in Seq(X) /\ IsLimit(limit)
    BY <1>1, <1>3 DEF IsLimit
  <2> HIDE DEF limit
  <2>2. \E s \in Seq(X) : /\ Padded(s) = FlattenSeq(RootsOf(LeavesOf(a)))
                          /\ Root(s, limit) = Root(a, limit)
    BY ONLY <2>1, TrimmedLeaves
  <2> QED BY <2>2
<1>15. Root(cells, limit) = Root(a, limit)
  <2> HIDE DEF limit
  <2>1. Root(a \o Zeros(z), limit) = Root(a, limit)
    BY <1>1, <1>2, <1>3, RootOfZeros
  <2> QED BY <1>2, <2>1
<1> HIDE DEF y, v, c, limit, num
<1>16. /\ Ready(X, y, ns, v) /\ limit \in Nat /\ limit <= 2^MaxTreeDepth /\ num \in Nat
       /\ Len(v) <= limit
       /\ s \in Seq(X) /\ Padded(s) = FlattenSeq(RootsOf(v))
       /\ c \in Seq(ChunkOf(X)) /\ Shows(v, c)
  BY <1>1, <1>3, <1>7, <1>8, <1>9, <1>10, <1>12, <1>13, <1>14 DEF Ready
<1>17. Built(X, CommitWithMixin(y, Len(ns), num, limit), ns,
             hashPair(Root(s, limit), LengthChunk(num)), c, limit, TRUE)
  BY ONLY <1>16, CommitWithMixinAt
<1> QED BY <1>6, <1>14, <1>15, <1>17 DEF a, c, limit, num

---------------------------------------------------------------------------
(***************************************************************************)
(* What the steps of the walk do to the wrapper.                           *)
(***************************************************************************)
(* Between two members nothing waits, and the nodes are those of the       *)
(* members of the open frames.                                             *)
WrapperRuns ==
    /\ WrapperAt(Universe, w, w.nodes, << >>)
    /\ RootsOf(w.nodes) = OpenRoots /\ WrapperIndices(stack)

(* A member is on the wrapper.                                             *)
Builds ==
    \E root \in Chunk :
       /\ stack' = AddRoot(stack, root)
       /\ Built(Universe, w', w.nodes, root, closed'.chunks, closed'.limit, closed'.mixin)

LEMMA WrapperHere ==
    ASSUME WrapperRuns
    PROVE  /\ WrapperAt(Universe, w, w.nodes, << >>) /\ wIndex(w) = Len(w.nodes)
           /\ w.nodes \in Seq(NodeOf(Universe)) /\ w \in WrapperOf(Universe) /\ w.stuck = FALSE
           /\ w.buf = << >>
BY WrapperFields DEF WrapperRuns

(* Appending to a wrapper that nothing waits on.                           *)
LEMMA WrapperAppends ==
    ASSUME WrapperRuns, NEW cells, cells \in Seq(Universe)
    PROVE  /\ WrapperAt(Universe, wAppend(w, cells), w.nodes, cells)
           /\ WrapperAt(Universe, wAppendBytes32(w, cells), w.nodes, Padded(cells))
           /\ WrapperAt(Universe, wFillUpTo32(wAppend(w, cells)), w.nodes, Padded(cells))
<1>1. << >> \o cells = cells
  OBVIOUS
<1>2. WrapperAt(Universe, w, w.nodes, << >>) /\ IsUniverse(Universe)
  BY UniverseIs DEF WrapperRuns
<1>3. /\ WrapperAt(Universe, wAppend(w, cells), w.nodes, << >> \o cells)
      /\ WrapperAt(Universe, wAppendBytes32(w, cells), w.nodes, Padded(<< >> \o cells))
  BY <1>2, WrapperPuts
<1>4. WrapperAt(Universe, wAppend(w, cells), w.nodes, cells)
  BY <1>1, <1>3
<1>5. WrapperAt(Universe, wFillUpTo32(wAppend(w, cells)), w.nodes, Padded(cells))
  BY <1>2, <1>4, WrapperPuts
<1> QED BY <1>1, <1>3, <1>4, <1>5

LEMMA PlainBuilds ==
    ASSUME WrapperRuns, NEW hh, NEW ww, NEW cells, NEW limit, NEW num, Emit(hh, ww, cells, limit, num, FALSE),
           Root(cells, limit) \in Chunk,
           Built(Universe, ww, w.nodes, Root(cells, limit), ChunksOf(cells), limit, FALSE)
    PROVE  Builds
<1>1. /\ stack' = AddRoot(stack, Root(cells, limit)) /\ w' = Walks(ww)
      /\ closed' = [chunks |-> ChunksOf(cells), limit |-> limit, mixin |-> FALSE]
  BY DEF Emit, ChunksOf
<1>2. closed'.chunks = ChunksOf(cells) /\ closed'.limit = limit /\ closed'.mixin = FALSE
  BY <1>1
<1>3. w' = ww
  BY <1>1, WrapperHere DEF Walks
<1> QED BY <1>1, <1>2, <1>3 DEF Builds

LEMMA MixedBuilds ==
    ASSUME WrapperRuns, NEW hh, NEW ww, NEW cells, NEW limit, NEW num, Emit(hh, ww, cells, limit, num, TRUE),
           hashPair(Root(cells, limit), LengthChunk(num)) \in Chunk,
           Built(Universe, ww, w.nodes, hashPair(Root(cells, limit), LengthChunk(num)),
                 ChunksOf(cells), limit, TRUE)
    PROVE  Builds
<1>1. /\ stack' = AddRoot(stack, hashPair(Root(cells, limit), LengthChunk(num))) /\ w' = Walks(ww)
      /\ closed' = [chunks |-> ChunksOf(cells), limit |-> limit, mixin |-> TRUE]
  BY DEF Emit, ChunksOf
<1>2. closed'.chunks = ChunksOf(cells) /\ closed'.limit = limit /\ closed'.mixin = TRUE
  BY <1>1
<1>3. w' = ww
  BY <1>1, WrapperHere DEF Walks
<1> QED BY <1>1, <1>2, <1>3 DEF Builds

(* A root is a chunk.                                                      *)
LEMMA RootType ==
    ASSUME NEW X, NEW cells, NEW limit, IsUniverse(X), cells \in Seq(X), limit \in Nat,
           limit <= 2^MaxTreeDepth, CeilDiv(Len(cells), U) <= limit
    PROVE  Root(cells, limit) \in ChunkOf(X)
<1> DEFINE ww == [nodes |-> << >>, buf |-> cells, stuck |-> FALSE]
           v == Waiting(cells)
           q == 2^DepthFor(limit)
<1>1. WrapperAt(X, ww, << >>, cells)
  BY DEF WrapperAt, IsWrapper
<1> HIDE DEF ww
<1>2. /\ Ready(X, Flushed(ww), << >>, v) /\ Len(v) = CeilDiv(Len(cells), U)
      /\ CeilDiv(Len(cells), U) \in Nat /\ Padded(cells) = FlattenSeq(RootsOf(v))
  BY <1>1, WaitingIs
<1>3. q \in Nat /\ limit <= q
  BY DepthOfPower, DepthIs
<1>4. Len(v) <= q
  <2> DEFINE n == CeilDiv(Len(cells), U)
  <2>1. n \in Nat /\ Len(v) = n /\ n <= limit
    BY <1>2
  <2> HIDE DEF n, v, q
  <2> QED BY <1>3, <2>1
<1>5. v \in Seq(NodeOf(X))
  BY <1>2 DEF Ready
<1> HIDE DEF v
<1>6. Len(v) <= 2^DepthFor(limit)
  BY <1>4
<1>6a. Len(v) <= limit
  BY <1>2
<1>7. TreeFromNodes(v, limit) \in NodeOf(X) /\ TreeFromNodes(v, limit).root = Root(cells, limit)
  BY <1>2, <1>5, <1>6, <1>6a, TreeOver
<1> QED BY <1>7, NodeTypes

LEMMA MixedType ==
    ASSUME NEW root, NEW num, root \in ChunkOf(Universe), num \in Nat
    PROVE  hashPair(root, LengthChunk(num)) \in Chunk
BY UniverseIs, ChunkTypes DEF Chunk

LEMMA PutUintBuilds ==
    ASSUME PlanInv, WrapperRuns, NEW f \in Fields, PutUint(f)
    PROVE  Builds
<1> DEFINE v == Data(1)
<1>1. v \in Seq(Universe) /\ Len(v) = 1
  BY PlanFacts, DataIs
<1>2. Emit(PutUint64(h, v[1]), wPutUint64(w, v[1]), v, 1, 0, FALSE)
  BY DEF PutUint
<1> HIDE DEF v
<1>3. v = <<v[1]>> /\ Len(v) \in 1 .. U
  BY <1>1, ChunkAssumption
<1>4. wPutUint64(w, v[1]) = AddNode(w, Leaf(Padded(v)))
  BY <1>3 DEF wPutUint64
<1>5. Built(Universe, wPutUint64(w, v[1]), w.nodes, Root(v, 1), ChunksOf(v), 1, FALSE)
  BY <1>1, <1>3, <1>4, WrapperHere, UniverseIs, AddLeafAt
<1>6. Root(v, 1) \in Chunk
  BY <1>1, <1>3, UniverseIs, RootOfOne DEF Chunk
<1> QED BY <1>2, <1>5, <1>6, PlainBuilds

LEMMA PutFixedBytesBuilds ==
    ASSUME PlanInv, WrapperRuns, NEW f \in Fields, PutFixedBytes(f)
    PROVE  Builds
<1> DEFINE b == Data(f.n)
           limit == CeilDiv(f.n, U)
<1>0. f.n \in Nat \ {0} /\ limit <= 2^MaxTreeDepth /\ limit \in Nat
  <2>1. IsShape(f) /\ f.kind = "bytes"
    BY PlanFacts DEF PutFixedBytes
  <2>2. f.n \in Nat \ {0} /\ limit <= 2^MaxTreeDepth
    BY <2>1 DEF IsShape
  <2> QED BY <2>2, CeilIs
<1>1. b \in Seq(Universe) /\ Len(b) = f.n
  BY <1>0, PlanFacts, DataIs
<1>2. Emit(PutBytes(h, b), wPutBytes(w, b), b, limit, 0, FALSE)
  BY DEF PutFixedBytes
<1>3. b # << >> /\ CeilDiv(Len(b), U) = limit
  <2> HIDE DEF b
  <2> QED BY <1>0, <1>1
<1> HIDE DEF b
<1>4. Built(Universe, wPutBytes(w, b), w.nodes, Root(b, limit), ChunksOf(b), limit, FALSE)
  <2> DEFINE ns == w.nodes
  <2>1. WrapperAt(Universe, w, ns, << >>)
    BY WrapperHere
  <2>2. CeilDiv(Len(b), U) <= 2^MaxTreeDepth /\ b \in Seq(Universe) /\ b # << >>
    BY <1>0, <1>1, <1>3
  <2> HIDE DEF ns
  <2>3. Built(Universe, wPutBytes(w, b), ns, Root(b, CeilDiv(Len(b), U)), ChunksOf(b),
              CeilDiv(Len(b), U), FALSE)
    BY ONLY <2>1, <2>2, UniverseIs, wPutBytesAt
  <2> QED BY <1>3, <2>3 DEF ns
<1>5. Root(b, limit) \in Chunk
  <2> HIDE DEF limit
  <2>1. limit <= limit
    BY <1>0
  <2> QED BY <1>0, <1>1, <1>3, <2>1, UniverseIs, RootType DEF Chunk
<1> QED BY <1>2, <1>4, <1>5, PlainBuilds

LEMMA PutBitsBuilds ==
    ASSUME PlanInv, WrapperRuns, NEW f \in Fields, PutBits(f), Fits(f)
    PROVE  Builds
<1> DEFINE b == Bits(f)
           c == f.cap
           limit == CeilDiv(c, U)
           a == parseBitlist(b)
           num == Len(b)
<1>1. /\ b \in Seq(Universe) /\ num \in Nat /\ c \in Nat /\ c # 0
      /\ limit \in Nat /\ limit <= 2^MaxTreeDepth
      /\ a \in Seq(Universe) /\ CeilDiv(Len(a), U) <= limit
      /\ Emit(PutBitlist(h, b, c), wPutBitlist(w, parseBitlist(b), Len(b), c), b, limit, num, TRUE)
      /\ \E z \in Nat : b = a \o Zeros(z)
  BY BitsAre DEF Fits
<1>2. PICK z : z \in Nat /\ b = a \o Zeros(z)
  BY <1>1
<1> HIDE DEF b
<1>3. Built(Universe, wPutBitlist(w, parseBitlist(b), Len(b), c), w.nodes,
            hashPair(Root(b, limit), LengthChunk(num)), ChunksOf(b), limit, TRUE)
  <2> DEFINE ns == w.nodes
  <2>1. /\ IsUniverse(Universe) /\ WrapperAt(Universe, w, ns, << >>)
        /\ b \in Seq(Universe) /\ c \in Nat /\ c # 0 /\ CeilDiv(c, U) <= 2^MaxTreeDepth
        /\ CeilDiv(Len(parseBitlist(b)), U) <= CeilDiv(c, U)
    BY <1>1, UniverseIs, WrapperHere
  <2> HIDE DEF ns, c
  <2>2. Built(Universe, wPutBitlist(w, parseBitlist(b), Len(b), c), ns,
              hashPair(Root(b, CeilDiv(c, U)), LengthChunk(Len(b))), ChunksOf(b),
              CeilDiv(c, U), TRUE)
    BY ONLY <2>1, wPutBitlistAt
  <2> QED BY <2>2 DEF ns, c
<1>4. hashPair(Root(b, limit), LengthChunk(num)) \in Chunk
  <2> HIDE DEF limit, a
  <2>1. Root(a, limit) \in ChunkOf(Universe)
    BY <1>1, UniverseIs, RootType
  <2>2. Root(a \o Zeros(z), limit) = Root(a, limit)
    <3>1. /\ IsUniverse(Universe) /\ a \in Seq(Universe) /\ z \in Nat /\ limit \in Nat
          /\ limit <= 2^MaxTreeDepth
      BY <1>1, <1>2, UniverseIs
    <3> QED BY ONLY <3>1, RootOfZeros
  <2>3. Root(b, limit) \in ChunkOf(Universe)
    BY <1>2, <2>1, <2>2
  <2> QED BY <1>1, <2>3, MixedType
<1> DEFINE hh == PutBitlist(h, b, c)
           ww == wPutBitlist(w, parseBitlist(b), Len(b), c)
<1>5. Emit(hh, ww, b, limit, num, TRUE)
  BY <1>1
<1> HIDE DEF hh, ww, limit, num
<1> QED BY <1>3, <1>4, <1>5, MixedBuilds DEF ww

(* wMerkleizeWithMixin and wMerkleize of what waits behind the open        *)
(* members.                                                                *)
LEMMA wMixinHere ==
    ASSUME NEW ww, NEW b, NEW num, NEW limit, WrapperRuns,
           WrapperAt(Universe, ww, w.nodes, b), num \in Nat, limit \in Nat,
           limit <= 2^MaxTreeDepth, CeilDiv(Len(b), U) <= limit
    PROVE  /\ Built(Universe, wMerkleizeWithMixin(ww, wIndex(w), num, limit), w.nodes,
                    hashPair(Root(b, limit), LengthChunk(num)), ChunksOf(b), limit, TRUE)
           /\ hashPair(Root(b, limit), LengthChunk(num)) \in Chunk
<1>1. b \in Seq(Universe)
  BY WrapperFields
<1>2. Root(b, limit) \in ChunkOf(Universe)
  BY <1>1, UniverseIs, RootType
<1>3. hashPair(Root(b, limit), LengthChunk(num)) \in Chunk
  BY <1>2, MixedType
<1>4. Built(Universe, wMerkleizeWithMixin(ww, Len(w.nodes), num, limit), w.nodes,
            hashPair(Root(b, limit), LengthChunk(num)), ChunksOf(b), limit, TRUE)
  <2> DEFINE ns == w.nodes
  <2>1. /\ IsUniverse(Universe) /\ WrapperAt(Universe, ww, ns, b) /\ num \in Nat
        /\ limit \in Nat /\ limit <= 2^MaxTreeDepth /\ CeilDiv(Len(b), U) <= limit
    BY UniverseIs
  <2> HIDE DEF ns
  <2>2. Built(Universe, wMerkleizeWithMixin(ww, Len(ns), num, limit), ns,
              hashPair(Root(b, limit), LengthChunk(num)), ChunksOf(b), limit, TRUE)
    BY ONLY <2>1, wMerkleizeWithMixinAt
  <2> QED BY <2>2 DEF ns
<1>5. wIndex(w) = Len(w.nodes)
  BY WrapperHere
<1> QED BY <1>3, <1>4, <1>5

LEMMA wMerkleizeHere ==
    ASSUME NEW ww, NEW b, NEW limit, WrapperRuns, WrapperAt(Universe, ww, w.nodes, b),
           limit \in Nat \ {0}, limit <= 2^MaxTreeDepth, CeilDiv(Len(b), U) = limit
    PROVE  /\ Built(Universe, wMerkleize(ww, wIndex(w)), w.nodes, Root(b, limit), ChunksOf(b),
                    limit, FALSE)
           /\ Root(b, limit) \in Chunk
<1>1. b \in Seq(Universe)
  BY WrapperFields
<1>2. Root(b, limit) \in Chunk
  <2>1. CeilDiv(Len(b), U) <= limit /\ limit \in Nat
    OBVIOUS
  <2> QED BY <1>1, <2>1, UniverseIs, RootType DEF Chunk
<1>3. b # << >>
  <2>1. Len(<< >>) = 0 /\ CeilDiv(0, U) = 0
    BY CeilIs
  <2> QED BY <2>1
<1>4. Built(Universe, wMerkleize(ww, Len(w.nodes)), w.nodes, Root(b, limit), ChunksOf(b),
            limit, FALSE)
  <2> DEFINE ns == w.nodes
  <2>1. /\ IsUniverse(Universe) /\ WrapperAt(Universe, ww, ns, b) /\ b # << >>
        /\ CeilDiv(Len(b), U) <= 2^MaxTreeDepth
    BY <1>3, UniverseIs
  <2> HIDE DEF ns
  <2>2. Built(Universe, wMerkleize(ww, Len(ns)), ns, Root(b, CeilDiv(Len(b), U)), ChunksOf(b),
              CeilDiv(Len(b), U), FALSE)
    BY ONLY <2>1, wMerkleizeAt
  <2> QED BY <2>2 DEF ns
<1>5. wIndex(w) = Len(w.nodes)
  BY WrapperHere
<1> QED BY <1>2, <1>4, <1>5

(* Filling up changes neither root nor chunks.                             *)
LEMMA PaddedSame ==
    ASSUME NEW b, b \in Seq(Universe)
    PROVE  /\ ChunksOf(Padded(b)) = ChunksOf(b)
           /\ \A limit : Root(Padded(b), limit) = Root(b, limit)
           /\ CeilDiv(Len(Padded(b)), U) = CeilDiv(Len(b), U)
<1> DEFINE k == CeilDiv(Len(b), U)
<1>1. ChunksOf(Padded(b)) = ChunksOf(b) /\ Len(Padded(b)) = k * U
  BY UniverseIs, ChunksOfIs, PaddedIs
<1>2. \A limit : Root(Padded(b), limit) = Root(b, limit)
  BY UniverseIs, RootOfPadded
<1>3. Len(b) \in Nat
  OBVIOUS
<1>4. k \in Nat
  BY <1>3, CeilIs
<1> HIDE DEF k
<1>5. CeilDiv(k * U, U) = k
  BY <1>4, CeilIs
<1> QED BY <1>1, <1>2, <1>5 DEF k

LEMMA PutDynamicBytesBuilds ==
    ASSUME PlanInv, WrapperRuns, NEW f \in Fields, PutDynamicBytes(f)
    PROVE  Builds
<1> DEFINE b == Data(f.n)
           hh == IF Top.kind = "container" THEN Append_(h, b) ELSE AppendBytes32(h, b)
           ww == IF Top.kind = "container" THEN wAppend(w, b) ELSE wAppendBytes32(w, b)
           c == f.cap
           limit == CeilDiv(c, U)
           n == f.n
<1>0. n \in Nat /\ c \in Nat /\ n <= c /\ limit <= 2^MaxTreeDepth
  <2>1. IsShape(f) /\ f.kind = "dynbytes" /\ f.n <= f.cap
    BY PlanFacts DEF PutDynamicBytes
  <2> QED BY <2>1 DEF IsShape
<1>1. b \in Seq(Universe) /\ Len(b) = n
  BY <1>0, PlanFacts, DataIs
<1>2. Emit(MerkleizeWithMixin(hh, Index(h), n, limit),
           wMerkleizeWithMixin(ww, wIndex(w), n, limit), b, limit, n, TRUE)
  BY DEF PutDynamicBytes
<1>3. limit \in Nat /\ CeilDiv(n, U) <= limit
  <2> HIDE DEF c, n
  <2> QED BY <1>0, CeilMonotone
<1>4. \E p \in {b, Padded(b)} : WrapperAt(Universe, ww, w.nodes, p)
  <2> HIDE DEF b
  <2>1. CASE Top.kind = "container"
    BY <1>1, <2>1, WrapperAppends
  <2>2. CASE Top.kind # "container"
    BY <1>1, <2>2, WrapperAppends
  <2> QED BY <2>1, <2>2
<1> DEFINE hx == MerkleizeWithMixin(hh, Index(h), n, limit)
<1> HIDE DEF b, ww, limit, n, hx
<1>5. PICK p : p \in {b, Padded(b)} /\ WrapperAt(Universe, ww, w.nodes, p)
  BY <1>4
<1>6. ChunksOf(p) = ChunksOf(b) /\ Root(p, limit) = Root(b, limit) /\ CeilDiv(Len(p), U) <= limit
  <2>1. /\ ChunksOf(Padded(b)) = ChunksOf(b)
        /\ Root(Padded(b), limit) = Root(b, limit)
        /\ CeilDiv(Len(Padded(b)), U) = CeilDiv(Len(b), U)
    BY <1>1, PaddedSame
  <2>2. CASE p = b
    BY <1>1, <1>3, <2>2
  <2>3. CASE p = Padded(b)
    BY <1>1, <1>3, <2>1, <2>3
  <2> QED BY <1>5, <2>2, <2>3
<1>7. limit <= 2^MaxTreeDepth
  BY <1>0 DEF limit
<1>8. /\ Built(Universe, wMerkleizeWithMixin(ww, wIndex(w), n, limit), w.nodes,
               hashPair(Root(p, limit), LengthChunk(n)), ChunksOf(p), limit, TRUE)
      /\ hashPair(Root(p, limit), LengthChunk(n)) \in Chunk
  BY <1>0, <1>3, <1>5, <1>6, <1>7, wMixinHere
<1>9. Emit(hx, wMerkleizeWithMixin(ww, wIndex(w), n, limit), b, limit, n, TRUE)
  BY <1>2 DEF hx
<1> QED BY <1>6, <1>8, <1>9, MixedBuilds

LEMMA PutUintListBuilds ==
    ASSUME PlanInv, WrapperRuns, NEW f \in Fields, PutUintList(f)
    PROVE  Builds
<1> DEFINE v == Data(f.n)
           n == f.n
           limit == MaxOf(CeilDiv(f.cap, U), 1)
           ww == wFillUpTo32(wAppend(w, v))
           hx == MerkleizeWithMixin(FillUpTo32(AppendUint64s(h, v)), Index(h), n, limit)
<1>0. /\ n \in Nat /\ limit \in Nat /\ limit <= 2^MaxTreeDepth /\ CeilDiv(n, U) <= limit
      /\ CalculateLimit(f.cap, f.n) = limit
  BY UintListLimit
<1>1. v \in Seq(Universe) /\ Len(v) = n
  BY <1>0, PlanFacts, DataIs
<1>2. Emit(hx, wMerkleizeWithMixin(ww, wIndex(w), n, limit), v, limit, n, TRUE)
  BY <1>0 DEF PutUintList
<1> HIDE DEF hx, v, limit, n
<1>3. WrapperAt(Universe, ww, w.nodes, Padded(v))
  BY <1>1, WrapperAppends
<1> HIDE DEF ww
<1>4. /\ ChunksOf(Padded(v)) = ChunksOf(v) /\ Root(Padded(v), limit) = Root(v, limit)
      /\ CeilDiv(Len(Padded(v)), U) = CeilDiv(Len(v), U)
  BY <1>1, PaddedSame
<1>5. CeilDiv(Len(Padded(v)), U) <= limit
  BY <1>0, <1>1, <1>4
<1>6. /\ Built(Universe, wMerkleizeWithMixin(ww, wIndex(w), n, limit), w.nodes,
               hashPair(Root(Padded(v), limit), LengthChunk(n)), ChunksOf(Padded(v)), limit, TRUE)
      /\ hashPair(Root(Padded(v), limit), LengthChunk(n)) \in Chunk
  BY <1>0, <1>3, <1>5, wMixinHere
<1> QED BY <1>2, <1>4, <1>6, MixedBuilds

LEMMA PutRootListBuilds ==
    ASSUME PlanInv, WrapperRuns, NEW f \in Fields, PutRootList(f)
    PROVE  Builds
<1> DEFINE v == Data(f.n * U)
           n == f.n
           limit == f.cap
           ww == wAppend(w, v)
           hx == MerkleizeWithMixin(Append_(h, v), Index(h), n, limit)
<1>0. n \in Nat /\ limit \in Nat /\ n <= limit /\ limit <= 2^MaxTreeDepth /\ f.n * U \in Nat
  <2>1. IsShape(f) /\ f.kind = "rootlist" /\ f.n <= f.cap
    BY PlanFacts DEF PutRootList
  <2>2. U \in Nat
    BY ChunkAssumption
  <2> QED BY <2>1, <2>2 DEF IsShape
<1>1. v \in Seq(Universe) /\ Len(v) = n * U
  BY <1>0, PlanFacts, DataIs
<1>2. Emit(hx, wMerkleizeWithMixin(ww, wIndex(w), n, limit), v, limit, n, TRUE)
  BY DEF PutRootList
<1> HIDE DEF hx, v, limit, n
<1>3. WrapperAt(Universe, ww, w.nodes, v)
  BY <1>1, WrapperAppends
<1> HIDE DEF ww
<1>4. CeilDiv(Len(v), U) <= limit
  <2>1. CeilDiv(Len(v), U) = n
    BY <1>0, <1>1, CeilIs
  <2> QED BY <1>0, <2>1
<1>5. /\ Built(Universe, wMerkleizeWithMixin(ww, wIndex(w), n, limit), w.nodes,
               hashPair(Root(v, limit), LengthChunk(n)), ChunksOf(v), limit, TRUE)
      /\ hashPair(Root(v, limit), LengthChunk(n)) \in Chunk
  BY <1>0, <1>3, <1>4, wMixinHere
<1> QED BY <1>2, <1>5, MixedBuilds

LEMMA PutUintVectorBuilds ==
    ASSUME PlanInv, WrapperRuns, NEW f \in Fields, PutUintVector(f)
    PROVE  Builds
<1> DEFINE v == Data(f.n)
           n == f.n
           limit == CeilDiv(f.n, U)
           ww == wAppend(w, v)
           hx == Merkleize(AppendUint64s(h, v), Index(h))
<1>0. n \in Nat /\ n # 0 /\ limit <= 2^MaxTreeDepth
  <2>1. IsShape(f) /\ f.kind = "uints"
    BY PlanFacts DEF PutUintVector
  <2> QED BY <2>1 DEF IsShape
<1>1. v \in Seq(Universe) /\ Len(v) = n
  BY <1>0, PlanFacts, DataIs
<1>2. Emit(hx, wMerkleize(ww, wIndex(w)), v, limit, 0, FALSE)
  BY DEF PutUintVector
<1>3. limit \in Nat \ {0}
  <2> HIDE DEF limit, n
  <2>1. CeilDiv(n, U) \in Nat \ {0}
    BY <1>0, CeilIs
  <2> QED BY <2>1 DEF limit, n
<1> HIDE DEF hx, v
<1>4. WrapperAt(Universe, ww, w.nodes, v)
  BY <1>1, WrapperAppends
<1> HIDE DEF ww
<1>5. CeilDiv(Len(v), U) = limit
  BY <1>1
<1> HIDE DEF limit, n
<1>6. /\ Built(Universe, wMerkleize(ww, wIndex(w)), w.nodes, Root(v, limit), ChunksOf(v),
               limit, FALSE)
      /\ Root(v, limit) \in Chunk
  BY <1>0, <1>3, <1>4, <1>5, wMerkleizeHere
<1> QED BY <1>2, <1>6, PlainBuilds

LEMMA PutRootsBuilds ==
    ASSUME PlanInv, WrapperRuns, NEW f \in Fields, PutRoots(f)
    PROVE  Builds
<1> DEFINE v == Data(f.n * U)
           n == f.n
           ww == wAppend(w, v)
           hx == Merkleize(Append_(h, v), Index(h))
<1>0. n \in Nat \ {0} /\ n <= 2^MaxTreeDepth /\ f.n * U \in Nat
  <2>1. IsShape(f) /\ f.kind = "roots"
    BY PlanFacts DEF PutRoots
  <2>2. U \in Nat
    BY ChunkAssumption
  <2> QED BY <2>1, <2>2 DEF IsShape
<1>1. v \in Seq(Universe) /\ Len(v) = n * U
  BY <1>0, PlanFacts, DataIs
<1>2. Emit(hx, wMerkleize(ww, wIndex(w)), v, n, 0, FALSE)
  BY DEF PutRoots
<1> HIDE DEF hx, v, n
<1>4. WrapperAt(Universe, ww, w.nodes, v)
  BY <1>1, WrapperAppends
<1> HIDE DEF ww
<1>5. CeilDiv(Len(v), U) = n
  BY <1>0, <1>1, CeilIs
<1>6. /\ Built(Universe, wMerkleize(ww, wIndex(w)), w.nodes, Root(v, n), ChunksOf(v), n, FALSE)
      /\ Root(v, n) \in Chunk
  BY <1>0, <1>4, <1>5, wMerkleizeHere
<1> QED BY <1>2, <1>6, PlainBuilds

---------------------------------------------------------------------------
(***************************************************************************)
(* Closing the innermost frame.                                            *)
(***************************************************************************)
(* The roots of the frames around it.                                      *)
Around == RootsUpTo(stack, Len(stack) - 1)

LEMMA FrameHere ==
    ASSUME PlanInv, StackInv, Top.kind # "result"
    PROVE  /\ Len(stack) # 1 /\ Len(stack) \in Nat /\ Len(stack) >= 1 /\ Top = stack[Len(stack)]
           /\ Around \in Seq(Chunk) /\ Top.roots \in Seq(Chunk) /\ Top \in FrameOf
           /\ OpenRoots = Around \o Top.roots
           /\ OpenCells = FlattenSeq(Around) \o FlattenSeq(Top.roots)
           /\ FlattenSeq(Around) \in Seq(Universe) /\ FlattenSeq(Top.roots) \in Seq(Universe)
           /\ Len(FlattenSeq(Around)) = Len(Around) * U
           /\ Len(FlattenSeq(Top.roots)) = Len(Top.roots) * U
           /\ Len(Around) \in Nat /\ Len(Top.roots) \in Nat
           /\ CeilDiv(Len(FlattenSeq(Top.roots)), U) = Len(Top.roots)
           /\ Len(Top.roots) <= 2^MaxTreeDepth
           /\ Top.limit \in Nat /\ Top.limit <= 2^MaxTreeDepth
           /\ Top.kind # "container" => Len(Top.roots) <= Top.limit
           /\ HasherIndices(stack) => Top.hIndx = Len(FlattenSeq(Around))
           /\ WrapperIndices(stack) => Top.wIndx = Len(Around)
<1> DEFINE n == Len(stack)
           q == 2^MaxTreeDepth
           a == Around
           t == Top.roots
<1>1. /\ stack \in Seq(FrameOf) /\ n \in Nat /\ n >= 1 /\ stack[1].kind = "result"
      /\ Top = stack[n]
  <2>1. stack \in Seq(FrameOf) /\ Len(stack) >= 1 /\ stack[1].kind = "result"
    BY DEF StackInv, IsStack
  <2> QED BY <2>1 DEF Top, Last
<1>2. n # 1
  BY <1>1
<1> HIDE DEF n
<1>3. n - 1 \in 0 .. n /\ n \in 1 .. n /\ n \in 2 .. n
  BY <1>1, <1>2
<1>4. Top \in FrameOf
  <2>1. \A i \in 1 .. n : stack[i] \in FrameOf
    BY <1>1 DEF n
  <2> QED BY <1>1, <1>3, <2>1
<1>5. t \in Seq(Chunk) /\ Top.limit \in 0 .. 2^MaxTreeDepth
  BY <1>4, FrameFields
<1>6. a \in Seq(Chunk) /\ OpenRoots = a \o t
  <2>1. OpenRoots = RootsUpTo(stack, n)
    BY BufferIs DEF n
  <2>2. RootsUpTo(stack, n - 1) \in Seq(Chunk)
    BY <1>1, <1>3, RootsUpToIs DEF n
  <2>3. RootsUpTo(stack, n) = RootsUpTo(stack, n - 1) \o stack[n].roots
    BY <1>1, <1>3, RootsUpToIs DEF n
  <2> QED BY <1>1, <2>1, <2>2, <2>3 DEF Around, n
<1>7. q \in Nat /\ U \in Nat
  BY ChunkAssumption, TwoPowers
<1> HIDE DEF q
<1>8. Top.limit \in Nat /\ Top.limit <= q
  BY <1>5, <1>7 DEF q
<1>9. Len(t) <= MembersIn(Top, MaxMembers)
  <2>1. \A i \in 2 .. n : Len(stack[i].roots) <= MembersIn(stack[i], MaxMembers)
    BY DEF StackInv, IsStack, n
  <2> QED BY <1>1, <1>3, <2>1
<1> HIDE DEF a, t
<1>10. Len(a) \in Nat /\ Len(t) \in Nat
  BY <1>5, <1>6
<1>11. Len(t) <= q /\ (Top.kind # "container" => Len(t) <= Top.limit)
  <2>1. MaxMembers \in Nat /\ MaxMembers <= q
    BY PlanFacts DEF q
  <2> QED BY <1>7, <1>8, <1>9, <1>10, <2>1 DEF MembersIn
<1>12. /\ FlattenSeq(a) \in Seq(Universe) /\ Len(FlattenSeq(a)) = Len(a) * U
       /\ FlattenSeq(t) \in Seq(Universe) /\ Len(FlattenSeq(t)) = Len(t) * U
  BY <1>5, <1>6, FlatChunks DEF Chunk
<1>13. OpenCells = FlattenSeq(a) \o FlattenSeq(t)
  BY <1>5, <1>6, FlatConcat DEF OpenCells, Chunk
<1>14. CeilDiv(Len(FlattenSeq(t)), U) = Len(t)
  <2> DEFINE k == Len(t)
  <2>1. k \in Nat
    BY <1>10
  <2> HIDE DEF k
  <2>2. CeilDiv(k * U, U) = k
    BY <2>1, CeilIs
  <2> QED BY <1>12, <2>2 DEF k
<1>15. HasherIndices(stack) => Top.hIndx = Len(FlattenSeq(a))
  <2>1. HasherIndices(stack) => stack[n].hIndx = Len(RootsUpTo(stack, n - 1)) * U
    BY <1>3 DEF HasherIndices, n
  <2> QED BY <1>1, <1>12, <2>1 DEF a, Around, n
<1>16. WrapperIndices(stack) => Top.wIndx = Len(a)
  <2>1. WrapperIndices(stack) => stack[n].wIndx = Len(RootsUpTo(stack, n - 1))
    BY <1>3 DEF WrapperIndices, n
  <2> QED BY <1>1, <2>1 DEF a, Around, n
<1> QED BY <1>1, <1>2, <1>4, <1>5, <1>6, <1>8, <1>10, <1>11, <1>12, <1>13, <1>14, <1>15, <1>16
        DEF a, t, n, q

(* The frame becomes a root behind the members of those around it.         *)
Shuts ==
    \E root \in Chunk :
       /\ stack' = AddRoot(Front(stack), root)
       /\ HasherAt(Universe, h', FlattenSeq(Around), root)
       /\ plan' = plan /\ ops' = ops /\ walks' = walks /\ done' = done
       /\ ~ OverLimit' /\ (w.stuck => w' = w)

LEMMA CloseIs ==
    ASSUME NEW hh, NEW ww, NEW limit, NEW num, NEW mixin, Close(hh, ww, limit, num, mixin),
           Len(Top.roots) \in Nat, limit \in Nat, Len(Top.roots) <= limit
    PROVE  ~ OverLimit' /\ (w.stuck => w' = w)
<1>1. closed' = [chunks |-> Top.roots, limit |-> limit, mixin |-> mixin]
  BY DEF Close
<1> DEFINE n == Len(Top.roots)
<1>2. closed'.limit = limit /\ closed'.chunks = Top.roots
  BY <1>1
<1>3. Len(closed'.chunks) = n
  BY <1>2
<1> HIDE DEF n
<1>4. n \in Nat /\ n <= limit
  BY DEF n
<1>5. \A j \in 1 .. n : ~ (j > limit)
  BY <1>4
<1>6. ~ OverLimit'
  BY <1>2, <1>3, <1>5 DEF OverLimit
<1> QED BY <1>6 DEF Close, Walks

(* What lies behind the frame's beginning.                                 *)
LEMMA BehindHere ==
    ASSUME PlanInv, StackInv, HasherInv, Top.kind # "result"
    PROVE  HasherAt(Universe, h, FlattenSeq(Around), FlattenSeq(Top.roots))
<1> DEFINE b == FlattenSeq(Around)
           t == FlattenSeq(Top.roots)
<1>1. OpenCells = b \o t /\ b \in Seq(Universe) /\ t \in Seq(Universe)
  BY FrameHere
<1>2. HasherAt(Universe, h, OpenCells, << >>)
  BY DEF HasherInv
<1> HIDE DEF b, t
<1>3. h.buf = OpenCells
  BY <1>2, StartAt
<1>4. h \in HasherOf(Universe) /\ h.panic = FALSE
  BY <1>2 DEF HasherAt
<1> QED BY <1>1, <1>3, <1>4 DEF HasherAt, b, t

LEMMA CloseContainerShuts ==
    ASSUME PlanInv, StackInv, HasherInv, CloseContainer
    PROVE  Shuts
<1> DEFINE cells == FlattenSeq(Top.roots)
           n == Len(Top.roots)
           b == FlattenSeq(Around)
           hh == Merkleize(h, Top.hIndx)
           root == Root(cells, n)
<1>0. Top.kind \in {"container", "vector"} /\ Top.kind # "result"
  BY DEF CloseContainer
<1>1. /\ stack' = AddRoot(Front(stack), root) /\ h' = hh
      /\ plan' = plan /\ ops' = ops /\ walks' = walks /\ done' = done
  BY DEF CloseContainer, Close
<1>2. /\ cells \in Seq(Universe) /\ Len(cells) = n * U /\ n \in Nat /\ n <= 2^MaxTreeDepth
      /\ CeilDiv(Len(cells), U) = n /\ Top.hIndx = Len(b)
  BY <1>0, FrameHere DEF HasherInv
<1>c. ~ OverLimit' /\ (w.stuck => w' = w)
  <2>1. Close(Merkleize(h, Top.hIndx), wMerkleize(w, Top.wIndx), n, 0, FALSE)
    BY DEF CloseContainer
  <2>2. n \in Nat /\ n <= n
    BY <1>2
  <2> QED BY <2>1, <2>2, CloseIs
<1>3. HasherAt(Universe, h, b, cells)
  BY <1>0, BehindHere
<1> HIDE DEF cells, n, b
<1>4. NothingLost(Len(cells))
  BY <1>2, LengthFacts
<1>5. CeilDiv(Len(cells), U) <= 2^MaxTreeDepth
  BY <1>2
<1>6. /\ HasherAt(Universe, Merkleize(h, Len(b)), b, Root(cells, CeilDiv(Len(cells), U)))
      /\ Root(cells, CeilDiv(Len(cells), U)) \in ChunkOf(Universe)
  BY <1>3, <1>4, <1>5, UniverseIs, MerkleizeStep
<1>7. HasherAt(Universe, hh, b, root) /\ root \in Chunk
  BY <1>2, <1>6 DEF Chunk
<1> HIDE DEF hh, root
<1> QED BY <1>1, <1>7, <1>c DEF Shuts, b

LEMMA CloseListShuts ==
    ASSUME PlanInv, StackInv, HasherInv, CloseList
    PROVE  Shuts
<1> DEFINE cells == FlattenSeq(Top.roots)
           n == Len(Top.roots)
           limit == Top.limit
           b == FlattenSeq(Around)
           m == Len(Around)
           hh == MerkleizeWithMixin(h, Top.hIndx, n, limit)
           root == hashPair(Root(cells, limit), LengthChunk(n))
<1>0. Top.kind # "container" /\ Top.kind # "result"
  BY DEF CloseList, ListKinds
<1>1. /\ stack' = AddRoot(Front(stack), root) /\ h' = hh
      /\ plan' = plan /\ ops' = ops /\ walks' = walks /\ done' = done
  BY DEF CloseList, Close
<1>2. /\ cells \in Seq(Universe) /\ n \in Nat /\ n <= limit
      /\ limit \in Nat /\ limit <= 2^MaxTreeDepth
      /\ CeilDiv(Len(cells), U) = n /\ Top.hIndx = Len(b) /\ m \in Nat /\ Len(b) = m * U
  BY <1>0, FrameHere DEF HasherInv
<1>c. ~ OverLimit' /\ (w.stuck => w' = w)
  <2>1. Close(MerkleizeWithMixin(h, Top.hIndx, n, limit),
              wMerkleizeWithMixin(w, Top.wIndx, n, limit), limit, n, TRUE)
    BY DEF CloseList
  <2> QED BY <1>2, <2>1, CloseIs
<1>3. HasherAt(Universe, h, b, cells)
  BY <1>0, BehindHere
<1> HIDE DEF cells, n, b, m, limit
<1>6. /\ HasherAt(Universe, MerkleizeWithMixin(h, Len(b), n, limit), b,
                  hashPair(Root(cells, limit), LengthChunk(n)))
      /\ hashPair(Root(cells, limit), LengthChunk(n)) \in ChunkOf(Universe)
  BY <1>2, <1>3, UniverseIs, MixinStep
<1>7. HasherAt(Universe, hh, b, root) /\ root \in Chunk
  BY <1>2, <1>6 DEF Chunk
<1> HIDE DEF hh, root
<1> QED BY <1>1, <1>7, <1>c DEF Shuts, b

(* The node of the frame goes on top of those of the frames around it.     *)
ShutsTree ==
    \E root \in Chunk, ns \in Seq(NodeOf(Universe)) :
       /\ stack' = AddRoot(Front(stack), root) /\ RootsOf(ns) = Around
       /\ Built(Universe, w', ns, root, closed'.chunks, closed'.limit, closed'.mixin)

(* A sequence is known by its items.                                       *)
LEMMA SameItems ==
    ASSUME NEW D, NEW s, NEW t, NEW n, s \in Seq(D), t \in Seq(D), Len(s) = n, Len(t) = n,
           \A i \in 1 .. n : s[i] = t[i]
    PROVE  s = t
OBVIOUS

(* A sequence whose image is in two parts is.                              *)
SplitAs(X, nodes, a, t) ==
    \E ns, rest \in Seq(NodeOf(X)) : nodes = ns \o rest /\ RootsOf(ns) = a /\ RootsOf(rest) = t

LEMMA RootsSplit ==
    ASSUME NEW X, NEW nodes, NEW a, NEW t, IsUniverse(X), nodes \in Seq(NodeOf(X)),
           a \in Seq(ChunkOf(X)), t \in Seq(ChunkOf(X)), RootsOf(nodes) = a \o t
    PROVE  SplitAs(X, nodes, a, t)
<1> DEFINE D == NodeOf(X)
           C == ChunkOf(X)
           k == Len(a)
           m == Len(t)
           ns == SubSeq(nodes, 1, k)
           rest == [i \in 1 .. m |-> nodes[k + i]]
<1>1. Len(RootsOf(nodes)) = Len(nodes) /\ \A i \in 1 .. Len(nodes) : RootsOf(nodes)[i] = nodes[i].root
  BY RootsOfIs
<1>2. nodes \in Seq(D) /\ a \in Seq(C) /\ t \in Seq(C)
  OBVIOUS
<1> HIDE DEF D, C
<1>3. /\ k \in Nat /\ m \in Nat /\ Len(a \o t) = k + m
      /\ \A i \in 1 .. k : (a \o t)[i] = a[i]
      /\ \A i \in 1 .. m : (a \o t)[k + i] = t[i]
  BY ONLY <1>2, PartsOfConcat
<1>4. Len(nodes) = k + m
  BY <1>1, <1>3
<1> HIDE DEF k, m
<1>5. ns \in Seq(D) /\ Len(ns) = k /\ \A i \in 1 .. k : ns[i] = nodes[i]
  BY <1>2, <1>3, <1>4
<1>6. rest \in Seq(D) /\ Len(rest) = m /\ \A i \in 1 .. m : rest[i] = nodes[k + i]
  <2>1. \A i \in 1 .. m : nodes[k + i] \in D
    <3>1. ASSUME NEW i \in 1 .. m PROVE k + i \in 1 .. Len(nodes)
      BY <1>3, <1>4
    <3> QED BY <1>2, <3>1
  <2> QED BY <1>3, <2>1
<1> HIDE DEF ns, rest
<1>7. nodes = ns \o rest
  <2>1. ns \o rest \in Seq(D) /\ Len(ns \o rest) = k + m
    <3>1. ns \in Seq(D) /\ rest \in Seq(D) /\ Len(ns) = k /\ Len(rest) = m
      BY <1>5, <1>6
    <3> QED BY ONLY <3>1
  <2>2. ASSUME NEW i \in 1 .. k + m PROVE nodes[i] = (ns \o rest)[i]
    <3>1. CASE i <= k
      BY <1>3, <1>5, <1>6, <3>1
    <3>2. CASE ~ (i <= k)
      <4>1. i - k \in 1 .. m /\ k + (i - k) = i
        BY <1>3, <3>2
      <4>2. (ns \o rest)[i] = rest[i - k]
        BY <1>3, <1>5, <1>6, <3>2
      <4>3. rest[i - k] = nodes[k + (i - k)]
        BY <1>6, <4>1
      <4> QED BY <4>1, <4>2, <4>3
    <3> QED BY <3>1, <3>2
  <2> DEFINE v == ns \o rest
  <2>3. v \in Seq(D) /\ Len(v) = Len(nodes) /\ \A i \in 1 .. Len(nodes) : nodes[i] = v[i]
    BY <1>4, <2>1, <2>2
  <2> HIDE DEF v
  <2>n. Len(nodes) = Len(nodes)
    OBVIOUS
  <2>4. nodes = v
    BY ONLY <1>2, <2>3, <2>n, SameItems
  <2> QED BY <2>4 DEF v
<1>8. RootsOf(ns) = a
  <2> DEFINE r == RootsOf(ns)
  <2>1. r \in Seq(C) /\ Len(r) = k /\ \A i \in 1 .. k : r[i] = ns[i].root
    BY <1>5, RootsOfIs DEF D, C
  <2>2. \A i \in 1 .. k : r[i] = a[i]
    <3>1. \A i \in 1 .. k : i \in 1 .. Len(nodes)
      BY <1>3, <1>4
    <3> QED BY <1>1, <1>3, <1>5, <2>1, <3>1
  <2> HIDE DEF r
  <2>l. Len(a) = k
    BY DEF k
  <2>3. r = a
    BY ONLY <1>2, <2>1, <2>2, <2>l, SameItems
  <2> QED BY <2>3 DEF r
<1>9. RootsOf(rest) = t
  <2> DEFINE r == RootsOf(rest)
  <2>1. r \in Seq(C) /\ Len(r) = m /\ \A i \in 1 .. m : r[i] = rest[i].root
    BY <1>6, RootsOfIs DEF D, C
  <2>2. \A i \in 1 .. m : r[i] = t[i]
    <3>1. ASSUME NEW i \in 1 .. m PROVE k + i \in 1 .. Len(nodes)
      BY <1>3, <1>4
    <3> QED BY <1>1, <1>3, <1>6, <2>1, <3>1
  <2> HIDE DEF r
  <2>l. Len(t) = m
    BY DEF m
  <2>3. r = t
    BY ONLY <1>2, <2>1, <2>2, <2>l, SameItems
  <2> QED BY <2>3 DEF r
<1> QED BY <1>5, <1>6, <1>7, <1>8, <1>9 DEF D, SplitAs

(* The nodes around the frame, and those of its members.                   *)
LEMMA NodesHere ==
    ASSUME PlanInv, StackInv, WrapperRuns, Top.kind # "result"
    PROVE  \E ns, rest \in Seq(NodeOf(Universe)) :
              /\ RootsOf(ns) = Around /\ RootsOf(rest) = Top.roots
              /\ Top.wIndx = Len(ns) /\ Len(rest) = Len(Top.roots)
              /\ Ready(Universe, Flushed(w), ns, rest)
<1>1. /\ Around \in Seq(ChunkOf(Universe)) /\ Top.roots \in Seq(ChunkOf(Universe))
      /\ RootsOf(w.nodes) = Around \o Top.roots /\ Top.wIndx = Len(Around)
      /\ w.nodes \in Seq(NodeOf(Universe))
  BY FrameHere, WrapperHere DEF WrapperRuns, Chunk
<1>2. PICK ns, rest \in Seq(NodeOf(Universe)) :
         w.nodes = ns \o rest /\ RootsOf(ns) = Around /\ RootsOf(rest) = Top.roots
  <2> DEFINE nodes == w.nodes
             a == Around
             t == Top.roots
  <2>1. /\ IsUniverse(Universe) /\ nodes \in Seq(NodeOf(Universe))
        /\ a \in Seq(ChunkOf(Universe)) /\ t \in Seq(ChunkOf(Universe))
        /\ RootsOf(nodes) = a \o t
    BY <1>1, UniverseIs
  <2> HIDE DEF nodes, a, t
  <2>2. SplitAs(Universe, nodes, a, t)
    BY ONLY <2>1, RootsSplit
  <2> QED BY <2>2 DEF SplitAs, nodes, a, t
<1>3. Len(RootsOf(ns)) = Len(ns) /\ Len(RootsOf(rest)) = Len(rest)
  BY UniverseIs, RootsOfIs
<1>4. Flushed(w) = w
  BY WrapperHere DEF Flushed
<1>5. WrapperAt(Universe, w, ns \o rest, << >>)
  BY <1>2, WrapperHere
<1>6. Ready(Universe, Flushed(w), ns, rest)
  BY <1>4, <1>5, UniverseIs DEF Ready
<1> QED BY <1>1, <1>2, <1>3, <1>6

LEMMA CloseContainerShutsTree ==
    ASSUME PlanInv, StackInv, WrapperRuns, CloseContainer
    PROVE  ShutsTree
<1> DEFINE cells == FlattenSeq(Top.roots)
           chunks == Top.roots
           n == Len(Top.roots)
           ww == wMerkleize(w, Top.wIndx)
           root == Root(cells, n)
<1>0. Top.kind # "result"
  BY DEF CloseContainer
<1>1. /\ stack' = AddRoot(Front(stack), root) /\ w' = ww
      /\ closed' = [chunks |-> chunks, limit |-> n, mixin |-> FALSE]
  <2>1. w' = Walks(ww)
    BY DEF CloseContainer, Close
  <2>2. w' = ww
    BY <2>1, WrapperHere DEF Walks
  <2> QED BY <2>2 DEF CloseContainer, Close
<1>2. closed'.chunks = chunks /\ closed'.limit = n /\ closed'.mixin = FALSE
  BY <1>1
<1>3. /\ cells \in Seq(Universe) /\ n \in Nat /\ n <= 2^MaxTreeDepth
      /\ chunks \in Seq(ChunkOf(Universe)) /\ Len(cells) = n * U
      /\ CeilDiv(Len(cells), U) = n
  BY <1>0, FrameHere DEF Chunk
<1>4. PICK ns, rest \in Seq(NodeOf(Universe)) :
         /\ RootsOf(ns) = Around /\ RootsOf(rest) = chunks
         /\ Top.wIndx = Len(ns) /\ Len(rest) = n
         /\ Ready(Universe, Flushed(w), ns, rest)
  BY <1>0, NodesHere
<1>5. ww = Commit(Flushed(w), Len(ns))
  BY <1>4 DEF wMerkleize
<1>7. Padded(cells) = FlattenSeq(RootsOf(rest))
  <2>1. Padded(cells) = cells
    <3> HIDE DEF cells, n
    <3> QED BY <1>3, UniverseIs, PaddedIs
  <2> QED BY <1>4, <2>1
<1>l. Len(chunks) = n
  OBVIOUS
<1> DEFINE y == Flushed(w)
           m == Len(ns)
<1>m. ww = Commit(y, m)
  BY <1>5
<1> HIDE DEF n, ww, y, cells, m, chunks
<1>8. Shows(rest, chunks)
  BY <1>3, <1>4, <1>l, SameShows
<1>9. Built(Universe, Commit(y, m), ns, Root(cells, n), chunks, n, FALSE)
  <2>1. CASE n # 0
    <3>1. rest # << >>
      BY <1>4, <2>1
    <3>2. /\ Ready(Universe, y, ns, rest) /\ rest # << >> /\ n = Len(rest) /\ n <= 2^MaxTreeDepth
          /\ cells \in Seq(Universe) /\ Padded(cells) = FlattenSeq(RootsOf(rest))
          /\ chunks \in Seq(ChunkOf(Universe)) /\ Shows(rest, chunks)
      BY <1>3, <1>4, <1>7, <1>8, <3>1 DEF y
    <3>3. Built(Universe, Commit(y, Len(ns)), ns, Root(cells, n), chunks, n, FALSE)
      BY ONLY <3>2, CommitAt
    <3> QED BY <3>3 DEF m
  <2>2. CASE n = 0
    <3>1. Ready(Universe, y, ns, rest)
      BY <1>4 DEF y
    <3>2. TailNodes(y, Len(ns)) = rest
      BY <3>1, ReadyParts
    <3>3. rest = << >>
      BY <1>4, <2>2
    <3>4. Commit(y, m) = [y EXCEPT !.stuck = TRUE]
      BY <3>2, <3>3 DEF Commit, m
    <3>5. HasNoTree(n, FALSE)
      BY <2>2 DEF HasNoTree
    <3> DEFINE r == Root(cells, n)
    <3> HIDE DEF r
    <3>6. Built(Universe, [y EXCEPT !.stuck = TRUE], ns, r, chunks, n, FALSE)
      BY ONLY <3>1, <3>5, StuckAt
    <3> QED BY <3>4, <3>6 DEF r
  <2> QED BY <2>1, <2>2
<1>12. root \in Chunk
  <2>1. CeilDiv(Len(cells), U) <= n
    BY <1>3
  <2> QED BY <1>3, <2>1, UniverseIs, RootType DEF Chunk
<1> QED BY <1>1, <1>2, <1>4, <1>9, <1>12, <1>m DEF ShutsTree

LEMMA CloseListShutsTree ==
    ASSUME PlanInv, StackInv, WrapperRuns, CloseList
    PROVE  ShutsTree
<1> DEFINE cells == FlattenSeq(Top.roots)
           chunks == Top.roots
           n == Len(Top.roots)
           limit == Top.limit
           ww == wMerkleizeWithMixin(w, Top.wIndx, n, limit)
           root == hashPair(Root(cells, limit), LengthChunk(n))
<1>0. Top.kind # "container" /\ Top.kind # "result"
  BY DEF CloseList, ListKinds
<1>1. /\ stack' = AddRoot(Front(stack), root) /\ w' = ww
      /\ closed' = [chunks |-> chunks, limit |-> limit, mixin |-> TRUE]
  <2>1. w' = Walks(ww)
    BY DEF CloseList, Close
  <2>2. w' = ww
    BY <2>1, WrapperHere DEF Walks
  <2> QED BY <2>2 DEF CloseList, Close
<1>2. closed'.chunks = chunks /\ closed'.limit = limit /\ closed'.mixin = TRUE
  BY <1>1
<1>3. /\ cells \in Seq(Universe) /\ n \in Nat /\ n <= limit
      /\ limit \in Nat /\ limit <= 2^MaxTreeDepth
      /\ chunks \in Seq(ChunkOf(Universe)) /\ Len(cells) = n * U
      /\ CeilDiv(Len(cells), U) = n
  BY <1>0, FrameHere DEF Chunk
<1>4. PICK ns, rest \in Seq(NodeOf(Universe)) :
         /\ RootsOf(ns) = Around /\ RootsOf(rest) = chunks
         /\ Top.wIndx = Len(ns) /\ Len(rest) = n
         /\ Ready(Universe, Flushed(w), ns, rest)
  BY <1>0, NodesHere
<1>5. ww = CommitWithMixin(Flushed(w), Len(ns), n, limit)
  BY <1>4 DEF wMerkleizeWithMixin
<1>7. Padded(cells) = FlattenSeq(RootsOf(rest))
  <2>1. Padded(cells) = cells
    <3> HIDE DEF cells, n
    <3> QED BY <1>3, UniverseIs, PaddedIs
  <2> QED BY <1>4, <2>1
<1> DEFINE y == Flushed(w)
<1>n. Len(chunks) = n
  OBVIOUS
<1> HIDE DEF n, ww, y, cells, chunks, limit
<1>8. Shows(rest, chunks)
  BY <1>3, <1>4, <1>n, SameShows
<1>9. Len(rest) <= limit
  BY <1>3, <1>4
<1>10. /\ Ready(Universe, y, ns, rest) /\ limit \in Nat /\ limit <= 2^MaxTreeDepth /\ n \in Nat
       /\ Len(rest) <= limit
       /\ cells \in Seq(Universe) /\ Padded(cells) = FlattenSeq(RootsOf(rest))
       /\ chunks \in Seq(ChunkOf(Universe))
       /\ Shows(rest, chunks)
  BY <1>3, <1>4, <1>7, <1>8, <1>9 DEF y
<1>11. Built(Universe, CommitWithMixin(y, Len(ns), n, limit), ns,
             hashPair(Root(cells, limit), LengthChunk(n)), chunks, limit, TRUE)
  BY ONLY <1>10, CommitWithMixinAt
<1>12. root \in Chunk
  <2>1. CeilDiv(Len(cells), U) <= limit
    BY <1>3
  <2>2. Root(cells, limit) \in ChunkOf(Universe)
    BY <1>3, <2>1, UniverseIs, RootType
  <2> QED BY <1>3, <2>2, MixedType
<1> QED BY <1>1, <1>2, <1>4, <1>5, <1>11, <1>12 DEF ShutsTree, y

---------------------------------------------------------------------------
(***************************************************************************)
(* The invariant of the walk.                                              *)
(***************************************************************************)
(* The wrapper runs and has the members of what was merkleized last at     *)
(* their indices, or the tree is not built.                                *)
WrapperInv ==
    /\ w \in WrapperOf(Universe)
    /\ ~ w.stuck => /\ WrapperRuns /\ ~ NoTree
                    /\ HasMembers(Last(w.nodes), closed.chunks, closed.limit, closed.mixin)

RunInv == PlanInv /\ StackInv /\ HasherInv /\ WrapperInv /\ ~ OverLimit

(* A panic ends the walk, and no step follows.                             *)
Panicked == h.panic = TRUE /\ done = FALSE /\ TypeOK

WalkInv == RunInv \/ Panicked

(* What stops the walkers in one step.                                     *)
Stops     == ~ w.stuck => (w'.stuck <=> NoTree')
StopsHere == (~ h.panic => (h'.panic <=> OverLimit')) /\ Stops

(* What lies behind becomes part of what is below.                         *)
LEMMA Settled ==
    ASSUME NEW X, NEW hh, NEW b, NEW t, HasherAt(X, hh, b, t)
    PROVE  HasherAt(X, hh, b \o t, << >>)
<1>1. hh \in HasherOf(X) /\ b \in Seq(X) /\ t \in Seq(X) /\ hh.buf = b \o t /\ hh.panic = FALSE
  BY DEF HasherAt
<1> DEFINE c == b \o t
<1>2. c \in Seq(X)
  BY <1>1
<1>3. hh.buf = c
  BY <1>1
<1> HIDE DEF c
<1>4. c \o << >> = c /\ << >> \in Seq(X)
  BY <1>2, ConcatEmptySeq
<1> QED BY <1>1, <1>2, <1>3, <1>4 DEF HasherAt, c

LEMMA MemberAdded ==
    ASSUME NEW s, NEW root, root \in Chunk, IsStack(s, MaxMembers), HasRoom(s, MaxMembers),
           MaxMembers \in Nat, plan' = plan, HasherIndices(s), stack' = AddRoot(s, root),
           HasherAt(Universe, h', FlattenSeq(RootsUpTo(s, Len(s))), root)
    PROVE  StackInv' /\ HasherInv'
<1> DEFINE t == AddRoot(s, root)
           a == RootsUpTo(s, Len(s))
<1>1. IsStack(t, MaxMembers) /\ HasherIndices(t)
  BY AddRootStack
<1>2. StackInv'
  BY <1>1 DEF StackInv, MaxMembers
<1>3. /\ s \in Seq(FrameOf) /\ s # << >> /\ Len(s) \in 0 .. Len(s)
  <2>1. s \in Seq(FrameOf) /\ Len(s) >= 1
    BY DEF IsStack
  <2>2. Len(s) \in Nat
    BY <2>1
  <2> QED BY <2>1, <2>2
<1>4. Len(t) = Len(s) /\ RootsUpTo(t, Len(s)) = Append(a, root) /\ a \in Seq(Chunk)
  BY <1>3, AddRootIs, RootsUpToIs
<1>5. OpenCells' = FlattenSeq(Append(a, root))
  <2>1. OpenRoots' = RootsUpTo(stack', Len(stack'))
    BY DEF OpenRoots, RootsUpTo
  <2> QED BY <1>4, <2>1 DEF OpenCells
<1> HIDE DEF a
<1>6. FlattenSeq(Append(a, root)) = FlattenSeq(a) \o root
  BY <1>4, FlatOne DEF Chunk
<1>7. HasherAt(Universe, h', FlattenSeq(a) \o root, << >>)
  BY Settled DEF a
<1>8. HasherAt(Universe, h', OpenCells', << >>)
  BY <1>5, <1>6, <1>7
<1>9. HasherIndices(stack')
  BY <1>1
<1> QED BY <1>2, <1>8, <1>9 DEF HasherInv

LEMMA MemberBuilt ==
    ASSUME NEW s, NEW root, NEW ns, root \in Chunk, IsStack(s, MaxMembers),
           HasRoom(s, MaxMembers), MaxMembers \in Nat,
           WrapperIndices(s), stack' = AddRoot(s, root),
           ns \in Seq(NodeOf(Universe)), RootsOf(ns) = RootsUpTo(s, Len(s)),
           Built(Universe, w', ns, root, closed'.chunks, closed'.limit, closed'.mixin)
    PROVE  WrapperInv' /\ (w'.stuck <=> NoTree')
<1>0. HasNoTree(closed'.limit, closed'.mixin) <=> NoTree'
  BY DEF HasNoTree, NoTree
<1>1. CASE w' \in WrapperOf(Universe) /\ w'.stuck /\ HasNoTree(closed'.limit, closed'.mixin)
  BY <1>0, <1>1 DEF WrapperInv
<1>2. CASE ~ HasNoTree(closed'.limit, closed'.mixin) /\ \E node \in NodeOf(Universe) :
              /\ WrapperAt(Universe, w', Append(ns, node), << >>) /\ node.root = root
              /\ HasMembers(node, closed'.chunks, closed'.limit, closed'.mixin)
  <2>1. PICK node : /\ node \in NodeOf(Universe)
                    /\ WrapperAt(Universe, w', Append(ns, node), << >>) /\ node.root = root
                    /\ HasMembers(node, closed'.chunks, closed'.limit, closed'.mixin)
    BY <1>2
  <2> DEFINE t == AddRoot(s, root)
             v == Append(ns, node)
             a == RootsUpTo(s, Len(s))
             D == NodeOf(Universe)
  <2>2. w' \in WrapperOf(Universe) /\ w'.nodes = v /\ w'.stuck = FALSE
    BY <2>1, WrapperFields
  <2>3. WrapperAt(Universe, w', w'.nodes, << >>)
    BY <2>1, <2>2
  <2>4. Len(ns) \in Nat /\ v \in Seq(D) /\ Len(v) = Len(ns) + 1 /\ v[Len(ns) + 1] = node
        /\ \A i \in 1 .. Len(ns) : v[i] = ns[i]
    <3>1. ns \in Seq(D) /\ node \in D
      BY <2>1
    <3> HIDE DEF D
    <3> QED BY <3>1
  <2>5. Last(v) = node
    <3> HIDE DEF v
    <3> QED BY <2>4 DEF Last
  <2>6. RootsOf(v) = Append(a, root)
    <3> DEFINE C == ChunkOf(Universe)
               r == RootsOf(v)
               e == Append(a, root)
               n == Len(ns)
    <3>1. r \in Seq(C) /\ Len(r) = Len(v) /\ \A i \in 1 .. Len(v) : r[i] = v[i].root
      BY <2>4, UniverseIs, RootsOfIs
    <3>2. a \in Seq(C) /\ Len(a) = n /\ \A i \in 1 .. n : a[i] = ns[i].root
      BY UniverseIs, RootsOfIs
    <3>3. root \in C
      BY DEF Chunk
    <3> HIDE DEF a, C, r, v
    <3>4. e \in Seq(C) /\ Len(e) = n + 1 /\ e[n + 1] = root /\ \A i \in 1 .. n : e[i] = a[i]
      <4>1. n \in Nat
        BY <2>4
      <4> HIDE DEF n
      <4>2. e \in Seq(C) /\ Len(e) = n + 1
        BY ONLY <3>2, <3>3, <4>1
      <4>3. e[n + 1] = root /\ \A i \in 1 .. n : e[i] = a[i]
        BY ONLY <3>2, <3>3, <4>1
      <4> QED BY <4>2, <4>3
    <3> HIDE DEF e, n
    <3>5. \A i \in 1 .. n + 1 : r[i] = e[i]
      <4>1. n \in Nat
        BY <2>4 DEF n
      <4>2. ASSUME NEW i \in 1 .. n + 1 PROVE r[i] = e[i]
        <5>1. CASE i = n + 1
          BY <2>1, <2>4, <3>1, <3>4, <5>1 DEF n
        <5>2. CASE i # n + 1
          <6>1. i \in 1 .. n
            BY <4>1, <5>2
          <6> QED BY <2>4, <3>1, <3>2, <3>4, <6>1 DEF n
        <5> QED BY <5>1, <5>2
      <4> QED BY <4>2
    <3>6. Len(r) = n + 1
      BY <2>4, <3>1 DEF n
    <3>7. r = e
      BY ONLY <3>1, <3>4, <3>5, <3>6, SameItems
    <3> QED BY <3>7 DEF r, e
  <2>7. s \in Seq(FrameOf) /\ s # << >>
    BY DEF IsStack
  <2>8. Len(t) = Len(s) /\ RootsUpTo(t, Len(s)) = Append(a, root)
    BY <2>7, AddRootIs
  <2>9. OpenRoots' = RootsUpTo(stack', Len(stack'))
    BY DEF OpenRoots, RootsUpTo
  <2>10. RootsOf(w'.nodes) = OpenRoots'
    BY <2>2, <2>6, <2>8, <2>9
  <2>11. WrapperIndices(stack')
    BY AddRootStack
  <2>12. WrapperRuns'
    BY <2>3, <2>10, <2>11 DEF WrapperRuns
  <2> HIDE DEF v
  <2> QED BY <1>0, <1>2, <2>1, <2>2, <2>5, <2>12 DEF WrapperInv
<1> QED BY <1>1, <1>2 DEF Built

(* Room in the innermost frame.                                            *)
LEMMA RoomHere ==
    ASSUME StackInv, Room, Top.kind # "result"
    PROVE  HasRoom(stack, MaxMembers)
<1>1. stack \in Seq(FrameOf) /\ Top = stack[Len(stack)]
  BY DEF StackInv, IsStack, Top, Last
<1> QED BY <1>1 DEF Room, HasRoom, MembersIn

LEMMA EmitStep ==
    ASSUME RunInv, Room, Top.kind # "result", ops < MaxOps, Emits, ~ w.stuck => Builds
    PROVE  RunInv' /\ Stops
<1>1. /\ IsStack(stack, MaxMembers) /\ HasRoom(stack, MaxMembers) /\ MaxMembers \in Nat
      /\ HasherIndices(stack)
  BY RoomHere, PlanFacts DEF RunInv, StackInv, HasherInv
<1>3. OpenRoots = RootsUpTo(stack, Len(stack))
  BY BufferIs DEF RunInv
<1>4. PlanInv'
  <2>1. plan' = plan /\ ops' = ops + 1 /\ walks' = walks /\ done' = done
    BY DEF Emits
  <2>2. MaxOps \in Nat /\ ops \in 0 .. MaxOps
    BY PlanFacts DEF RunInv, PlanInv
  <2>3. ops + 1 \in 0 .. MaxOps
    BY <2>2
  <2> QED BY <2>1, <2>3 DEF RunInv, PlanInv, MaxOps, MaxWalks
<1>5. StackInv' /\ HasherInv'
  <2>1. PICK root : /\ root \in Chunk /\ stack' = AddRoot(stack, root)
                    /\ HasherAt(Universe, h', OpenCells, root) /\ plan' = plan
    BY DEF Emits
  <2>2. HasherAt(Universe, h', FlattenSeq(RootsUpTo(stack, Len(stack))), root)
    BY <1>3, <2>1 DEF OpenCells
  <2> QED BY <1>1, <2>1, <2>2, MemberAdded
<1>6. CASE ~ w.stuck
  <2>1. PICK root : /\ root \in Chunk /\ stack' = AddRoot(stack, root)
                    /\ Built(Universe, w', w.nodes, root, closed'.chunks, closed'.limit, closed'.mixin)
    BY <1>6 DEF Builds
  <2>2. WrapperRuns
    BY <1>6 DEF RunInv, WrapperInv
  <2>3. /\ w.nodes \in Seq(NodeOf(Universe)) /\ WrapperIndices(stack)
        /\ RootsOf(w.nodes) = RootsUpTo(stack, Len(stack))
    BY <1>3, <2>2, WrapperHere DEF WrapperRuns
  <2>4. WrapperInv' /\ (w'.stuck <=> NoTree')
    BY <1>1, <2>1, <2>3, MemberBuilt
  <2>5. ~ OverLimit'
    BY DEF Emits
  <2> QED BY <1>4, <1>5, <2>4, <2>5 DEF RunInv, Stops
<1>7. CASE w.stuck
  <2>1. w' = w /\ ~ OverLimit'
    BY <1>7 DEF Emits
  <2>2. WrapperInv'
    BY <1>7, <2>1 DEF RunInv, WrapperInv
  <2> QED BY <1>4, <1>5, <1>7, <2>1, <2>2 DEF RunInv, Stops
<1> QED BY <1>6, <1>7

LEMMA CloseStep ==
    ASSUME RunInv, Top.kind # "result", Shuts, ~ w.stuck => ShutsTree
    PROVE  RunInv' /\ Stops
<1> DEFINE s == Front(stack)
<1>1. MaxMembers \in Nat
  BY PlanFacts DEF RunInv
<1>3. /\ Len(stack) # 1 /\ Len(stack) \in Nat /\ Len(stack) >= 1
  BY FrameHere DEF RunInv
<1>4. /\ IsStack(s, MaxMembers) /\ HasRoom(s, MaxMembers) /\ Len(s) = Len(stack) - 1
      /\ \A i \in 0 .. Len(stack) - 1 : RootsUpTo(s, i) = RootsUpTo(stack, i)
      /\ HasherIndices(s) /\ (~ w.stuck => WrapperIndices(s))
  <2>1. /\ IsStack(stack, MaxMembers) /\ HasherIndices(stack)
        /\ ~ w.stuck => WrapperIndices(stack)
    BY DEF RunInv, StackInv, HasherInv, WrapperInv, WrapperRuns
  <2> QED BY <1>3, <2>1, FrontStack
<1> HIDE DEF s
<1>5. RootsUpTo(s, Len(s)) = Around
  <2>1. Len(stack) - 1 \in 0 .. Len(stack) - 1
    BY <1>3
  <2> QED BY <1>4, <2>1 DEF Around
<1>6. PlanInv'
  BY DEF Shuts, RunInv, PlanInv, MaxOps, MaxWalks
<1>7. StackInv' /\ HasherInv'
  <2>1. PICK root : /\ root \in Chunk /\ stack' = AddRoot(s, root)
                    /\ HasherAt(Universe, h', FlattenSeq(Around), root) /\ plan' = plan
    BY DEF Shuts, s
  <2>2. HasherAt(Universe, h', FlattenSeq(RootsUpTo(s, Len(s))), root)
    BY <1>5, <2>1
  <2> QED BY <1>1, <1>4, <2>1, <2>2, MemberAdded
<1>8. CASE ~ w.stuck
  <2>1. PICK root, ns : /\ root \in Chunk /\ ns \in Seq(NodeOf(Universe))
                        /\ stack' = AddRoot(s, root) /\ RootsOf(ns) = Around
                        /\ Built(Universe, w', ns, root, closed'.chunks, closed'.limit,
                                 closed'.mixin)
    BY <1>8 DEF ShutsTree, s
  <2>2. RootsOf(ns) = RootsUpTo(s, Len(s))
    BY <1>5, <2>1
  <2>3. WrapperInv' /\ (w'.stuck <=> NoTree')
    BY <1>1, <1>4, <1>8, <2>1, <2>2, MemberBuilt
  <2>4. ~ OverLimit'
    BY DEF Shuts
  <2> QED BY <1>6, <1>7, <2>3, <2>4 DEF RunInv, Stops
<1>9. CASE w.stuck
  <2>1. w' = w /\ ~ OverLimit'
    BY <1>9 DEF Shuts
  <2>2. WrapperInv'
    BY <1>9, <2>1 DEF RunInv, WrapperInv
  <2> QED BY <1>6, <1>7, <1>9, <2>1, <2>2 DEF RunInv, Stops
<1> QED BY <1>8, <1>9

(* Nothing was merkleized last: nothing has its place.                     *)
LEMMA NoMembers ==
    ASSUME NEW node
    PROVE  HasMembers(node, NotClosed.chunks, NotClosed.limit, NotClosed.mixin)
<1>1. NotClosed.chunks = << >>
  BY DEF NotClosed
<1> QED BY <1>1 DEF HasMembers

LEMMA NothingClosed ==
    ASSUME closed' = NotClosed
    PROVE  ~ OverLimit' /\ ~ NoTree'
<1>1. closed'.chunks = << >> /\ closed'.limit = 1 /\ closed'.mixin = FALSE
  BY DEF NotClosed
<1>2. \A i \in 1 .. 0 : FALSE
  OBVIOUS
<1> QED BY <1>1, <1>2 DEF OverLimit, NoTree

LEMMA OpenStep ==
    ASSUME RunInv, Room, Top.kind # "result",
           NEW kind, NEW limit, kind \in Kinds, kind # "result", limit \in 0 .. 2^MaxTreeDepth,
           stack' = Append(stack, Frame(kind, Index(h), wIndex(w), limit)),
           closed' = NotClosed, UNCHANGED <<plan, h, w, ops, walks, done>>
    PROVE  RunInv' /\ Stops
<1> DEFINE fr == Frame(kind, Index(h), wIndex(w), limit)
           a == RootsUpTo(stack, Len(stack))
<1>1. /\ IsStack(stack, MaxMembers) /\ HasRoom(stack, MaxMembers) /\ MaxMembers \in Nat
      /\ HasherIndices(stack)
  BY RoomHere, PlanFacts DEF RunInv, StackInv, HasherInv
<1>2. w \in WrapperOf(Universe) /\ (~ w.stuck => WrapperRuns)
  BY DEF RunInv, WrapperInv
<1>3. OpenRoots = a /\ Len(a) \in Nat /\ Len(OpenCells) = Len(a) * U
  BY BufferIs DEF RunInv
<1>4. Index(h) = Len(a) * U
  BY <1>3, IndexHere DEF RunInv
<1>5. wIndex(w) \in Nat /\ (~ w.stuck => wIndex(w) = Len(a))
  <2>1. w.nodes \in Seq(NodeOf(Universe))
    BY <1>2 DEF WrapperOf
  <2>2. Len(RootsOf(w.nodes)) = Len(w.nodes)
    BY <2>1, UniverseIs, RootsOfIs
  <2>3. Len(w.nodes) \in Nat
    BY <2>1
  <2> QED BY <1>2, <1>3, <2>2, <2>3 DEF WrapperRuns, wIndex
<1> HIDE DEF a
<1>6. /\ fr \in FrameOf /\ fr.kind # "result" /\ fr.roots = << >>
      /\ fr.hIndx = Len(a) * U /\ (~ w.stuck => fr.wIndx = Len(a))
  <2>1. Len(a) * U \in Nat
    <3>1. U \in Nat
      BY ChunkAssumption
    <3> DEFINE k == Len(a)
    <3>2. k \in Nat
      BY <1>3
    <3> HIDE DEF k
    <3>3. k * U \in Nat
      BY <3>1, <3>2
    <3> QED BY <3>3 DEF k
  <2>2. fr = [kind |-> kind, hIndx |-> Index(h), wIndx |-> wIndex(w), limit |-> limit,
              roots |-> << >>]
    BY DEF Frame
  <2>3. << >> \in Seq(Chunk)
    OBVIOUS
  <2> DEFINE m == 2^MaxTreeDepth
             x == Index(h)
             y == wIndex(w)
             z == Len(a) * U
  <2> HIDE DEF m, x, y, z
  <2>4. x \in Nat /\ y \in Nat /\ x = z /\ (~ w.stuck => y = Len(a))
    BY <1>3, <1>4, <1>5, <2>1 DEF x, y, z
  <2> HIDE DEF fr
  <2>5. fr = [kind |-> kind, hIndx |-> x, wIndx |-> y, limit |-> limit, roots |-> << >>]
    BY <2>2 DEF x, y
  <2>6. fr \in [kind : Kinds, hIndx : Nat, wIndx : Nat, limit : 0 .. m, roots : Seq(Chunk)]
    BY <2>3, <2>4, <2>5 DEF m
  <2>7. fr.kind # "result" /\ fr.roots = << >> /\ fr.hIndx = z /\ (~ w.stuck => fr.wIndx = Len(a))
    BY <2>4, <2>5
  <2> QED BY <2>6, <2>7 DEF FrameOf, m, z
<1> HIDE DEF fr
<1>7. stack' = Append(stack, fr)
  BY DEF fr
<1> DEFINE t == Append(stack, fr)
<1>8. /\ IsStack(t, MaxMembers) /\ Len(t) = Len(stack) + 1
      /\ RootsUpTo(t, Len(stack) + 1) = a
      /\ HasherIndices(t) /\ (~ w.stuck /\ WrapperIndices(stack) => WrapperIndices(t))
  BY <1>1, <1>6, OpenStack DEF a
<1>9. OpenRoots' = OpenRoots
  <2>1. OpenRoots' = RootsUpTo(stack', Len(stack'))
    BY DEF OpenRoots, RootsUpTo
  <2> QED BY <1>3, <1>7, <1>8, <2>1
<1>10. PlanInv'
  BY DEF RunInv, PlanInv, MaxOps, MaxWalks
<1>11. StackInv'
  BY <1>7, <1>8 DEF StackInv, MaxMembers
<1>12. HasherInv'
  <2>1. OpenCells' = OpenCells
    BY <1>9 DEF OpenCells
  <2> QED BY <1>7, <1>8, <2>1 DEF RunInv, HasherInv
<1>n. ~ OverLimit' /\ ~ NoTree' /\ w' = w
  BY NothingClosed
<1>13. WrapperInv'
  <2>1. ~ w'.stuck => WrapperRuns'
    BY <1>2, <1>7, <1>8, <1>9, <1>n DEF WrapperRuns
  <2>2. HasMembers(Last(w'.nodes), closed'.chunks, closed'.limit, closed'.mixin)
    BY NoMembers
  <2>3. w' \in WrapperOf(Universe)
    BY <1>2, <1>n
  <2> QED BY <1>n, <2>1, <2>2, <2>3 DEF WrapperInv
<1> QED BY <1>10, <1>11, <1>12, <1>13, <1>n DEF RunInv, Stops

(* The frames a walk starts with.                                          *)
LEMMA StartStack ==
    ASSUME NEW s, NEW max, max \in Nat, NEW hh, Index(hh) = 0, s = RootFrames(hh)
    PROVE  IsStack(s, max) /\ HasherIndices(s) /\ WrapperIndices(s) /\ RootsUpTo(s, Len(s)) = << >>
<1> DEFINE f == Frame("result", 0, 0, 0)
           g == Frame("container", 0, 0, 0)
           q == 2^MaxTreeDepth
<1>1. s = <<f, g>>
  BY DEF RootFrames
<1>2. q \in Nat
  BY ChunkAssumption, TwoPowers
<1>3. 0 \in 0 .. q
  <2> HIDE DEF q
  <2> QED BY <1>2
<1>4. /\ f \in FrameOf /\ f.kind = "result" /\ f.roots = << >> /\ f.hIndx = 0 /\ f.wIndx = 0
      /\ g \in FrameOf /\ g.kind = "container" /\ g.roots = << >> /\ g.hIndx = 0 /\ g.wIndx = 0
  <2>1. << >> \in Seq(Chunk)
    OBVIOUS
  <2> HIDE DEF q
  <2> QED BY <1>3, <2>1 DEF Frame, FrameOf, Kinds, q
<1> HIDE DEF f, g, q
<1>5. s \in Seq(FrameOf) /\ Len(s) = 2 /\ s[1] = f /\ s[2] = g
  BY <1>1, <1>4
<1>6. RootsUpTo(s, 0) = << >> /\ RootsUpTo(s, 1) = << >> /\ RootsUpTo(s, 2) = << >>
  <2>1. << >> \o << >> = << >>
    OBVIOUS
  <2>2. RootsUpTo(s, 0) = << >>
    BY <1>5, RootsUpToIs
  <2>3. \A i \in 1 .. Len(s) : RootsUpTo(s, i) = RootsUpTo(s, i - 1) \o s[i].roots
    BY <1>5, RootsUpToIs
  <2>4. RootsUpTo(s, 1) = RootsUpTo(s, 0) \o s[1].roots
    <3>1. 1 \in 1 .. Len(s) /\ 1 - 1 = 0
      BY <1>5
    <3> QED BY <2>3, <3>1
  <2>5. RootsUpTo(s, 2) = RootsUpTo(s, 1) \o s[2].roots
    <3>1. 2 \in 1 .. Len(s) /\ 2 - 1 = 1
      BY <1>5
    <3> QED BY <2>3, <3>1
  <2> QED BY <1>4, <1>5, <2>1, <2>2, <2>4, <2>5
<1>7. Len(<< >>) = 0 /\ 0 * U = 0
  BY ChunkAssumption
<1>8. \A i \in 1 .. 2 : s[i].hIndx = 0 /\ s[i].wIndx = 0 /\ RootsUpTo(s, i - 1) = << >>
  <2>1. ASSUME NEW i \in 1 .. 2
        PROVE  s[i].hIndx = 0 /\ s[i].wIndx = 0 /\ RootsUpTo(s, i - 1) = << >>
    <3>1. CASE i = 1
      <4>1. i - 1 = 0
        BY <3>1
      <4> QED BY <1>4, <1>5, <1>6, <3>1, <4>1
    <3>2. CASE i = 2
      <4>1. i - 1 = 1
        BY <3>2
      <4> QED BY <1>4, <1>5, <1>6, <3>2, <4>1
    <3> QED BY <3>1, <3>2
  <2> QED BY <2>1
<1>9. HasherIndices(s) /\ WrapperIndices(s)
  BY <1>5, <1>7, <1>8 DEF HasherIndices, WrapperIndices
<1>10. \A i \in 2 .. 2 : s[i].kind # "result" /\ Len(s[i].roots) <= MembersIn(s[i], max)
  BY <1>4, <1>5, <1>7 DEF MembersIn
<1>11. IsStack(s, max)
  <2>1. \A i \in 2 .. Len(s) - 1 : FALSE
    BY <1>5
  <2> QED BY <1>4, <1>5, <1>10, <2>1 DEF IsStack
<1> QED BY <1>5, <1>6, <1>9, <1>11

LEMMA NewWrapperAt ==
    /\ WrapperAt(Universe, NewWrapper, << >>, << >>)
    /\ NewWrapper \in WrapperOf(Universe) /\ NewWrapper.stuck = FALSE
    /\ NewWrapper.nodes = << >> /\ RootsOf(<< >>) = << >>
<1>1. WrapperAt(Universe, NewWrapper, << >>, << >>)
  BY DEF NewWrapper, WrapperAt, IsWrapper
<1>2. RootsOf(<< >>) = << >>
  BY DEF RootsOf
<1> QED BY <1>1, <1>2, WrapperFields

LEMMA InitWalk ==
    ASSUME Init
    PROVE  RunInv
<1>1. /\ plan \in DOMAIN Plans /\ h = NewHasher /\ w = NewWrapper
      /\ stack = RootFrames(NewHasher) /\ ops = 0 /\ walks = 1 /\ done = FALSE
      /\ closed = NotClosed
  BY DEF Init
<1>2. MaxOps \in Nat /\ MaxWalks \in Nat \ {0} /\ MaxMembers \in Nat
  BY <1>1, PlansAssumption DEF MaxOps, MaxWalks, MaxMembers
<1>3. PlanInv
  <2>1. 0 \in 0 .. MaxOps /\ 1 \in 1 .. MaxWalks
    BY <1>2
  <2> QED BY <1>1, <2>1 DEF PlanInv
<1>4. Index(NewHasher) = 0
  BY DEF Index, NewHasher
<1>5. /\ IsStack(stack, MaxMembers) /\ HasherIndices(stack) /\ WrapperIndices(stack)
      /\ RootsUpTo(stack, Len(stack)) = << >>
  BY <1>1, <1>2, <1>4, StartStack
<1>6. OpenRoots = << >> /\ OpenCells = << >>
  <2>1. OpenRoots = << >>
    BY <1>5 DEF OpenRoots, RootsUpTo
  <2>2. FlattenSeq(<< >>) = << >>
    BY FlatOne
  <2> QED BY <2>1, <2>2 DEF OpenCells
<1>7. HasherAt(Universe, h, << >>, << >>)
  <2>1. h \in HasherOf(Universe) /\ h.buf = << >> /\ h.panic = FALSE
    BY <1>1 DEF NewHasher, HasherOf
  <2>2. << >> \in Seq(Universe) /\ << >> \o << >> = << >>
    OBVIOUS
  <2> QED BY <2>1, <2>2 DEF HasherAt
<1>8. WrapperRuns
  BY <1>1, <1>5, <1>6, NewWrapperAt DEF WrapperRuns
<1>n. ~ OverLimit /\ ~ NoTree
  <2>1. closed.chunks = << >> /\ closed.limit = 1 /\ closed.mixin = FALSE
    BY <1>1 DEF NotClosed
  <2>2. \A i \in 1 .. 0 : FALSE
    OBVIOUS
  <2> QED BY <2>1, <2>2 DEF OverLimit, NoTree
<1>9. WrapperInv
  BY <1>1, <1>8, <1>n, NewWrapperAt, NoMembers DEF WrapperInv
<1> QED BY <1>3, <1>5, <1>6, <1>7, <1>9, <1>n DEF RunInv, StackInv, HasherInv

(* A new walk, on what is left of the hasher.                              *)
LEMMA NextWalkStep ==
    ASSUME RunInv, NextWalk
    PROVE  RunInv' /\ Stops
<1>1. /\ walks < MaxWalks /\ walks' = walks + 1 /\ h' = Reset(h) /\ w' = NewWrapper
      /\ stack' = RootFrames(h') /\ done' = FALSE /\ closed' = NotClosed
      /\ plan' = plan /\ ops' = ops
  BY DEF NextWalk
<1>2. MaxWalks \in Nat \ {0} /\ MaxMembers \in Nat
  BY PlanFacts DEF RunInv
<1>3. PlanInv'
  <2>1. walks \in 1 .. MaxWalks
    BY DEF RunInv, PlanInv
  <2>2. walks + 1 \in 1 .. MaxWalks
    BY <1>1, <1>2, <2>1
  <2> QED BY <1>1, <2>2 DEF RunInv, PlanInv, MaxOps, MaxWalks
<1>4. h' \in HasherOf(Universe) /\ h'.buf = << >> /\ h'.panic = FALSE
  <2> DEFINE a == h.buf
             b == h.cap
             c == h.high
  <2>1. h \in HasherOf(Universe) /\ h.panic = FALSE
    BY DEF RunInv, HasherInv, HasherAt
  <2>2. /\ b \in Nat /\ c \in Nat /\ c <= b
        /\ h = [buf |-> a, cap |-> b, high |-> c, panic |-> h.panic]
    BY <2>1, HasherFields
  <2> DEFINE p == h.panic
             e == << >>
  <2>p. p \in BOOLEAN /\ p = FALSE
    BY <2>1
  <2>h. h = [buf |-> a, cap |-> b, high |-> c, panic |-> p]
    BY <2>2
  <2>r. h' = [h EXCEPT !.buf = e]
    BY <1>1 DEF Reset
  <2>e. e \in Seq(Universe) /\ Len(e) = 0
    OBVIOUS
  <2> HIDE DEF a, b, c, p, e
  <2>3. h' = [buf |-> e, cap |-> b, high |-> c, panic |-> p]
    BY <2>h, <2>r
  <2>4. Len(e) <= c
    BY <2>2, <2>e
  <2>5. [buf |-> e, cap |-> b, high |-> c, panic |-> p] \in HasherOf(Universe)
    BY <2>2, <2>4, <2>e, <2>p, HasherMade
  <2>6. h' \in HasherOf(Universe)
    BY <2>3, <2>5
  <2>7. h'.buf = e /\ h'.panic = p
    BY <2>3
  <2> QED BY <2>6, <2>7, <2>p DEF e
<1>5. Index(h') = 0
  BY <1>4 DEF Index
<1>6. /\ IsStack(stack', MaxMembers) /\ HasherIndices(stack') /\ WrapperIndices(stack')
      /\ RootsUpTo(stack', Len(stack')) = << >>
  <2> DEFINE s == stack'
             hh == h'
  <2>1. s = RootFrames(hh) /\ Index(hh) = 0
    BY <1>1, <1>5
  <2> HIDE DEF s, hh
  <2>2. /\ IsStack(s, MaxMembers) /\ HasherIndices(s) /\ WrapperIndices(s)
        /\ RootsUpTo(s, Len(s)) = << >>
    BY <1>2, <2>1, StartStack
  <2> QED BY <2>2 DEF s
<1>7. StackInv'
  BY <1>1, <1>6 DEF StackInv, MaxMembers
<1>8. OpenRoots' = << >> /\ OpenCells' = << >>
  <2>1. OpenRoots' = << >>
    BY <1>6 DEF OpenRoots, RootsUpTo
  <2>2. FlattenSeq(<< >>) = << >>
    BY FlatOne
  <2> QED BY <2>1, <2>2 DEF OpenCells
<1>9. HasherInv'
  <2>1. << >> \in Seq(Universe) /\ << >> \o << >> = << >>
    OBVIOUS
  <2>2. HasherAt(Universe, h', << >>, << >>)
    BY <1>4, <2>1 DEF HasherAt
  <2> QED BY <1>6, <1>8, <2>2 DEF HasherInv
<1>10. WrapperRuns'
  BY <1>1, <1>6, <1>8, NewWrapperAt DEF WrapperRuns
<1>n. ~ OverLimit' /\ ~ NoTree' /\ w'.stuck = FALSE
  BY <1>1, NothingClosed, NewWrapperAt
<1>11. WrapperInv'
  BY <1>1, <1>10, <1>n, NewWrapperAt, NoMembers DEF WrapperInv
<1> QED BY <1>3, <1>7, <1>9, <1>11, <1>n DEF RunInv, Stops

LEMMA FinishStep ==
    ASSUME RunInv, Finish
    PROVE  RunInv' /\ Stops
<1>1. done' = TRUE /\ UNCHANGED <<plan, h, w, stack, ops, walks, closed>>
  BY DEF Finish
<1>2. PlanInv' /\ StackInv' /\ HasherInv' /\ ~ OverLimit'
  BY <1>1 DEF RunInv, PlanInv, StackInv, HasherInv, MaxOps, MaxWalks, MaxMembers, OpenRoots,
              OpenCells, OverLimit
<1>3. WrapperInv' /\ (~ w.stuck => ~ w'.stuck /\ ~ NoTree')
  BY <1>1 DEF RunInv, WrapperInv, WrapperRuns, OpenRoots, NoTree
<1> QED BY <1>2, <1>3 DEF RunInv, Stops

LEMMA StutterStep ==
    ASSUME WalkInv, UNCHANGED vars
    PROVE  WalkInv'
<1>1. UNCHANGED <<plan, h, w, stack, ops, walks, done, closed>>
  BY DEF vars
<1>2. CASE RunInv
  <2>1. PlanInv' /\ StackInv' /\ HasherInv' /\ ~ OverLimit'
    BY <1>1, <1>2 DEF RunInv, PlanInv, StackInv, HasherInv, MaxOps, MaxWalks, MaxMembers,
                      OpenRoots, OpenCells, OverLimit
  <2>2. WrapperInv'
    BY <1>1, <1>2 DEF RunInv, WrapperInv, WrapperRuns, OpenRoots, NoTree
  <2> QED BY <2>1, <2>2 DEF RunInv, WalkInv
<1>3. CASE Panicked
  BY <1>1, <1>3 DEF Panicked, TypeOK, MaxOps, MaxWalks, WalkInv
<1> QED BY <1>2, <1>3 DEF WalkInv

(* More bits than the limit has room for: the hasher panics, and what else *)
(* is changed keeps its shape.                                             *)
LEMMA OverlongHasher ==
    ASSUME PlanInv, StackInv, HasherInv, NEW f \in Fields, PutBits(f), ~ Fits(f)
    PROVE  /\ h'.panic = TRUE /\ DOMAIN h' = {"buf", "cap", "high", "panic"}
           /\ Len(h'.buf) <= h'.high /\ h'.high <= h'.cap
<1> DEFINE b == Bits(f)
           limit == CeilDiv(f.cap, U)
           t == parseBitlist(b)
           m == Len(OpenRoots)
           a == AppendBytes32(h, t)
           x == FillUpTo32(a)
           k == CeilDiv(Len(t), U)
           i == Len(OpenCells)
<1>0. U \in Nat \ {0}
  BY ChunkAssumption
<1>1. limit \in Nat \ {0} /\ t \in Seq(Universe) /\ h' = PutBitlist(h, b, f.cap)
  BY BitsAre DEF Emit
<1>2. ~ (k <= limit)
  BY DEF Fits
<1>3. h' = MerkleizeWithMixin(a, i, Len(b), limit)
  BY <1>1, IndexHere DEF PutBitlist
<1> HIDE DEF t
<1>4. Len(t) \in Nat /\ k \in Nat
  <2>1. Len(t) \in Nat
    BY <1>1
  <2> QED BY <2>1, CeilIs
<1>5. m \in Nat /\ i = m * U /\ IsUniverse(Universe) /\ HasherAt(Universe, h, OpenCells, << >>)
  BY BufferIs, UniverseIs DEF HasherInv
<1>6. HasherAt(Universe, a, OpenCells, Padded(t))
  BY <1>1, <1>5, AppendsFrom
<1> HIDE DEF a
<1>7. HasherAt(Universe, x, OpenCells, Padded(Padded(t)))
  <2> HIDE DEF m, i
  <2>1. Len(OpenCells) = m * U
    BY <1>5 DEF i
  <2> QED BY <1>5, <1>6, <2>1, FillIs
<1>8. Padded(Padded(t)) = Padded(t) /\ Padded(t) \in Seq(Universe) /\ Len(Padded(t)) = k * U
  <2>1. Padded(t) \in Seq(Universe) /\ Len(Padded(t)) = k * U
    BY <1>1, <1>5, PaddedIs
  <2> DEFINE p == Padded(t)
  <2> HIDE DEF p, k
  <2>2. Padded(p) = p
    BY <1>4, <1>5, <2>1, PaddedIs DEF p
  <2> QED BY <2>1, <2>2 DEF p
<1>9. x \in HasherOf(Universe) /\ x.buf = OpenCells \o Padded(t) /\ OpenCells \in Seq(Universe)
  BY <1>7, <1>8 DEF HasherAt
<1> HIDE DEF x
<1>10. Len(x.buf) = i + k * U
  <2> HIDE DEF k
  <2> QED BY <1>8, <1>9, PartsOfConcat DEF i
<1>11. merkleizePanics(x, i, limit)
  <2>1. i \in Nat
    BY <1>9 DEF i
  <2> HIDE DEF i, k, limit
  <2> DEFINE z == k * U
  <2>2. z \in Nat /\ CeilDiv(z, U) = k
    BY <1>0, <1>4, CeilIs
  <2> HIDE DEF z
  <2>3. Len(x.buf) - i = z
    BY <1>10, <2>1, <2>2 DEF z
  <2>4. CeilDiv(Len(x.buf) - i, U) = k
    BY <2>2, <2>3
  <2>5. limit # 0 /\ k > limit
    BY <1>1, <1>2, <1>4
  <2> QED BY <2>4, <2>5 DEF merkleizePanics
<1>12. h' = [x EXCEPT !.panic = TRUE]
  BY <1>3, <1>11 DEF MerkleizeWithMixin, x
<1>13. /\ x = [buf |-> x.buf, cap |-> x.cap, high |-> x.high, panic |-> x.panic]
       /\ Len(x.buf) <= x.high /\ x.high <= x.cap
  BY <1>9, HasherFields
<1>14. h' = [buf |-> x.buf, cap |-> x.cap, high |-> x.high, panic |-> TRUE]
  BY <1>12, <1>13
<1> QED BY <1>13, <1>14

(* The last bit that is not trimmed lies beyond the limit.                 *)
LEMMA OverlongBits ==
    ASSUME PlanInv, NEW f \in Fields, PutBits(f), ~ Fits(f)
    PROVE  /\ OverLimit' /\ (NoTree' <=> HasNoTree(CeilDiv(f.cap, U), TRUE))
           /\ stack' = AddRoot(stack, hashPair(Root(Bits(f), CeilDiv(f.cap, U)),
                                               LengthChunk(Len(Bits(f)))))
<1> DEFINE b == Bits(f)
           limit == CeilDiv(f.cap, U)
           t == parseBitlist(b)
           l == Len(t)
           k == CeilDiv(l, U)
           c == ChunksOf(b)
<1>0. U \in Nat \ {0} /\ IsUniverse(Universe)
  BY ChunkAssumption, UniverseIs
<1>1. limit \in Nat \ {0} /\ b \in Seq(Universe) /\ Len(b) \in Nat /\ t \in Seq(Universe)
  BY BitsAre
<1>2. ~ (k <= limit)
  BY DEF Fits
<1>3. closed' = [chunks |-> c, limit |-> limit, mixin |-> TRUE]
  BY BitsAre DEF Emit, ChunksOf
<1>4. closed'.chunks = c /\ closed'.limit = limit /\ closed'.mixin = TRUE
  BY <1>3
<1>5. stack' = AddRoot(stack, hashPair(Root(b, limit), LengthChunk(Len(b))))
  BY BitsAre DEF Emit
<1>6. l \in Nat /\ l <= Len(b) /\ (l = 0 \/ b[l] # Zero)
  <2> HIDE DEF b
  <2>1. l <= Len(b) /\ (l = 0 \/ b[l] # Zero)
    BY <1>0, <1>1, TrimIs
  <2>2. l \in Nat
    BY <1>1
  <2> QED BY <2>1, <2>2
<1> HIDE DEF t, b, l
<1>7. k \in Nat /\ l <= k * U /\ k * U < l + U /\ k <= CeilDiv(Len(b), U) /\ (k = 0 <=> l = 0)
  BY <1>1, <1>6, CeilIs, CeilMonotone
<1> HIDE DEF k, limit
<1>8. k > limit /\ k # 0 /\ l # 0
  BY <1>1, <1>2, <1>7
<1>9. Len(c) = CeilDiv(Len(b), U) /\ \A j \in 1 .. Len(c) : c[j] = CellsAt(b, j - 1)
  BY <1>0, <1>1, ChunksOfIs
<1> HIDE DEF c
<1>10. k \in 1 .. Len(c)
  <2> DEFINE n == CeilDiv(Len(b), U)
  <2>1. n \in Nat
    BY <1>1, CeilIs
  <2> HIDE DEF n
  <2>2. k <= n /\ Len(c) = n
    BY <1>7, <1>9 DEF n
  <2> QED BY <1>7, <1>8, <2>1, <2>2
<1>11. CellsAt(b, k - 1) # ZeroChunk
  <2> DEFINE s == (k - 1) * U
             e == l - s
  <2>1. s \in Nat /\ k * U = s + U /\ k * U \in Nat
    <3>1. k - 1 \in Nat /\ U \in Nat
      BY <1>0, <1>7, <1>8
    <3>2. s \in Nat
      BY <3>1
    <3>3. k * U = s + U
      BY <1>7, <1>0
    <3> HIDE DEF s
    <3>4. s + U \in Nat
      BY <3>1, <3>2
    <3> QED BY <3>2, <3>3, <3>4
  <2> HIDE DEF s
  <2>2. e \in 1 .. U /\ s + e = l
    <3> DEFINE q == k * U
    <3>1. q = s + U /\ l <= q /\ q < l + U
      BY <1>7, <2>1
    <3> HIDE DEF q
    <3> QED BY <1>0, <1>6, <2>1, <3>1
  <2> HIDE DEF e
  <2>3. CellsAt(b, k - 1)[e] = b[l]
    <3>1. CellsAt(b, k - 1)[e] = IF s + e <= Len(b) THEN b[s + e] ELSE Zero
      BY <2>2 DEF CellsAt, s
    <3> QED BY <1>6, <2>2, <3>1
  <2>4. ZeroChunk[e] = Zero
    BY <2>2 DEF ZeroChunk, Zeros
  <2> QED BY <1>6, <1>8, <2>3, <2>4
<1>12. c[k] # ZeroChunk
  BY <1>9, <1>10, <1>11
<1>13. OverLimit'
  BY <1>4, <1>8, <1>10, <1>12 DEF OverLimit
<1>14. NoTree' <=> HasNoTree(limit, TRUE)
  BY <1>4 DEF NoTree, HasNoTree
<1> QED BY <1>5, <1>13, <1>14 DEF b, limit

(* What the wrapper does with bits that are too many: it makes a tree of   *)
(* them all the same, when the limit has one.                              *)
LEMMA OverlongTree ==
    ASSUME PlanInv, WrapperInv, NEW f \in Fields, PutBits(f)
    PROVE  /\ DOMAIN w' = {"nodes", "buf", "stuck"}
           /\ w'.stuck <=> w.stuck \/ HasNoTree(CeilDiv(f.cap, U), TRUE)
           /\ w.stuck => w' = w
<1> DEFINE b == Bits(f)
           limit == CeilDiv(f.cap, U)
           t == parseBitlist(b)
           num == Len(b)
           ns == w.nodes
           y == appendBytesAsNodes(w, t)
           vs == ns \o LeavesOf(t)
           e == << >>
<1>0. t \in Seq(Universe) /\ w' = Walks(wPutBitlist(w, t, num, f.cap))
  BY BitsAre DEF Emit
<1>1. CASE w.stuck
  <2>1. w' = w /\ w.stuck \in BOOLEAN /\ DOMAIN w = {"nodes", "buf", "stuck"}
    BY <1>0, <1>1 DEF Walks, WrapperInv, WrapperOf
  <2> QED BY <1>1, <2>1
<1>2. CASE ~ w.stuck
  <2>1. WrapperAt(Universe, w, ns, e)
    BY <1>2 DEF WrapperInv, WrapperRuns
  <2>2. w' = CommitWithMixin(y, Len(ns), num, limit)
    <3>1. wIndex(w) = Len(ns)
      BY <2>1, WrapperFields
    <3> QED BY <1>0, <1>2, <3>1 DEF Walks, wPutBitlist
  <2> HIDE DEF ns, t
  <2>3. WrapperAt(Universe, y, vs, e)
    BY <1>0, <2>1, UniverseIs, WrapperPuts
  <2> HIDE DEF vs, y, num, limit, e
  <2>4. IsWrapper(y, vs, e, FALSE)
    BY <2>3 DEF WrapperAt
  <2>5. CASE HasNoTree(limit, TRUE)
    <3>1. w' = WithStuck(y, TRUE)
      BY <2>2, <2>5 DEF CommitWithMixin, HasNoTree, WithStuck
    <3>2. IsWrapper(WithStuck(y, TRUE), vs, e, TRUE)
      BY ONLY <2>4, WrapperRecord
    <3>3. w' = [nodes |-> vs, buf |-> e, stuck |-> TRUE]
      BY <3>1, <3>2 DEF IsWrapper
    <3>4. DOMAIN w' = {"nodes", "buf", "stuck"} /\ w'.stuck = TRUE
      BY <3>3
    <3> QED BY <1>2, <2>5, <3>4 DEF limit
  <2>6. CASE ~ HasNoTree(limit, TRUE)
    <3> DEFINE c == SubSeq(y.nodes, 1, Len(ns))
               x == NewNodeWithLR(TreeFromNodes(TailNodes(y, Len(ns)), limit),
                                  Leaf(LengthChunk(num)))
               z == WithNodes(y, c)
               q == Append(z.nodes, x)
    <3>1. w' = AddNode(z, x)
      BY <2>2, <2>6 DEF CommitWithMixin, HasNoTree, WithNodes
    <3>2. w' = WithNodes(z, q)
      BY <3>1 DEF AddNode, WithNodes
    <3> HIDE DEF c, x, q
    <3>3. IsWrapper(z, c, e, FALSE)
      BY ONLY <2>4, WrapperRecord DEF z
    <3> HIDE DEF z
    <3>4. IsWrapper(WithNodes(z, q), q, e, FALSE)
      BY ONLY <3>3, WrapperRecord
    <3>5. w' = [nodes |-> q, buf |-> e, stuck |-> FALSE]
      BY <3>2, <3>4 DEF IsWrapper
    <3>6. DOMAIN w' = {"nodes", "buf", "stuck"} /\ w'.stuck = FALSE
      BY <3>5
    <3> QED BY <1>2, <2>6, <3>6 DEF limit
  <2> QED BY <2>5, <2>6
<1> QED BY <1>1, <1>2

(* A root of any kind on the innermost frame.                              *)
LEMMA AddRootKinds ==
    ASSUME NEW s, NEW root, s \in Seq(FrameOf), s # << >>
    PROVE  \A i \in 1 .. Len(AddRoot(s, root)) : AddRoot(s, root)[i].kind \in Kinds
<1> DEFINE n == Len(s)
           last == s[n]
           new == [last EXCEPT !.roots = Append(last.roots, root)]
           S == FrameOf \cup {new}
           t == AddRoot(s, root)
<1>1. n \in Nat /\ n \in 1 .. n /\ \A i \in 1 .. n : s[i] \in FrameOf
  OBVIOUS
<1>2. last \in FrameOf
  BY <1>1
<1>3. new.kind \in Kinds
  <2> DEFINE r == Append(last.roots, root)
  <2> HIDE DEF last, r
  <2>1. /\ last = [kind |-> last.kind, hIndx |-> last.hIndx, wIndx |-> last.wIndx,
                   limit |-> last.limit, roots |-> last.roots]
        /\ last.kind \in Kinds
    BY <1>2 DEF FrameOf
  <2>2. [last EXCEPT !.roots = r].kind = last.kind
    BY <2>1
  <2> QED BY <2>1, <2>2 DEF r
<1>4. t = [s EXCEPT ![n] = new] /\ DOMAIN s = 1 .. n
  BY DEF AddRoot
<1> HIDE DEF new, t, last, S
<1>5. t = [i \in 1 .. n |-> IF i = n THEN new ELSE s[i]]
  <2> HIDE DEF n
  <2>1. [s EXCEPT ![n] = new] = [i \in DOMAIN s |-> IF i = n THEN new ELSE s[i]]
    OBVIOUS
  <2> QED BY ONLY <1>4, <2>1
<1>6. t \in [1 .. n -> S]
  BY <1>1, <1>5 DEF S
<1> HIDE DEF n
<1>7. Len(t) = n
  BY <1>1, <1>6, FunctionIsSeq
<1>8. ASSUME NEW i \in 1 .. n PROVE t[i].kind \in Kinds
  <2>1. CASE i = n
    BY <1>3, <1>5, <2>1
  <2>2. CASE i # n
    <3>1. t[i] = s[i] /\ s[i] \in FrameOf
      BY <1>1, <1>5, <2>2
    <3> QED BY <3>1, FrameFields
  <2> QED BY <2>1, <2>2
<1> QED BY <1>7, <1>8 DEF t

LEMMA OverlongStep ==
    ASSUME RunInv, NEW f \in Fields, PutBits(f), ~ Fits(f)
    PROVE  WalkInv' /\ StopsHere
<1> DEFINE root == hashPair(Root(Bits(f), CeilDiv(f.cap, U)), LengthChunk(Len(Bits(f))))
<1>1. PlanInv /\ StackInv /\ HasherInv /\ WrapperInv
  BY DEF RunInv
<1>2. /\ done = FALSE /\ ops < MaxOps /\ ops' = ops + 1
      /\ plan' = plan /\ walks' = walks /\ done' = done
  <2>1. Running /\ ops < MaxOps
    BY DEF PutBits, CanEmit
  <2>2. done \in BOOLEAN
    BY <1>1 DEF PlanInv
  <2>3. ops' = ops + 1 /\ plan' = plan /\ walks' = walks /\ done' = done
    BY <1>1, BitsAre DEF Emit
  <2> QED BY <2>1, <2>2, <2>3 DEF Running
<1>3. /\ h'.panic = TRUE /\ DOMAIN h' = {"buf", "cap", "high", "panic"}
      /\ Len(h'.buf) <= h'.high /\ h'.high <= h'.cap
  BY <1>1, OverlongHasher
<1>4. OverLimit' /\ (NoTree' <=> HasNoTree(CeilDiv(f.cap, U), TRUE)) /\ stack' = AddRoot(stack, root)
  BY <1>1, OverlongBits
<1>5. /\ DOMAIN w' = {"nodes", "buf", "stuck"}
      /\ w'.stuck <=> w.stuck \/ HasNoTree(CeilDiv(f.cap, U), TRUE)
  BY <1>1, OverlongTree
<1>6. \A i \in 1 .. Len(stack') :
         stack'[i].kind \in {"result", "container", "vector"} \cup ListKinds
  <2>1. stack \in Seq(FrameOf) /\ stack # << >>
    BY <1>1 DEF StackInv, IsStack
  <2> HIDE DEF root
  <2>2. \A i \in 1 .. Len(stack') : stack'[i].kind \in Kinds
    BY <1>4, <2>1, AddRootKinds
  <2>3. Kinds = {"result", "container", "vector"} \cup ListKinds
    BY DEF Kinds, ListKinds
  <2> QED BY <2>2, <2>3
<1>7. ops' \in 0 .. MaxOps' /\ walks' \in 1 .. MaxWalks' /\ done' \in BOOLEAN
  <2>1. MaxOps' = MaxOps /\ MaxWalks' = MaxWalks
    BY <1>2 DEF MaxOps, MaxWalks
  <2>2. ops \in 0 .. MaxOps /\ walks \in 1 .. MaxWalks /\ MaxOps \in Nat
    BY <1>1, PlanFacts DEF PlanInv
  <2>3. ops + 1 \in 0 .. MaxOps
    BY <1>2, <2>2
  <2> QED BY <1>2, <2>1, <2>2, <2>3
<1>8. TypeOK'
  BY <1>3, <1>5, <1>6, <1>7 DEF TypeOK
<1> QED BY <1>2, <1>3, <1>4, <1>5, <1>8 DEF WalkInv, Panicked, StopsHere, Stops

(* The hasher of a walk that goes on has not panicked.                     *)
LEMMA StepOn ==
    ASSUME RunInv', Stops
    PROVE  WalkInv' /\ StopsHere
<1>1. h'.panic = FALSE /\ ~ OverLimit'
  BY DEF RunInv, HasherInv, HasherAt
<1> QED BY <1>1 DEF WalkInv, StopsHere

LEMMA NextStep ==
    ASSUME NoVectorLost, RunInv, Next
    PROVE  WalkInv' /\ StopsHere
<1>0. PlanInv /\ StackInv /\ HasherInv
  BY DEF RunInv
<1>w. ~ w.stuck => WrapperRuns
  BY DEF RunInv, WrapperInv
<1>1. ASSUME NEW f \in Fields, PutUint(f) PROVE WalkInv' /\ StopsHere
  <2>1. Top.kind = "container" /\ Room /\ ops < MaxOps
    BY <1>1 DEF PutUint, CanEmit
  <2>2. Emits /\ (~ w.stuck => Builds)
    BY <1>0, <1>w, <1>1, <2>1, PutUintEmits, PutUintBuilds
  <2> QED BY <2>1, <2>2, EmitStep, StepOn
<1>2. ASSUME NEW f \in Fields, PutFixedBytes(f) PROVE WalkInv' /\ StopsHere
  <2>1. Top.kind \in {"container", "byteVectors", "vector"} /\ Room /\ ops < MaxOps
    BY <1>2 DEF PutFixedBytes, CanEmit
  <2>2. Emits /\ (~ w.stuck => Builds)
    BY <1>0, <1>w, <1>2, <2>1, PutFixedBytesEmits, PutFixedBytesBuilds
  <2> QED BY <2>1, <2>2, EmitStep, StepOn
<1>3. ASSUME NEW f \in Fields, PutDynamicBytes(f) PROVE WalkInv' /\ StopsHere
  <2>1. Top.kind \in {"container", "byteLists"} /\ Room /\ ops < MaxOps
    BY <1>3 DEF PutDynamicBytes, CanEmit
  <2>2. Emits /\ (~ w.stuck => Builds)
    BY <1>0, <1>w, <1>3, <2>1, PutDynamicBytesEmits, PutDynamicBytesBuilds
  <2> QED BY <2>1, <2>2, EmitStep, StepOn
<1>4. ASSUME NEW f \in Fields, PutBits(f) PROVE WalkInv' /\ StopsHere
  <2>1. Top.kind = "container" /\ Room /\ ops < MaxOps
    BY <1>4 DEF PutBits, CanEmit
  <2>2. CASE Fits(f)
    <3>1. Emits /\ (~ w.stuck => Builds)
      BY <1>0, <1>w, <1>4, <2>2, PutBitsEmits, PutBitsBuilds
    <3> QED BY <2>1, <3>1, EmitStep, StepOn
  <2>3. CASE ~ Fits(f)
    BY <1>4, <2>3, OverlongStep
  <2> QED BY <2>2, <2>3
<1>5. ASSUME NEW f \in Fields, PutUintVector(f) PROVE WalkInv' /\ StopsHere
  <2>1. Top.kind = "container" /\ Room /\ ops < MaxOps
    BY <1>5 DEF PutUintVector, CanEmit
  <2>2. Emits /\ (~ w.stuck => Builds)
    BY <1>0, <1>w, <1>5, <2>1, PutUintVectorEmits, PutUintVectorBuilds
  <2> QED BY <2>1, <2>2, EmitStep, StepOn
<1>6. ASSUME NEW f \in Fields, PutUintList(f) PROVE WalkInv' /\ StopsHere
  <2>1. Top.kind = "container" /\ Room /\ ops < MaxOps
    BY <1>6 DEF PutUintList, CanEmit
  <2>2. Emits /\ (~ w.stuck => Builds)
    BY <1>0, <1>w, <1>6, <2>1, PutUintListEmits, PutUintListBuilds
  <2> QED BY <2>1, <2>2, EmitStep, StepOn
<1>7. ASSUME NEW f \in Fields, PutRoots(f) PROVE WalkInv' /\ StopsHere
  <2>1. Top.kind = "container" /\ Room /\ ops < MaxOps
    BY <1>7 DEF PutRoots, CanEmit
  <2>2. Emits /\ (~ w.stuck => Builds)
    BY <1>0, <1>w, <1>7, <2>1, PutRootsEmits, PutRootsBuilds
  <2> QED BY <2>1, <2>2, EmitStep, StepOn
<1>8. ASSUME NEW f \in Fields, PutRootList(f) PROVE WalkInv' /\ StopsHere
  <2>1. Top.kind = "container" /\ Room /\ ops < MaxOps
    BY <1>8 DEF PutRootList, CanEmit
  <2>2. Emits /\ (~ w.stuck => Builds)
    BY <1>0, <1>w, <1>8, <2>1, PutRootListEmits, PutRootListBuilds
  <2> QED BY <2>1, <2>2, EmitStep, StepOn
<1>9. CASE OpenContainer
  <2>1. /\ Room /\ Top.kind # "result"
        /\ stack' = Append(stack, Frame("container", Index(h), wIndex(w), 0))
        /\ closed' = NotClosed /\ UNCHANGED <<plan, h, w, ops, walks, done>>
    BY <1>9 DEF OpenContainer
  <2>2. "container" \in Kinds /\ "container" # "result"
    BY DEF Kinds
  <2>3. 0 \in 0 .. 2^MaxTreeDepth
    <3> DEFINE q == 2^MaxTreeDepth
    <3>1. q \in Nat
      BY ChunkAssumption, TwoPowers
    <3> HIDE DEF q
    <3>2. 0 \in 0 .. q
      BY <3>1
    <3> QED BY <3>2 DEF q
  <2> DEFINE k == "container"
             z == 0
  <2>4. /\ RunInv /\ Room /\ Top.kind # "result"
        /\ stack' = Append(stack, Frame(k, Index(h), wIndex(w), z))
        /\ closed' = NotClosed /\ UNCHANGED <<plan, h, w, ops, walks, done>>
        /\ k \in Kinds /\ k # "result" /\ z \in 0 .. 2^MaxTreeDepth
    BY <2>1, <2>2, <2>3
  <2> HIDE DEF k, z
  <2> QED BY ONLY <2>4, OpenStep, StepOn
<1>10. ASSUME NEW kind \in ListKinds \cup {"vector"}, NEW limit \in ListLimits,
              OpenList(kind, limit)
       PROVE  WalkInv' /\ StopsHere
  <2>1. /\ Room /\ Top.kind # "result"
        /\ stack' = Append(stack, Frame(kind, Index(h), wIndex(w), limit))
        /\ closed' = NotClosed /\ UNCHANGED <<plan, h, w, ops, walks, done>>
    BY <1>10 DEF OpenList
  <2>2. kind \in Kinds /\ kind # "result"
    BY DEF Kinds, ListKinds
  <2>3. limit \in 0 .. 2^MaxTreeDepth
    <3> DEFINE q == 2^MaxTreeDepth
    <3>1. q \in Nat /\ limit \in Nat /\ limit <= q
      BY <1>0, ChunkAssumption, TwoPowers, PlanFacts
    <3> HIDE DEF q
    <3>2. limit \in 0 .. q
      BY <3>1
    <3> QED BY <3>2 DEF q
  <2>4. /\ RunInv /\ Room /\ Top.kind # "result"
        /\ stack' = Append(stack, Frame(kind, Index(h), wIndex(w), limit))
        /\ closed' = NotClosed /\ UNCHANGED <<plan, h, w, ops, walks, done>>
        /\ kind \in Kinds /\ kind # "result" /\ limit \in 0 .. 2^MaxTreeDepth
    BY <2>1, <2>2, <2>3
  <2> QED BY ONLY <2>4, OpenStep, StepOn
<1>11. CASE CloseContainer
  <2>1. Top.kind # "result"
    BY <1>11 DEF CloseContainer
  <2>2. Shuts /\ (~ w.stuck => ShutsTree)
    BY <1>0, <1>w, <1>11, <2>1, CloseContainerShuts, CloseContainerShutsTree
  <2> QED BY <2>1, <2>2, CloseStep, StepOn
<1>12. CASE CloseList
  <2>1. Top.kind # "result"
    BY <1>12 DEF CloseList, ListKinds
  <2>2. Shuts /\ (~ w.stuck => ShutsTree)
    BY <1>0, <1>w, <1>12, <2>1, CloseListShuts, CloseListShutsTree
  <2> QED BY <2>1, <2>2, CloseStep, StepOn
<1>13. CASE Finish
  BY <1>13, FinishStep, StepOn
<1>14. CASE NextWalk
  BY <1>14, NextWalkStep, StepOn
<1> QED BY <1>1, <1>2, <1>3, <1>4, <1>5, <1>6, <1>7, <1>8, <1>9, <1>10, <1>11, <1>12, <1>13, <1>14
        DEF Next

(* Nothing happens after a panic.                                          *)
LEMMA PanicEnds ==
    ASSUME Panicked
    PROVE  ~ Next
<1>1. ~ Running /\ ~ done
  BY DEF Panicked, Running
<1> QED BY <1>1 DEF Next, PutUint, PutFixedBytes, PutDynamicBytes, PutBits, PutUintVector,
              PutUintList, PutRoots, PutRootList, CanEmit, OpenContainer, OpenList,
              CloseContainer, CloseList, Finish, NextWalk

(* The invariant: what every frame that is open has collected is on both   *)
(* walkers, in the same order and nothing else, and every frame knows      *)
(* where on each of them it begins.                                        *)
LEMMA WalkInvariant ==
    ASSUME NoVectorLost
    PROVE  Spec => []WalkInv
<1>1. Init => WalkInv
  BY InitWalk DEF WalkInv
<1>2. WalkInv /\ [Next]_vars => WalkInv'
  BY NextStep, PanicEnds, StutterStep DEF WalkInv
<1> QED BY <1>1, <1>2, PTL DEF Spec

LEMMA WalkInvMeans ==
    ASSUME WalkInv
    PROVE  /\ TypeOK /\ HasherHoldsSSZRoots /\ WrapperHoldsSSZRoots
           /\ MembersAtTheirIndices
<1>p. CASE Panicked
  BY <1>p DEF Panicked, HasherHoldsSSZRoots, WrapperHoldsSSZRoots, MembersAtTheirIndices
<1>r. CASE RunInv
  <2>0. /\ PlanInv /\ StackInv /\ HasherInv /\ WrapperInv
        /\ HasherAt(Universe, h, OpenCells, << >>) /\ stack \in Seq(FrameOf)
    BY <1>r DEF RunInv, HasherInv, StackInv, IsStack
  <2>1. h \in HasherOf(Universe) /\ h.panic = FALSE /\ h.buf = OpenCells
    <3>1. h \in HasherOf(Universe) /\ h.panic = FALSE
      BY <2>0 DEF HasherAt
    <3> QED BY <2>0, <3>1, StartAt
  <2>2. w \in WrapperOf(Universe)
    BY <2>0 DEF WrapperInv
  <2>3. TypeOK
    <3>1. DOMAIN h = {"buf", "cap", "high", "panic"} /\ Len(h.buf) <= h.high /\ h.high <= h.cap
      BY <2>1, HasherFields
    <3>2. DOMAIN w = {"nodes", "buf", "stuck"} /\ w.nodes \in Seq(NodeOf(Universe))
      BY <2>2 DEF WrapperOf
    <3>3. \A i \in 1 .. Len(w.nodes) : Len(w.nodes[i].root) = U
      <4>1. \A c \in ChunkOf(Universe) : Len(c) = U
        BY FlatOne
      <4>2. ASSUME NEW i \in 1 .. Len(w.nodes) PROVE w.nodes[i].root \in ChunkOf(Universe)
        BY <3>2, UniverseIs, RootsOfIs
      <4> QED BY <4>1, <4>2
    <3>4. ASSUME NEW i \in 1 .. Len(stack)
          PROVE  stack[i].kind \in {"result", "container", "vector"} \cup ListKinds
      <4>1. stack[i] \in FrameOf
        BY <2>0
      <4> QED BY <4>1, FrameFields DEF Kinds, ListKinds
    <3>5. ops \in 0 .. MaxOps /\ walks \in 1 .. MaxWalks /\ done \in BOOLEAN
      BY <2>0 DEF PlanInv
    <3> QED BY <3>1, <3>2, <3>3, <3>4, <3>5 DEF TypeOK
  <2>4. HasherHoldsSSZRoots
    BY <2>1 DEF HasherHoldsSSZRoots, OpenCells
  <2>5. WrapperHoldsSSZRoots
    <3>1. SUFFICES ASSUME ~ w.stuck PROVE w.buf = << >> /\ RootsOf(w.nodes) = OpenRoots
      BY DEF WrapperHoldsSSZRoots, RootsOf
    <3>2. WrapperRuns
      BY <2>0, <3>1 DEF WrapperInv
    <3> QED BY <3>2, WrapperHere DEF WrapperRuns
  <2>6. MembersAtTheirIndices
    BY <2>0 DEF WrapperInv, MembersAtTheirIndices, HasMembers, IsFound
  <2> QED BY <2>3, <2>4, <2>5, <2>6
<1> QED BY <1>p, <1>r DEF WalkInv

---------------------------------------------------------------------------
(***************************************************************************)
(* The theorems.                                                           *)
(***************************************************************************)
(* Both walkers keep their shape: the hasher's live cells end before what  *)
(* was written of its array, and that before its capacity; every node of   *)
(* the wrapper has a root of one chunk.                                    *)
THEOREM TypeCorrect ==
    ASSUME NoVectorLost
    PROVE  Spec => []TypeOK
<1>1. Spec => []WalkInv
  BY WalkInvariant
<1>2. WalkInv => TypeOK
  BY WalkInvMeans
<1> QED BY <1>1, <1>2, PTL

(* HashTreeRoot computes SSZ's roots: whatever is walked, however deep and *)
(* long it is and whatever the hasher was used for before, its buffer      *)
(* between two members is the roots SSZ defines for the members of the     *)
(* open containers and lists.  hasher.go merkleizes in place in a buffer   *)
(* that is never cleared; no stale byte comes into any root.               *)
THEOREM HasherComputesSSZRoots ==
    ASSUME NoVectorLost
    PROVE  Spec => []HasherHoldsSSZRoots
<1>1. Spec => []WalkInv
  BY WalkInvariant
<1>2. WalkInv => HasherHoldsSSZRoots
  BY WalkInvMeans
<1> QED BY <1>1, <1>2, PTL

(* GetTree builds trees with the same roots: the nodes on the wrapper's    *)
(* stack have the SSZ roots of the members of the open frames, and no byte *)
(* is left in its buffer.                                                  *)
THEOREM WrapperBuildsSSZRoots ==
    ASSUME NoVectorLost
    PROVE  Spec => []WrapperHoldsSSZRoots
<1>1. Spec => []WalkInv
  BY WalkInvariant
<1>2. WalkInv => WrapperHoldsSSZRoots
  BY WalkInvMeans
<1> QED BY <1>1, <1>2, PTL

(* In the trees that TreeFromNodes builds Get finds member i at the        *)
(* generalized index that SSZ gives to it, for every limit and any number  *)
(* of members: proofs are asked for under the right indices.               *)
THEOREM MembersWhereProofsLook ==
    ASSUME NoVectorLost
    PROVE  Spec => []MembersAtTheirIndices
<1>1. Spec => []WalkInv
  BY WalkInvariant
<1>2. WalkInv => MembersAtTheirIndices
  BY WalkInvMeans
<1> QED BY <1>1, <1>2, PTL

(* What ends a walk: the hasher panics at data beyond a limit and at       *)
(* nothing else (never at the re-slice of a short input), and the tree is  *)
(* never built at a limit of 0, nor for a list whose limit is not a power  *)
(* of two, and at nothing else.                                            *)
THEOREM OnlyLimitsStop ==
    ASSUME NoVectorLost
    PROVE  Spec => StopsOnlyAtLimits
<1>1. Spec => []WalkInv
  BY WalkInvariant
<1>2. WalkInv /\ [Next]_vars => [StopsHere]_vars
  BY NextStep, PanicEnds DEF WalkInv
<1>3. StopsHere <=> /\ ~ h.panic => (h'.panic <=> OverLimit')
                    /\ ~ w.stuck => (w'.stuck <=> NoTree')
  BY DEF StopsHere, Stops
<1>4. WalkInv /\ [Next]_vars => [/\ ~ h.panic => (h'.panic <=> OverLimit')
                                 /\ ~ w.stuck => (w'.stuck <=> NoTree')]_vars
  BY <1>2, <1>3
<1> QED BY <1>1, <1>4, PTL DEF Spec, StopsOnlyAtLimits
===========================================================================
