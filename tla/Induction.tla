---------------------------- MODULE Induction -----------------------------
(***************************************************************************)
(* Induction for the proofs of the other modules, in the forms that need   *)
(* no operator as a parameter: the least element of a set of numbers,      *)
(* induction for a set, the powers of two, the recursion of FlattenSeq     *)
(* (SequencesExt), which glues the pieces of a buffer together, and that   *)
(* of sums; and what sorting by counting gives.                            *)
(***************************************************************************)
EXTENDS Integers, Sequences, SequencesExt, FiniteSetTheorems, SequenceTheorems,
        WellFoundedInduction, Sums, Sorting, TLAPS

(* A nonempty set of natural numbers has a least element.                  *)
LEMMA LeastNat ==
    ASSUME NEW T \in SUBSET Nat, T # {}
    PROVE  \E m \in T : \A n \in T : m <= n
<1>1. \E m \in T : \A n \in T : ~ (<<n, m>> \in OpToRel(<, Nat))
  BY NatLessThanWellFounded, WFMin, Zenon
<1>2. PICK m \in T : \A n \in T : ~ (<<n, m>> \in OpToRel(<, Nat))
  BY <1>1
<1>3. \A n \in T : m <= n
  <2>1. SUFFICES ASSUME NEW n \in T, ~ (m <= n) PROVE FALSE
    OBVIOUS
  <2>2. n \in Nat /\ m \in Nat /\ n < m
    BY <2>1
  <2>3. <<n, m>> \in OpToRel(<, Nat)
    BY <2>2 DEF OpToRel
  <2> QED BY <1>2, <2>3
<1> QED BY <1>3

(* A set that has 0, and the successor of whatever it has, has every       *)
(* natural number.                                                         *)
LEMMA SetInduction ==
    ASSUME NEW T, 0 \in T, \A n \in Nat : n \in T => n + 1 \in T
    PROVE  \A n \in Nat : n \in T
<1> DEFINE B == {n \in Nat : n \notin T}
<1>1. SUFFICES ASSUME B # {} PROVE FALSE
  OBVIOUS
<1>2. PICK m \in B : \A n \in B : m <= n
  BY <1>1, LeastNat
<1>3. m \in Nat /\ m # 0 /\ m \notin T
  BY <1>2
<1>4. m - 1 \in Nat /\ m - 1 \notin B /\ (m - 1) + 1 = m
  BY <1>2, <1>3
<1> QED BY <1>3, <1>4

---------------------------------------------------------------------------
(* The powers of two.  A set of n + 1 elements has twice the subsets that  *)
(* a set of n has: those without the last element, and those with it.      *)
LEMMA TwoTimes ==
    ASSUME NEW n \in Nat
    PROVE  2^(n + 1) = 2^n + 2^n /\ 2^n \in Nat \ {0}
<1> DEFINE S == 1 .. n
           T == 1 .. n + 1
           A == SUBSET S
           B == {X \cup {n + 1} : X \in A}
<1>1. IsFiniteSet(S) /\ Cardinality(S) = n /\ IsFiniteSet(T) /\ Cardinality(T) = n + 1
  <2>1. \A m \in Nat : IsFiniteSet(1 .. m) /\ Cardinality(1 .. m) = m
    <3> TAKE m \in Nat
    <3>1. /\ IsFiniteSet(1 .. m)
          /\ Cardinality(1 .. m) = IF 1 > m THEN 0 ELSE m - 1 + 1
      BY FS_Interval
    <3> QED BY <3>1
  <2> QED BY <2>1
<1>2. T = S \cup {n + 1} /\ n + 1 \notin S
  OBVIOUS
<1> HIDE DEF S, T
<1>3. /\ IsFiniteSet(A) /\ Cardinality(A) = 2^n
      /\ IsFiniteSet(SUBSET T) /\ Cardinality(SUBSET T) = 2^(n + 1)
  BY <1>1, FS_SUBSET
<1>4. SUBSET T = A \cup B
  <2>1. ASSUME NEW X \in SUBSET T PROVE X \in A \cup B
    <3>1. CASE n + 1 \in X
      <4>1. X \ {n + 1} \in A /\ X = (X \ {n + 1}) \cup {n + 1}
        BY <3>1, <1>2
      <4> QED BY <4>1
    <3>2. CASE n + 1 \notin X
      BY <3>2, <1>2
    <3> QED BY <3>1, <3>2
  <2>2. ASSUME NEW X \in A \cup B PROVE X \in SUBSET T
    BY <1>2
  <2> QED BY <2>1, <2>2
<1>5. A \cap B = {}
  BY <1>2
<1>6. ExistsBijection(A, B)
  <2> DEFINE f == [X \in A |-> X \cup {n + 1}]
  <2>1. f \in [A -> B]
    OBVIOUS
  <2>2. \A X, Y \in A : f[X] = f[Y] => X = Y
    BY <1>2
  <2>3. \A Z \in B : \E X \in A : f[X] = Z
    OBVIOUS
  <2> HIDE DEF f, A, B
  <2>4. f \in Bijection(A, B)
    BY <2>1, <2>2, <2>3 DEF Bijection, Injection, Surjection, IsInjective
  <2> QED BY <2>4 DEF ExistsBijection
<1> HIDE DEF A, B
<1>7. IsFiniteSet(B) /\ Cardinality(B) = 2^n
  BY <1>3, <1>6, FS_Bijection
<1>8. Cardinality(A \cup B) = Cardinality(A) + Cardinality(B) - Cardinality({})
  BY <1>3, <1>5, <1>7, FS_Union
<1>9. Cardinality(A) \in Nat /\ Cardinality({}) = 0
  BY <1>3, FS_CardinalityType, FS_EmptySet
<1>10. Cardinality(A) # 0
  <2>1. {} \in A
    BY DEF A
  <2> QED BY <1>3, <2>1, FS_EmptySet
<1> DEFINE p == 2^n
           q == 2^(n + 1)
<1>11. p = Cardinality(A) /\ p = Cardinality(B) /\ q = Cardinality(A \cup B)
  BY <1>3, <1>4, <1>7
<1> HIDE DEF p, q
<1>12. q = p + p /\ p \in Nat \ {0}
  BY <1>8, <1>9, <1>10, <1>11
<1> QED BY <1>12 DEF p, q

(* They grow, and faster than the numbers do.                              *)
LEMMA TwoPowers ==
    /\ 2^0 = 1
    /\ \A n \in Nat : 2^n \in Nat \ {0} /\ 2^(n + 1) = 2 * 2^n /\ n < 2^n
    /\ \A m, n \in Nat : m <= n => 2^m <= 2^n
<1>1. \A n \in Nat : 2^n \in Nat \ {0} /\ 2^(n + 1) = 2 * 2^n
  <2> TAKE n \in Nat
  <2>1. 2^(n + 1) = 2^n + 2^n /\ 2^n \in Nat \ {0}
    BY TwoTimes
  <2> DEFINE p == 2^n
             q == 2^(n + 1)
  <2>2. q = p + p /\ p \in Nat \ {0}
    BY <2>1
  <2> HIDE DEF p, q
  <2>3. q = 2 * p
    BY <2>2
  <2> QED BY <2>2, <2>3 DEF p, q
<1>2. 2^0 = 1
  OBVIOUS
<1>3. \A n \in Nat : n < 2^n
  <2> DEFINE T == {n \in Nat : n < 2^n}
  <2>1. 0 \in T
    BY <1>2
  <2>2. ASSUME NEW n \in Nat, n \in T PROVE n + 1 \in T
    <3> DEFINE p == 2^n
               q == 2^(n + 1)
    <3>1. q = 2 * p /\ p \in Nat /\ n < p
      BY <1>1, <2>2
    <3> HIDE DEF p, q
    <3>2. n + 1 < q
      BY <3>1
    <3> QED BY <3>2 DEF q
  <2> HIDE DEF T
  <2>3. \A n \in Nat : n \in T
    BY <2>1, <2>2, SetInduction
  <2> QED BY <2>3 DEF T
<1>4. ASSUME NEW m \in Nat PROVE \A n \in Nat : m <= n => 2^m <= 2^n
  <2> DEFINE T == {k \in Nat : 2^m <= 2^(m + k)}
  <2>1. 0 \in T
    BY <1>1
  <2>2. ASSUME NEW k \in Nat, k \in T PROVE k + 1 \in T
    <3> DEFINE a == 2^m
               p == 2^(m + k)
               q == 2^(m + (k + 1))
    <3>1. m + k \in Nat /\ m + (k + 1) = (m + k) + 1
      OBVIOUS
    <3>2. q = 2 * p /\ p \in Nat /\ a \in Nat /\ a <= p
      BY <1>1, <2>2, <3>1
    <3> HIDE DEF a, p, q
    <3>3. a <= q
      BY <3>2
    <3> QED BY <3>3 DEF a, q
  <2> HIDE DEF T
  <2>3. \A k \in Nat : k \in T
    BY <2>1, <2>2, SetInduction
  <2>4. ASSUME NEW n \in Nat, m <= n PROVE 2^m <= 2^n
    <3>1. n - m \in Nat /\ m + (n - m) = n
      BY <2>4
    <3> QED BY <2>3, <3>1 DEF T
  <2> QED BY <2>4
<1> QED BY <1>1, <1>2, <1>3, <1>4
---------------------------------------------------------------------------
(* A function computed from 0 upwards, each value from the one before it,  *)
(* exists; two that start alike and go on alike are the same.              *)
Steps(f, n, base, step) ==
    f[0] = base /\ \A i \in 1 .. n : f[i] = step[i][f[i - 1]]

(* A function given by its first value and a step exists.                  *)
LEMMA StepsExist ==
    ASSUME NEW D, NEW n \in Nat, NEW base \in D, NEW step \in [1 .. n -> [D -> D]]
    PROVE  \E f \in [0 .. n -> D] : Steps(f, n, base, step)
<1> DEFINE Upto(k) == \E f \in [0 .. k -> D] :
                         f[0] = base /\ \A i \in 1 .. k : f[i] = step[i][f[i - 1]]
           N == {k \in Nat : k <= n => Upto(k)}
<1>1. Upto(0)
  <2> DEFINE f == [i \in 0 .. 0 |-> base]
  <2>1. f \in [0 .. 0 -> D] /\ f[0] = base
    OBVIOUS
  <2>2. \A i \in 1 .. 0 : f[i] = step[i][f[i - 1]]
    OBVIOUS
  <2> HIDE DEF f
  <2> QED BY <2>1, <2>2
<1>2. ASSUME NEW k \in Nat, k + 1 <= n, Upto(k) PROVE Upto(k + 1)
  <2>1. PICK f \in [0 .. k -> D] :
          f[0] = base /\ \A i \in 1 .. k : f[i] = step[i][f[i - 1]]
    BY <1>2
  <2> DEFINE last == step[k + 1][f[k]]
             g == [i \in 0 .. k + 1 |-> IF i = k + 1 THEN last ELSE f[i]]
  <2>2. last \in D
    <3>1. k + 1 \in 1 .. n /\ f[k] \in D
      BY <1>2
    <3> QED BY <3>1
  <2>3. g \in [0 .. k + 1 -> D]
    <3>1. \A i \in 0 .. k + 1 : i # k + 1 => i \in 0 .. k
      OBVIOUS
    <3> HIDE DEF last
    <3> QED BY <2>2, <3>1
  <2>4. /\ \A i \in 0 .. k : g[i] = f[i]
        /\ g[k + 1] = last
    <3>1. \A i \in 0 .. k : i \in 0 .. k + 1 /\ i # k + 1
      OBVIOUS
    <3>2. k + 1 \in 0 .. k + 1
      OBVIOUS
    <3> HIDE DEF last
    <3> QED BY <3>1, <3>2
  <2> HIDE DEF g
  <2>5. ASSUME NEW i \in 1 .. k + 1 PROVE g[i] = step[i][g[i - 1]]
    <3>1. CASE i = k + 1
      <4>1. i - 1 = k /\ k \in 0 .. k
        BY <3>1
      <4> QED BY <2>4, <3>1, <4>1
    <3>2. CASE i # k + 1
      <4>1. i \in 1 .. k /\ i \in 0 .. k /\ i - 1 \in 0 .. k
        BY <3>2
      <4> QED BY <2>1, <2>4, <4>1
    <3> QED BY <3>1, <3>2
  <2>6. g[0] = base
    BY <2>1, <2>4
  <2> QED BY <2>3, <2>5, <2>6
<1> HIDE DEF Upto
<1>3. \A k \in Nat : k \in N
  <2>1. 0 \in N
    BY <1>1
  <2>2. \A k \in Nat : k \in N => k + 1 \in N
    BY <1>2
  <2> HIDE DEF N
  <2> QED BY <2>1, <2>2, SetInduction
<1>4. Upto(n)
  BY <1>3
<1> QED BY <1>4 DEF Upto, Steps

(* There is only one such function.                                        *)
LEMMA StepsAgree ==
    ASSUME NEW f, NEW g, NEW n \in Nat, f[0] = g[0],
           \A i \in 1 .. n : f[i - 1] = g[i - 1] => f[i] = g[i]
    PROVE  \A i \in 0 .. n : f[i] = g[i]
<1> DEFINE N == {i \in Nat : i <= n => f[i] = g[i]}
<1>1. 0 \in N
  OBVIOUS
<1>2. ASSUME NEW i \in Nat, i \in N PROVE i + 1 \in N
  <2> DEFINE j == i + 1
  <2>1. j - 1 = i /\ (j <= n => j \in 1 .. n /\ f[i] = g[i])
    BY <1>2
  <2> HIDE DEF j
  <2>2. j <= n => f[j] = g[j]
    BY <2>1
  <2> QED BY <2>2 DEF j
<1> HIDE DEF N
<1>3. \A i \in Nat : i \in N
  BY <1>1, <1>2, SetInduction
<1> QED BY <1>3 DEF N

---------------------------------------------------------------------------
(* A function of the numbers up to n is a sequence of length n.            *)
LEMMA FunctionIsSeq ==
    ASSUME NEW S, NEW n \in Nat, NEW w \in [1 .. n -> S]
    PROVE  w \in Seq(S) /\ Len(w) = n
OBVIOUS

---------------------------------------------------------------------------
(* FlattenSeq, which glues pieces together: h[i] is the first i of them.   *)
IsGlued(s, h) == h[0] = << >> /\ \A i \in 1 .. Len(s) : h[i] = h[i - 1] \o s[i]

(* The sequence glued together up to each place exists.                    *)
LEMMA GluedExists ==
    ASSUME NEW T, NEW s \in Seq(Seq(T))
    PROVE  \E h \in [0 .. Len(s) -> Seq(T)] : IsGlued(s, h)
<1> DEFINE D == Seq(T)
           n == Len(s)
           base == << >>
           step == [i \in 1 .. n |-> [x \in D |-> x \o s[i]]]
<1>1. n \in Nat /\ base \in D /\ \A i \in 1 .. n : s[i] \in D
  OBVIOUS
<1>2. \A a, b \in D : a \o b \in D
  OBVIOUS
<1> HIDE DEF D, n
<1>3. step \in [1 .. n -> [D -> D]]
  BY <1>1, <1>2
<1>4. \A i \in 1 .. n, x \in D : step[i][x] = x \o s[i]
  OBVIOUS
<1> HIDE DEF step, base
<1>5. PICK h \in [0 .. n -> D] : Steps(h, n, base, step)
  BY <1>1, <1>3, StepsExist, Zenon
<1>6. \A i \in 1 .. n : h[i - 1] \in D
  BY <1>1
<1>7. IsGlued(s, h)
  BY <1>4, <1>5, <1>6 DEF IsGlued, Steps, n, base
<1> QED BY <1>7 DEF D, n

(* What CHOOSE finds where FlattenSeq is defined.                          *)
FlatRec(s, f) ==
    f = [i \in 1 .. Len(s) |-> IF i = 1 THEN s[i] ELSE f[i - 1] \o s[i]]

(* FlattenSeq is the last of them.                                         *)
LEMMA FlattenIs ==
    ASSUME NEW T, NEW s \in Seq(Seq(T)), NEW h \in [0 .. Len(s) -> Seq(T)], IsGlued(s, h)
    PROVE  FlattenSeq(s) = h[Len(s)]
<1> DEFINE n == Len(s)
<1>1. n \in Nat
  OBVIOUS
<1>2. CASE n = 0
  <2>1. s = << >>
    BY <1>2
  <2> QED BY <1>2, <2>1 DEF FlattenSeq, IsGlued
<1>3. CASE n # 0
  <2> DEFINE f == [i \in 1 .. n |-> h[i]]
             c == CHOOSE g : FlatRec(s, g)
  <2>1. \A i \in 1 .. n : h[i] = h[i - 1] \o s[i]
    BY DEF IsGlued
  <2>2. h[1] = s[1]
    <3>1. 1 \in 1 .. n /\ h[1 - 1] = << >> /\ s[1] \in Seq(T)
      BY <1>1, <1>3 DEF IsGlued
    <3>2. << >> \o s[1] = s[1]
      BY <3>1
    <3> QED BY <2>1, <3>1, <3>2
  <2>3. \A i \in 1 .. n : f[i] = IF i = 1 THEN s[i] ELSE f[i - 1] \o s[i]
    <3> TAKE i \in 1 .. n
    <3>1. i # 1 => i - 1 \in 1 .. n
      BY <1>1
    <3> QED BY <2>1, <2>2, <3>1
  <2>4. FlatRec(s, f)
    BY <2>3 DEF FlatRec
  <2>5. FlatRec(s, c)
    BY <2>4
  <2> HIDE DEF c, f
  <2>6. \A i \in 1 .. n : /\ f[i] = IF i = 1 THEN s[i] ELSE f[i - 1] \o s[i]
                          /\ c[i] = IF i = 1 THEN s[i] ELSE c[i - 1] \o s[i]
    BY <2>4, <2>5 DEF FlatRec
  <2> DEFINE f0 == [i \in 0 .. n |-> IF i = 0 THEN << >> ELSE f[i]]
             c0 == [i \in 0 .. n |-> IF i = 0 THEN << >> ELSE c[i]]
  <2>7. f0[0] = c0[0]
    BY <1>1
  <2>8. ASSUME NEW i \in 1 .. n, f0[i - 1] = c0[i - 1] PROVE f0[i] = c0[i]
    <3>1. i \in 0 .. n /\ i # 0 /\ i - 1 \in 0 .. n /\ (i # 1 => i - 1 # 0)
      BY <1>1
    <3>2. f0[i] = f[i] /\ c0[i] = c[i]
      BY <3>1
    <3>3. i # 1 => f[i - 1] = c[i - 1]
      BY <2>8, <3>1
    <3>4. f[i] = c[i]
      BY <2>6, <3>3
    <3> QED BY <3>2, <3>4
  <2>9. \A i \in 0 .. n : f0[i] = c0[i]
    <3> HIDE DEF f0, c0
    <3> QED BY <1>1, <2>7, <2>8, StepsAgree
  <2>10. c[n] = f[n]
    <3>1. n \in 0 .. n /\ n # 0
      BY <1>1, <1>3
    <3> QED BY <2>9, <3>1
  <2>11. FlattenSeq(s) = c[n]
    BY <1>3 DEF FlattenSeq, FlatRec, c
  <2>12. f[n] = h[n]
    <3>1. n \in 1 .. n
      BY <1>1, <1>3
    <3> QED BY <3>1 DEF f
  <2> QED BY <2>10, <2>11, <2>12
<1> QED BY <1>2, <1>3

(* What it is: nothing for nothing, and one piece more at the end.         *)
LEMMA FlattenAppend ==
    ASSUME NEW T
    PROVE  /\ FlattenSeq(<< >>) = << >>
           /\ \A s \in Seq(Seq(T)) : FlattenSeq(s) \in Seq(T)
           /\ \A s \in Seq(Seq(T)), e \in Seq(T) :
                 FlattenSeq(Append(s, e)) = FlattenSeq(s) \o e
<1>1. FlattenSeq(<< >>) = << >>
  BY DEF FlattenSeq
<1>2. ASSUME NEW s \in Seq(Seq(T)) PROVE FlattenSeq(s) \in Seq(T)
  <2>1. PICK h \in [0 .. Len(s) -> Seq(T)] : IsGlued(s, h)
    BY GluedExists
  <2>2. FlattenSeq(s) = h[Len(s)]
    BY <2>1, FlattenIs
  <2> QED BY <2>2
<1>3. ASSUME NEW s \in Seq(Seq(T)), NEW e \in Seq(T)
      PROVE  FlattenSeq(Append(s, e)) = FlattenSeq(s) \o e
  <2> DEFINE D == Seq(T)
             u == Append(s, e)
             n == Len(s)
  <2>1. /\ n \in Nat /\ u \in Seq(D) /\ Len(u) = n + 1
        /\ u[n + 1] = e /\ \A i \in 1 .. n : u[i] = s[i]
    <3>1. s \in Seq(D) /\ e \in D
      OBVIOUS
    <3> HIDE DEF D
    <3> QED BY <3>1
  <2> HIDE DEF u, n
  <2>2. PICK h \in [0 .. Len(u) -> Seq(T)] : IsGlued(u, h)
    BY <2>1, GluedExists DEF D
  <2>3. FlattenSeq(u) = h[n + 1]
    BY <2>1, <2>2, FlattenIs DEF D
  <2>4. \A i \in 1 .. n + 1 : h[i] = h[i - 1] \o u[i]
    BY <2>1, <2>2 DEF IsGlued
  <2> DEFINE g == [i \in 0 .. n |-> h[i]]
  <2>5. g \in [0 .. Len(s) -> Seq(T)]
    BY <2>1, <2>2 DEF n
  <2>6. IsGlued(s, g)
    <3>1. g[0] = << >>
      BY <2>1, <2>2 DEF IsGlued
    <3>2. ASSUME NEW i \in 1 .. n PROVE g[i] = g[i - 1] \o s[i]
      <4>1. i \in 1 .. n + 1 /\ u[i] = s[i] /\ i \in 0 .. n /\ i - 1 \in 0 .. n
        BY <2>1
      <4> QED BY <2>4, <4>1
    <3> QED BY <3>1, <3>2 DEF IsGlued, n
  <2>7. FlattenSeq(s) = g[n] /\ g[n] = h[n]
    <3>1. n \in 0 .. n
      BY <2>1
    <3> HIDE DEF g
    <3>2. FlattenSeq(s) = g[n]
      BY <2>5, <2>6, FlattenIs DEF n
    <3> QED BY <3>1, <3>2 DEF g
  <2>8. h[n + 1] = h[n] \o e
    <3>1. n \in Nat
      BY <2>1
    <3>2. n + 1 \in 1 .. n + 1 /\ (n + 1) - 1 = n
      BY ONLY <3>1
    <3> QED BY <2>1, <2>4, <3>2
  <2> QED BY <2>3, <2>7, <2>8 DEF u
<1> QED BY <1>1, <1>2, <1>3

(* What it is made of: piece i lies between the first i - 1 pieces and the *)
(* first i, glued.                                                         *)
LEMMA FlattenPrefix ==
    ASSUME NEW T, NEW s \in Seq(Seq(T)), NEW h \in [0 .. Len(s) -> Seq(T)], IsGlued(s, h),
           NEW i \in 0 .. Len(s)
    PROVE  FlattenSeq(SubSeq(s, 1, i)) = h[i]
<1> DEFINE D == Seq(T)
           u == SubSeq(s, 1, i)
           g == [j \in 0 .. i |-> h[j]]
<1>1. u \in Seq(D) /\ Len(u) = i /\ \A j \in 1 .. i : u[j] = s[j]
  <2>1. s \in Seq(D) /\ 1 \in 1 .. Len(s) + 1 /\ i \in 1 - 1 .. Len(s) /\ Len(s) \in Nat
    OBVIOUS
  <2>2. \A j \in 1 .. i : s[j] \in D
    BY <2>1
  <2> HIDE DEF D
  <2> QED BY <2>1, <2>2, SubSeqProperties
<1>2. i \in Nat /\ \A j \in 0 .. i : j \in 0 .. Len(s)
  OBVIOUS
<1>3. g \in [0 .. Len(u) -> Seq(T)]
  BY <1>1, <1>2
<1>4. IsGlued(u, g)
  <2>1. g[0] = << >>
    BY <1>2 DEF IsGlued
  <2>2. ASSUME NEW j \in 1 .. i PROVE g[j] = g[j - 1] \o u[j]
    <3>1. j \in 1 .. Len(s) /\ j \in 0 .. i /\ j - 1 \in 0 .. i
      BY <1>2
    <3> QED BY <1>1, <3>1 DEF IsGlued
  <2> QED BY <1>1, <2>1, <2>2 DEF IsGlued
<1> HIDE DEF u, g
<1>5. FlattenSeq(u) = g[i]
  BY <1>1, <1>3, <1>4, FlattenIs DEF D
<1> QED BY <1>5 DEF u, g

(* What is glued together up to i is what is up to i - 1, and piece i.     *)
LEMMA FlattenPieces ==
    ASSUME NEW T, NEW s \in Seq(Seq(T))
    PROVE  /\ FlattenSeq(s) \in Seq(T)
           /\ FlattenSeq(SubSeq(s, 1, 0)) = << >>
           /\ FlattenSeq(SubSeq(s, 1, Len(s))) = FlattenSeq(s)
           /\ \A i \in 0 .. Len(s) :
                /\ FlattenSeq(SubSeq(s, 1, i)) \in Seq(T)
                /\ Len(FlattenSeq(SubSeq(s, 1, i))) <= Len(FlattenSeq(s))
                /\ \A j \in 1 .. Len(FlattenSeq(SubSeq(s, 1, i))) :
                     FlattenSeq(s)[j] = FlattenSeq(SubSeq(s, 1, i))[j]
           /\ \A i \in 1 .. Len(s) :
                FlattenSeq(SubSeq(s, 1, i)) = FlattenSeq(SubSeq(s, 1, i - 1)) \o s[i]
<1> DEFINE D == Seq(T)
           n == Len(s)
<1>1. n \in Nat /\ \A i \in 1 .. n : s[i] \in D
  OBVIOUS
<1>2. PICK h \in [0 .. Len(s) -> Seq(T)] : IsGlued(s, h)
  BY GluedExists
<1>3. \A i \in 0 .. n : FlattenSeq(SubSeq(s, 1, i)) = h[i]
  BY <1>2, FlattenPrefix
<1>4. FlattenSeq(s) = h[n]
  BY <1>2, FlattenIs
<1>5. h[0] = << >> /\ \A i \in 1 .. n : h[i] = h[i - 1] \o s[i]
  BY <1>2 DEF IsGlued
<1>6. \A i \in 0 .. n : h[i] \in D
  BY <1>2
<1>7. \A a, b \in D : /\ a \o b \in D /\ Len(a \o b) = Len(a) + Len(b)
                      /\ Len(a) \in Nat /\ Len(b) \in Nat
                      /\ \A j \in 1 .. Len(a) : (a \o b)[j] = a[j]
  OBVIOUS
<1> DEFINE Begins(i, k) == /\ Len(h[i]) <= Len(h[k])
                          /\ \A j \in 1 .. Len(h[i]) : h[k][j] = h[i][j]
<1>8. ASSUME NEW i \in 0 .. n PROVE Begins(i, n)
  <2> DEFINE N == {d \in Nat : i + d <= n => Begins(i, i + d)}
  <2>1. 0 \in N
    <3>1. Len(h[i]) \in Nat
      BY <1>6, <1>7
    <3> QED BY <3>1
  <2>2. ASSUME NEW d \in Nat, d \in N PROVE d + 1 \in N
    <3> DEFINE k == i + (d + 1)
               a == h[i + d]
               c == h[k]
               e == h[i]
    <3>1. k - 1 = i + d /\ (k <= n => k \in 1 .. n /\ i + d \in 0 .. n)
      BY <1>1
    <3>2. k <= n => Begins(i, i + d)
      BY <2>2, <3>1
    <3>3. k <= n => c = a \o s[k] /\ a \in D /\ s[k] \in D /\ e \in D
      BY <1>1, <1>5, <1>6, <3>1
    <3>4. k <= n => /\ Len(e) <= Len(a)
                    /\ \A j \in 1 .. Len(e) : a[j] = e[j]
      BY <3>2
    <3> HIDE DEF a, c, e, k
    <3>5. k <= n => /\ Len(e) <= Len(c)
                    /\ \A j \in 1 .. Len(e) : c[j] = e[j]
      <4> SUFFICES ASSUME k <= n PROVE Len(e) <= Len(c) /\ \A j \in 1 .. Len(e) : c[j] = e[j]
        OBVIOUS
      <4>1. /\ Len(c) = Len(a) + Len(s[k]) /\ Len(a) \in Nat /\ Len(s[k]) \in Nat
            /\ Len(e) \in Nat
            /\ \A j \in 1 .. Len(a) : c[j] = a[j]
        BY <3>3, <1>7
      <4>2. Len(e) <= Len(a) /\ \A j \in 1 .. Len(e) : a[j] = e[j]
        BY <3>4
      <4>3. Len(e) <= Len(c) /\ \A j \in 1 .. Len(e) : j \in 1 .. Len(a)
        BY <4>1, <4>2
      <4> QED BY <4>1, <4>2, <4>3
    <3>6. k <= n => Begins(i, k)
      BY <3>5 DEF c, e
    <3> QED BY <3>6 DEF k
  <2> HIDE DEF N
  <2>3. \A d \in Nat : d \in N
    BY <2>1, <2>2, SetInduction
  <2>4. n - i \in Nat /\ i + (n - i) = n
    BY <1>1
  <2>5. i + (n - i) <= n => Begins(i, i + (n - i))
    <3> HIDE DEF Begins
    <3> QED BY <2>3, <2>4 DEF N
  <2> HIDE DEF Begins
  <2> QED BY <1>1, <2>4, <2>5
<1>9. 0 \in 0 .. n /\ n \in 0 .. n /\ \A i \in 1 .. n : i \in 0 .. n /\ i - 1 \in 0 .. n
  BY <1>1
<1>10. FlattenSeq(s) \in Seq(T)
  BY <1>4, <1>6, <1>9
<1>11. FlattenSeq(SubSeq(s, 1, 0)) = << >> /\ FlattenSeq(SubSeq(s, 1, n)) = FlattenSeq(s)
  BY <1>3, <1>4, <1>5, <1>9
<1>12. ASSUME NEW i \in 0 .. n
       PROVE  /\ FlattenSeq(SubSeq(s, 1, i)) \in Seq(T)
              /\ Len(FlattenSeq(SubSeq(s, 1, i))) <= Len(FlattenSeq(s))
              /\ \A j \in 1 .. Len(FlattenSeq(SubSeq(s, 1, i))) :
                   FlattenSeq(s)[j] = FlattenSeq(SubSeq(s, 1, i))[j]
  BY <1>3, <1>4, <1>6, <1>8
<1>13. ASSUME NEW i \in 1 .. n
       PROVE  FlattenSeq(SubSeq(s, 1, i)) = FlattenSeq(SubSeq(s, 1, i - 1)) \o s[i]
  BY <1>3, <1>5, <1>9
<1> QED BY <1>10, <1>11, <1>12, <1>13

(* Pieces of one length: so many bytes each, and piece i begins after      *)
(* i - 1 of them.                                                          *)
LEMMA FlattenEven ==
    ASSUME NEW T, NEW s \in Seq(Seq(T)), NEW k \in Nat, \A i \in 1 .. Len(s) : Len(s[i]) = k
    PROVE  /\ Len(FlattenSeq(s)) = Len(s) * k
           /\ \A i \in 0 .. Len(s) : Len(FlattenSeq(SubSeq(s, 1, i))) = i * k
<1> DEFINE P(i) == FlattenSeq(SubSeq(s, 1, i))
           n == Len(s)
           N == {i \in Nat : i <= n => Len(P(i)) = i * k}
<1>1. n \in Nat
  OBVIOUS
<1>2. 0 \in N
  <2>1. P(0) = << >>
    BY FlattenPieces, Zenon
  <2> HIDE DEF P
  <2> QED BY <2>1
<1>3. ASSUME NEW i \in Nat, i \in N PROVE i + 1 \in N
  <2> DEFINE p == P(i)
             q == P(i + 1)
  <2>1. ASSUME i + 1 <= n PROVE Len(q) = (i + 1) * k
    <3>1. i + 1 \in 1 .. n /\ i \in 0 .. n /\ (i + 1) - 1 = i /\ i <= n
      BY <1>1, <2>1
    <3>2. P(i + 1) = P((i + 1) - 1) \o s[i + 1] /\ P(i) \in Seq(T)
      BY <3>1, FlattenPieces
    <3>3. Len(p) = i * k /\ Len(s[i + 1]) = k
      BY <1>3, <3>1
    <3> DEFINE e == s[i + 1]
    <3>4. e \in Seq(T)
      <4> HIDE DEF P
      <4> QED BY <3>1
    <3>5. q = p \o e /\ p \in Seq(T) /\ e \in Seq(T) /\ Len(p) = i * k /\ Len(e) = k
      <4> HIDE DEF P
      <4> QED BY <3>1, <3>2, <3>3, <3>4
    <3> HIDE DEF p, q, e
    <3>6. Len(q) = Len(p) + Len(e)
      BY ONLY <3>5, ConcatProperties
    <3>7. Len(q) = i * k + k
      BY <3>5, <3>6
    <3>8. i * k + k = (i + 1) * k
      OBVIOUS
    <3> QED BY <3>7, <3>8
  <2> QED BY <2>1
<1> HIDE DEF N
<1>4. \A i \in Nat : i \in N
  BY <1>2, <1>3, SetInduction
<1>5. \A i \in 0 .. n : Len(P(i)) = i * k
  BY <1>4 DEF N
<1>6. Len(FlattenSeq(s)) = n * k
  <2>1. n \in 0 .. n
    BY <1>1
  <2>2. P(n) = FlattenSeq(s)
    BY FlattenPieces
  <2> QED BY <1>5, <2>1, <2>2
<1> QED BY <1>5, <1>6
---------------------------------------------------------------------------
(* SumUpTo adds one more with each step, and depends on nothing else.      *)
SumRec(g, n, f) == f = [i \in 0 .. n |-> IF i = 0 THEN 0 ELSE f[i - 1] + g[i]]

(* Such a sum exists, and SumUpTo is its last value.                       *)
LEMMA SumIs ==
    ASSUME NEW g, NEW n \in Nat, NEW f, SumRec(g, n, f)
    PROVE  SumUpTo(g, n) = f[n]
  <1> DEFINE c == CHOOSE h : SumRec(g, n, h)
  <1>1. SumUpTo(g, n) = c[n]
    BY DEF SumUpTo, SumRec
  <1>2. SumRec(g, n, c)
    OBVIOUS
  <1> HIDE DEF c
  <1>3. \A i \in 0 .. n : /\ f[i] = IF i = 0 THEN 0 ELSE f[i - 1] + g[i]
                          /\ c[i] = IF i = 0 THEN 0 ELSE c[i - 1] + g[i]
    BY <1>2 DEF SumRec
  <1>4. f[0] = c[0]
    BY <1>3
  <1>5. \A i \in 1 .. n : f[i - 1] = c[i - 1] => f[i] = c[i]
    <2> TAKE i \in 1 .. n
    <2>1. i \in 0 .. n /\ i # 0
      OBVIOUS
    <2> QED BY <1>3, <2>1
  <1>6. f[n] = c[n]
    BY <1>4, <1>5, StepsAgree
  <1> QED BY <1>1, <1>6

(* It starts from 0, and each step adds one summand.                       *)
LEMMA SumSteps ==
    ASSUME NEW n \in Nat, NEW g, \A i \in 1 .. n : g[i] \in Nat
    PROVE  /\ SumUpTo(g, 0) = 0
           /\ \A k \in 0 .. n : SumUpTo(g, k) \in Nat
           /\ \A k \in 1 .. n : SumUpTo(g, k) = SumUpTo(g, k - 1) + g[k]
           /\ \A k \in 1 .. n : SumUpTo(g, k - 1) <= SumUpTo(g, k)
  <1> DEFINE step == [i \in 1 .. n |-> [x \in Nat |-> x + g[i]]]
  <1>1. step \in [1 .. n -> [Nat -> Nat]]
    OBVIOUS
  <1>2. \A i \in 1 .. n, x \in Nat : step[i][x] = x + g[i]
    OBVIOUS
  <1> DEFINE zero == 0
  <1>3. zero \in Nat
    OBVIOUS
  <1> HIDE DEF step, zero
  <1>4. PICK f \in [0 .. n -> Nat] : Steps(f, n, zero, step)
    BY <1>1, <1>3, StepsExist, Zenon
  <1>5. f[0] = 0 /\ \A i \in 1 .. n : f[i] = step[i][f[i - 1]]
    BY <1>4 DEF Steps, zero
  <1>6. \A i \in 1 .. n : f[i - 1] \in Nat /\ f[i] = f[i - 1] + g[i]
    <2> TAKE i \in 1 .. n
    <2>1. i - 1 \in 0 .. n
      OBVIOUS
    <2>2. f[i - 1] \in Nat
      BY <2>1
    <2> QED BY <1>2, <1>5, <2>2
  <1>7. ASSUME NEW k \in 0 .. n PROVE SumUpTo(g, k) = f[k]
    <2> DEFINE h == [i \in 0 .. k |-> f[i]]
    <2>1. \A i \in 0 .. k : h[i] = IF i = 0 THEN 0 ELSE h[i - 1] + g[i]
      <3> TAKE i \in 0 .. k
      <3>1. i = 0 => h[i] = 0
        BY <1>5
      <3>2. i # 0 => i \in 1 .. n /\ i - 1 \in 0 .. k
        OBVIOUS
      <3>3. i # 0 => h[i] = h[i - 1] + g[i]
        BY <1>6, <3>2
      <3> QED BY <3>1, <3>3
    <2>2. SumRec(g, k, h)
      BY <2>1 DEF SumRec
    <2>3. k \in Nat /\ h[k] = f[k]
      OBVIOUS
    <2> HIDE DEF h
    <2> QED BY <2>2, <2>3, SumIs
  <1>8. 0 \in 0 .. n /\ \A k \in 1 .. n : k \in 0 .. n /\ k - 1 \in 0 .. n
    OBVIOUS
  <1>9. SumUpTo(g, 0) = 0 /\ \A k \in 0 .. n : SumUpTo(g, k) \in Nat
    BY <1>5, <1>7, <1>8
  <1>10. \A k \in 1 .. n : SumUpTo(g, k) = SumUpTo(g, k - 1) + g[k]
    BY <1>6, <1>7, <1>8
  <1>11. \A k \in 1 .. n : SumUpTo(g, k - 1) <= SumUpTo(g, k)
    <2> TAKE k \in 1 .. n
    <2> DEFINE x == SumUpTo(g, k - 1)
               y == SumUpTo(g, k)
    <2>1. x \in Nat /\ y = x + g[k] /\ g[k] \in Nat
      BY <1>8, <1>9, <1>10
    <2> HIDE DEF x, y
    <2>2. x <= y
      BY <2>1
    <2> QED BY <2>2 DEF x, y
  <1> QED BY <1>9, <1>10, <1>11

(* It never shrinks.                                                       *)
LEMMA SumGrows ==
    ASSUME NEW n \in Nat, NEW g, \A i \in 1 .. n : g[i] \in Nat
    PROVE  \A j, k \in 0 .. n : j <= k => SumUpTo(g, j) <= SumUpTo(g, k)
  <1> SUFFICES ASSUME NEW j \in 0 .. n
               PROVE  \A k \in 0 .. n : j <= k => SumUpTo(g, j) <= SumUpTo(g, k)
    OBVIOUS
  <1> DEFINE T == {d \in Nat : j + d <= n => SumUpTo(g, j) <= SumUpTo(g, j + d)}
  <1>1. 0 \in T
    BY SumSteps
  <1>2. ASSUME NEW d \in Nat, d \in T PROVE d + 1 \in T
    <2> DEFINE k == j + (d + 1)
    <2>1. k - 1 = j + d /\ (k <= n => k \in 1 .. n /\ j + d \in 0 .. n)
      OBVIOUS
    <2>2. k <= n => SumUpTo(g, j) <= SumUpTo(g, j + d)
      BY <1>2, <2>1
    <2> HIDE DEF k
    <2>3. k <= n => /\ SumUpTo(g, j) \in Nat /\ SumUpTo(g, j + d) \in Nat
                    /\ SumUpTo(g, k) \in Nat
                    /\ SumUpTo(g, j + d) <= SumUpTo(g, k)
      BY <2>1, SumSteps
    <2>4. k <= n => SumUpTo(g, j) <= SumUpTo(g, k)
      BY <2>2, <2>3
    <2> QED BY <2>4 DEF k
  <1> HIDE DEF T
  <1>3. \A d \in Nat : d \in T
    BY <1>1, <1>2, SetInduction
  <1>4. ASSUME NEW k \in 0 .. n, j <= k PROVE SumUpTo(g, j) <= SumUpTo(g, k)
    <2>1. k - j \in Nat /\ j + (k - j) = k
      BY <1>4
    <2> QED BY <1>3, <2>1 DEF T
  <1> QED BY <1>4

(* It depends on the summands up to k only.                                *)
LEMMA SumSame ==
    ASSUME NEW k \in Nat, NEW g, NEW h,
           \A i \in 1 .. k : g[i] \in Nat /\ g[i] = h[i]
    PROVE  SumUpTo(g, k) = SumUpTo(h, k)
  <1> DEFINE a == [i \in 0 .. k |-> SumUpTo(g, i)]
             b == [i \in 0 .. k |-> SumUpTo(h, i)]
  <1>1. k \in Nat /\ (\A i \in 1 .. k : g[i] \in Nat) /\ (\A i \in 1 .. k : h[i] \in Nat)
    OBVIOUS
  <1>2. a[0] = b[0]
    BY <1>1, SumSteps
  <1>3. ASSUME NEW i \in 1 .. k, a[i - 1] = b[i - 1] PROVE a[i] = b[i]
    <2>1. i \in 0 .. k /\ i - 1 \in 0 .. k
      OBVIOUS
    <2>2. SumUpTo(g, i) = SumUpTo(g, i - 1) + g[i]
      BY <1>1, SumSteps
    <2>3. SumUpTo(h, i) = SumUpTo(h, i - 1) + h[i]
      BY <1>1, SumSteps
    <2>4. SumUpTo(g, i - 1) = SumUpTo(h, i - 1)
      BY <1>3, <2>1
    <2> QED BY <2>1, <2>2, <2>3, <2>4
  <1>4. a[k] = b[k]
    <2>1. k \in 0 .. k
      OBVIOUS
    <2> HIDE DEF a, b
    <2> QED BY <1>1, <1>2, <1>3, <2>1, StepsAgree
  <1> QED BY <1>4

(* Summands that are zero leave a sum as it is.                            *)
LEMMA SumStays ==
    ASSUME NEW n \in Nat, NEW g, \A i \in 1 .. n : g[i] \in Nat,
           NEW j \in 0 .. n, NEW k \in j .. n, \A m \in j + 1 .. k : g[m] = 0
    PROVE  SumUpTo(g, j) = SumUpTo(g, k)
  <1> DEFINE T == {d \in Nat : j + d <= k => SumUpTo(g, j + d) = SumUpTo(g, j)}
  <1>1. 0 \in T
    <2>1. j + 0 = j
      OBVIOUS
    <2> QED BY <2>1
  <1>2. ASSUME NEW d \in Nat, d \in T PROVE d + 1 \in T
    <2> DEFINE m == j + (d + 1)
    <2>1. m - 1 = j + d
          /\ (m <= k => m \in 1 .. n /\ m \in j + 1 .. k /\ j + d <= k /\ j + d \in 0 .. n)
      OBVIOUS
    <2>2. m <= k => SumUpTo(g, j + d) = SumUpTo(g, j)
      BY <1>2, <2>1
    <2> HIDE DEF m
    <2>3. m <= k => /\ SumUpTo(g, m) = SumUpTo(g, j + d) + g[m] /\ g[m] = 0
                    /\ SumUpTo(g, j + d) \in Nat
      BY <2>1, SumSteps
    <2>4. m <= k => SumUpTo(g, m) = SumUpTo(g, j)
      BY <2>2, <2>3
    <2> QED BY <2>4 DEF m
  <1> HIDE DEF T
  <1>3. k - j \in T
    <2>1. k - j \in Nat
      OBVIOUS
    <2> QED BY <1>1, <1>2, <2>1, SetInduction
  <1>4. j + (k - j) = k
    OBVIOUS
  <1> QED BY <1>3, <1>4 DEF T

(* A multiple is divided without remainder.                                *)
LEMMA WholeDiv ==
    ASSUME NEW n \in Nat, NEW s \in Nat \ {0}
    PROVE  (n * s) % s = 0 /\ (n * s) \div s = n
  <1> DEFINE m == n * s
             q == m \div s
             r == m % s
  <1>1. m \in Nat
    OBVIOUS
  <1>2. q \in Nat /\ r \in 0 .. s - 1 /\ m = s * q + r
    <2> HIDE DEF m
    <2> QED BY <1>1
  <1> HIDE DEF q, r
  <1>3. n * s = s * q + r
    BY <1>2
  <1>4. ~ (n > q)
    <2> SUFFICES ASSUME n > q PROVE FALSE
      OBVIOUS
    <2>1. PICK d \in Nat : n = q + 1 + d
      <3>1. n - q - 1 \in Nat /\ n = q + 1 + (n - q - 1)
        BY <1>2
      <3> QED BY <3>1
    <2>2. n * s = s * q + s + d * s /\ d * s >= 0
      BY <1>2, <2>1
    <2> QED BY <1>2, <1>3, <2>2
  <1>5. ~ (q > n)
    <2> SUFFICES ASSUME q > n PROVE FALSE
      OBVIOUS
    <2>1. PICK d \in Nat : q = n + 1 + d
      <3>1. q - n - 1 \in Nat /\ q = n + 1 + (q - n - 1)
        BY <1>2
      <3> QED BY <3>1
    <2>2. s * q = n * s + s + d * s /\ d * s >= 0
      BY <1>2, <2>1
    <2> QED BY <1>2, <1>3, <2>2
  <1>6. q = n
    BY <1>2, <1>4, <1>5
  <1>7. r = 0
    BY <1>2, <1>3, <1>6
  <1> QED BY <1>6, <1>7 DEF q, r

---------------------------------------------------------------------------
(* The element at a position of SortDesc(s): fewer positions of s exceed   *)
(* it, and that many reach it.                                             *)
LEMMA SortDescRank ==
    ASSUME NEW s, IsFiniteSet(DOMAIN s), Elements(s) \subseteq Nat
    PROVE  /\ Cardinality(DOMAIN s) \in Nat
           /\ \A i \in 1 .. Cardinality(DOMAIN s) :
                /\ SortDesc(s)[i] \in Elements(s)
                /\ Cardinality(Above(s, SortDesc(s)[i])) < i
                /\ i <= Cardinality(AtLeast(s, SortDesc(s)[i]))
           /\ \A x : /\ IsFiniteSet(Above(s, x)) /\ IsFiniteSet(AtLeast(s, x))
                     /\ Cardinality(Above(s, x)) \in Nat
                     /\ Cardinality(AtLeast(s, x)) \in Nat
           /\ \A x, y \in Elements(s) :
                x < y => Cardinality(AtLeast(s, y)) <= Cardinality(Above(s, x))
           /\ \A x \in Elements(s) : /\ Cardinality(Above(s, x)) < Cardinality(AtLeast(s, x))
                                     /\ Cardinality(AtLeast(s, x)) <= Cardinality(DOMAIN s)
<1> DEFINE n == Cardinality(DOMAIN s)
<1>1. n \in Nat
  BY FS_CardinalityType
<1>2. \A x : /\ Above(s, x) \in SUBSET DOMAIN s /\ AtLeast(s, x) \in SUBSET DOMAIN s
             /\ IsFiniteSet(Above(s, x)) /\ IsFiniteSet(AtLeast(s, x))
             /\ Cardinality(Above(s, x)) \in Nat /\ Cardinality(AtLeast(s, x)) \in Nat
             /\ Cardinality(AtLeast(s, x)) <= n
  <2> TAKE x
  <2>1. Above(s, x) \in SUBSET DOMAIN s /\ AtLeast(s, x) \in SUBSET DOMAIN s
    BY DEF Above, AtLeast
  <2>2. IsFiniteSet(Above(s, x)) /\ IsFiniteSet(AtLeast(s, x)) /\ Cardinality(AtLeast(s, x)) <= n
    BY <2>1, FS_Subset
  <2> QED BY <2>1, <2>2, FS_CardinalityType
<1>3. ASSUME NEW x \in Elements(s), NEW y \in Elements(s), x < y
      PROVE  Cardinality(AtLeast(s, y)) <= Cardinality(Above(s, x))
  <2>1. x \in Nat /\ y \in Nat /\ \A j \in DOMAIN s : s[j] \in Nat
    BY DEF Elements
  <2>2. \A j \in DOMAIN s : s[j] >= y => s[j] > x
    BY <1>3, <2>1
  <2>3. AtLeast(s, y) \in SUBSET Above(s, x)
    BY <2>2 DEF AtLeast, Above
  <2> QED BY <1>2, <2>3, FS_Subset
<1>4. ASSUME NEW x \in Elements(s)
      PROVE  Cardinality(Above(s, x)) < Cardinality(AtLeast(s, x))
  <2> DEFINE a == Above(s, x)
             b == AtLeast(s, x)
  <2>1. PICK l \in DOMAIN s : s[l] = x
    BY DEF Elements
  <2>2. x \in Nat /\ \A j \in DOMAIN s : s[j] \in Nat
    BY DEF Elements
  <2>3. \A j \in DOMAIN s : s[j] > x => s[j] >= x /\ j # l
    BY <2>1, <2>2
  <2>4. l \in b
    BY <2>1, <2>2 DEF AtLeast
  <2>5. a \in SUBSET (b \ {l})
    BY <2>3 DEF AtLeast, Above
  <2>6. IsFiniteSet(b) /\ Cardinality(b) \in Nat /\ Cardinality(a) \in Nat
    BY <1>2
  <2> HIDE DEF a, b
  <2>7. IsFiniteSet(b \ {l}) /\ Cardinality(b \ {l}) = Cardinality(b) - 1
    BY <2>4, <2>6, FS_RemoveElement
  <2>8. Cardinality(a) <= Cardinality(b \ {l})
    BY <2>5, <2>7, FS_Subset
  <2>9. Cardinality(a) < Cardinality(b)
    BY <2>6, <2>7, <2>8
  <2> QED BY <2>9 DEF a, b
<1>5. ASSUME NEW i \in 1 .. n
      PROVE  \E x \in Elements(s) :
                Cardinality(Above(s, x)) < i /\ i <= Cardinality(AtLeast(s, x))
  <2> DEFINE T == {x \in Elements(s) : i <= Cardinality(AtLeast(s, x))}
             C == {Cardinality(Above(s, x)) : x \in T}
  <2>0. i \in Nat /\ 1 <= i /\ i <= n
    BY <1>1
  <2>1. T # {}
    <3>1. DOMAIN s # {}
      BY <2>0, FS_EmptySet
    <3>2. Elements(s) # {}
      BY <3>1 DEF Elements
    <3>3. PICK m \in Elements(s) : \A y \in Elements(s) : m <= y
      BY <3>2, LeastNat
    <3>4. AtLeast(s, m) = DOMAIN s
      BY <3>3 DEF AtLeast, Elements
    <3> QED BY <3>3, <3>4, <2>0
  <2>2. C \in SUBSET Nat /\ C # {}
    BY <1>2, <2>1
  <2>3. PICK c \in C : \A d \in C : c <= d
    BY <2>2, LeastNat
  <2>4. PICK x \in T : c = Cardinality(Above(s, x))
    BY <2>3
  <2>5. Cardinality(Above(s, x)) < i
    <3>1. SUFFICES ASSUME ~ (Cardinality(Above(s, x)) < i) PROVE FALSE
      OBVIOUS
    <3>2. Cardinality(Above(s, x)) >= i
      BY <3>1, <1>2, <2>0
    <3> DEFINE Y == {s[j] : j \in Above(s, x)}
    <3>3. Y \in SUBSET Nat /\ Y # {}
      <4>1. Above(s, x) # {}
        BY <3>2, <2>0, FS_EmptySet
      <4> QED BY <4>1 DEF Above, Elements
    <3>4. PICK y \in Y : \A z \in Y : y <= z
      BY <3>3, LeastNat
    <3>5. PICK j \in Above(s, x) : y = s[j]
      BY <3>4
    <3>6. y \in Nat /\ x \in Nat /\ y > x /\ y \in Elements(s)
      BY <3>5, <2>4 DEF Above, Elements
    <3>7. AtLeast(s, y) = Above(s, x)
      <4>1. ASSUME NEW l \in AtLeast(s, y) PROVE l \in Above(s, x)
        BY <3>6 DEF Above, AtLeast, Elements
      <4>2. ASSUME NEW l \in Above(s, x) PROVE l \in AtLeast(s, y)
        BY <3>4, <3>6 DEF Above, AtLeast, Elements
      <4> QED BY <4>1, <4>2
    <3>8. y \in T
      BY <3>6, <3>7, <3>2
    <3>9. Cardinality(Above(s, y)) < Cardinality(Above(s, x))
      BY <1>4, <3>6, <3>7
    <3>10. c <= Cardinality(Above(s, y))
      BY <3>8, <2>3
    <3> QED BY <3>9, <3>10, <2>4, <1>2
  <2> QED BY <2>4, <2>5
<1>6. ASSUME NEW i \in 1 .. n
      PROVE  /\ SortDesc(s)[i] \in Elements(s)
             /\ Cardinality(Above(s, SortDesc(s)[i])) < i
             /\ i <= Cardinality(AtLeast(s, SortDesc(s)[i]))
  <2>1. SortDesc(s)[i] =
          CHOOSE x \in Elements(s) :
            Cardinality(Above(s, x)) < i /\ i <= Cardinality(AtLeast(s, x))
    BY DEF SortDesc
  <2> QED BY <2>1, <1>5
<1> QED BY <1>1, <1>2, <1>3, <1>4, <1>6

(* Every position of SortDesc(s) holds an element of s: sorting neither    *)
(* invents elements nor runs past the end.                                 *)
LEMMA SortDescType ==
    ASSUME NEW s, IsFiniteSet(DOMAIN s), Elements(s) \subseteq Nat
    PROVE  SortDesc(s) \in Seq(Elements(s))
<1> DEFINE n == Cardinality(DOMAIN s)
<1>1. n \in Nat /\ \A i \in 1 .. n : SortDesc(s)[i] \in Elements(s)
  BY SortDescRank
<1>2. SortDesc(s) = [i \in 1 .. n |-> SortDesc(s)[i]]
  BY DEF SortDesc
<1> HIDE DEF n
<1>3. SortDesc(s) \in [1 .. n -> Elements(s)]
  BY <1>1, <1>2
<1> QED BY <1>1, <1>3

(* Sorting loses no element, and none comes before a larger one.           *)
LEMMA SortDescOrder ==
    ASSUME NEW s, IsFiniteSet(DOMAIN s), Elements(s) \subseteq Nat
    PROVE  /\ DOMAIN SortDesc(s) = 1 .. Cardinality(DOMAIN s)
           /\ Elements(SortDesc(s)) = Elements(s)
           /\ \A i, j \in DOMAIN SortDesc(s) :
                i < j => SortDesc(s)[i] >= SortDesc(s)[j]
<1> DEFINE n == Cardinality(DOMAIN s)
           t == SortDesc(s)
           A(x) == Cardinality(Above(s, x))
           B(x) == Cardinality(AtLeast(s, x))
<1>1. DOMAIN t = 1 .. n
  BY DEF SortDesc
<1>2. /\ n \in Nat
      /\ \A i \in 1 .. n : t[i] \in Elements(s) /\ A(t[i]) < i /\ i <= B(t[i])
      /\ \A x : A(x) \in Nat /\ B(x) \in Nat
      /\ \A x, y \in Elements(s) : x < y => B(y) <= A(x)
      /\ \A x \in Elements(s) : A(x) < B(x) /\ B(x) <= n
  BY SortDescRank
<1> HIDE DEF n, t, A, B
<1>3. ASSUME NEW i \in 1 .. n, NEW j \in 1 .. n, i < j PROVE t[i] >= t[j]
  <2>1. t[i] \in Nat /\ t[j] \in Nat
    BY <1>2
  <2>2. t[i] < t[j] => B(t[j]) <= A(t[i])
    BY <1>2
  <2> QED BY <1>2, <1>3, <2>1, <2>2
<1>4. ASSUME NEW x \in Elements(s) PROVE x \in Elements(t)
  <2> DEFINE r == B(x)
  <2>1. r \in 1 .. n
    BY <1>2
  <2>2. /\ t[r] \in Elements(s) /\ t[r] \in Nat /\ x \in Nat
        /\ A(t[r]) < r /\ r <= B(t[r])
    BY <1>2, <2>1
  <2>3. ~ (t[r] < x)
    BY <1>2, <2>2
  <2>4. ~ (x < t[r])
    BY <1>2, <2>2
  <2>5. t[r] = x
    BY <2>2, <2>3, <2>4
  <2> QED BY <1>1, <2>1, <2>5 DEF Elements
<1>5. Elements(t) \subseteq Elements(s)
  BY <1>1, <1>2 DEF Elements
<1> QED BY <1>1, <1>3, <1>4, <1>5 DEF n, t

(* The sorted list of a finite set of indices lists its members, each one  *)
(* once, in decreasing order.                                              *)
LEMMA SetToSortedDescType ==
    ASSUME NEW S \in SUBSET Nat, IsFiniteSet(S)
    PROVE  /\ SetToSortedDesc(S) \in Seq(S)
           /\ Elements(SetToSortedDesc(S)) = S
           /\ \A i, j \in DOMAIN SetToSortedDesc(S) :
                i < j => SetToSortedDesc(S)[i] > SetToSortedDesc(S)[j]
<1> DEFINE f == [x \in S |-> x]
           t == SortDesc(f)
           n == Cardinality(S)
<1>1. DOMAIN f = S /\ Elements(f) = S /\ \A x \in S : f[x] = x
  BY DEF Elements
<1> HIDE DEF f
<1>2. /\ t \in Seq(S) /\ Elements(t) = S /\ DOMAIN t = 1 .. n
      /\ \A i, j \in 1 .. n : i < j => t[i] >= t[j]
  BY <1>1, SortDescType, SortDescOrder
<1>3. /\ n \in Nat
      /\ \A i \in 1 .. n : /\ t[i] \in S /\ Cardinality(Above(f, t[i])) < i
                            /\ i <= Cardinality(AtLeast(f, t[i]))
      /\ \A x : /\ IsFiniteSet(Above(f, x)) /\ IsFiniteSet(AtLeast(f, x))
                /\ Cardinality(Above(f, x)) \in Nat /\ Cardinality(AtLeast(f, x)) \in Nat
  BY <1>1, SortDescRank
<1>4. ASSUME NEW x \in S
      PROVE  Cardinality(AtLeast(f, x)) = Cardinality(Above(f, x)) + 1
  <2>1. AtLeast(f, x) = Above(f, x) \cup {x} /\ x \notin Above(f, x)
    <3>1. \A j \in S : j \in Nat /\ f[j] = j
      BY <1>1
    <3>2. \A j \in S : j >= x <=> (j > x \/ j = x)
      BY <3>1
    <3>3. ~ (x > x)
      BY <3>1
    <3> QED BY <1>1, <3>1, <3>2, <3>3 DEF AtLeast, Above
  <2> QED BY <1>3, <2>1, FS_AddElement
<1> HIDE DEF t, n
<1>5. ASSUME NEW i \in 1 .. n, NEW j \in 1 .. n, i < j PROVE t[i] > t[j]
  <2>1. t[i] \in Nat /\ t[j] \in Nat /\ t[i] >= t[j]
    BY <1>2, <1>3, <1>5
  <2> DEFINE a(x) == Cardinality(Above(f, x))
  <2>2. /\ a(t[i]) \in Nat /\ a(t[j]) \in Nat
        /\ a(t[i]) < i /\ j <= a(t[j]) + 1
    BY <1>3, <1>4
  <2> HIDE DEF a
  <2>3. t[i] # t[j]
    BY <1>5, <2>2
  <2> QED BY <2>1, <2>3
<1> QED BY <1>2, <1>5 DEF SetToSortedDesc, t, f
===========================================================================
