-------------------------- MODULE Layout_proofs ---------------------------
(***************************************************************************)
(* The generated methods of a type agree about its layout.  What they      *)
(* promise each other is proved for every type by induction on types: from *)
(* the promises of a type's parts, those of its own methods.  The          *)
(* invariants of a caller's object follow.                                 *)
(***************************************************************************)
EXTENDS Layout, Induction

---------------------------------------------------------------------------
(* The two recursions: the objects of d levels, and the methods of a type  *)
(* out of those of its parts.                                              *)
Level(d, below) == [n : Int, ok : BOOLEAN, of : IF d = 0 THEN {<< >>} ELSE Seq(below)]
Levels(f, n)    == \A d \in 0 .. n : f[d] = Level(d, f[d - 1])

LEMMA LevelsExist ==
    \A n \in Nat : \E f : Levels(f, n)
<1> DEFINE D == {n \in Nat : \E f : Levels(f, n)}
<1>1. 0 \in D
  <2> DEFINE f == [d \in {0} |-> Level(0, {})]
  <2>1. f[0] = Level(0, f[0 - 1])
    BY DEF Level
  <2> HIDE DEF f
  <2>2. Levels(f, 0)
    BY <2>1 DEF Levels
  <2> QED BY <2>2
<1>2. ASSUME NEW n \in Nat, n \in D PROVE n + 1 \in D
  <2>1. PICK f : Levels(f, n)
    BY <1>2
  <2> DEFINE g == [d \in 0 .. n + 1 |-> IF d = n + 1 THEN Level(n + 1, f[n]) ELSE f[d]]
  <2>2. g[n + 1] = Level(n + 1, f[n]) /\ \A d \in 0 .. n : g[d] = f[d]
    OBVIOUS
  <2> HIDE DEF g
  <2>3. ASSUME NEW d \in 0 .. n + 1 PROVE g[d] = Level(d, g[d - 1])
    <3>1. CASE d = n + 1
      <4>1. d - 1 = n /\ n \in 0 .. n
        BY <3>1
      <4> QED BY <2>2, <3>1, <4>1
    <3>2. CASE d = 0
      <4>1. f[0] = Level(0, f[0 - 1]) /\ g[0] = f[0]
        BY <2>1, <2>2 DEF Levels
      <4> QED BY <3>2, <4>1 DEF Level
    <3>3. CASE d \in 1 .. n
      <4>1. d \in 0 .. n /\ d - 1 \in 0 .. n
        BY <3>3
      <4> QED BY <2>1, <2>2, <4>1 DEF Levels
    <3> QED BY <3>1, <3>2, <3>3
  <2>4. Levels(g, n + 1)
    BY <2>3 DEF Levels
  <2> QED BY <2>4
<1> HIDE DEF D
<1>3. \A n \in Nat : n \in D
  BY <1>1, <1>2, SetInduction
<1> QED BY <1>3 DEF D

LEMMA ObjectsIs ==
    \A d \in Nat : Objects[d] = Level(d, Objects[d - 1])
<1> DEFINE F(n) == CHOOSE f : Levels(f, n)
           g == [d \in Nat |-> F(d)[d]]
<1>1. \A n \in Nat : Levels(F(n), n)
  BY LevelsExist
<1>2. ASSUME NEW n \in Nat PROVE F(n + 1)[n] = F(n)[n]
  <2> DEFINE a == F(n)
             b == F(n + 1)
  <2>1. Levels(a, n) /\ Levels(b, n + 1)
    BY <1>1
  <2> HIDE DEF a, b
  <2>2. a[0] = b[0]
    <3>1. 0 \in 0 .. n /\ 0 \in 0 .. n + 1
      OBVIOUS
    <3>2. a[0] = Level(0, a[0 - 1]) /\ b[0] = Level(0, b[0 - 1])
      BY <2>1, <3>1 DEF Levels
    <3> QED BY <3>2 DEF Level
  <2>3. \A i \in 1 .. n : a[i - 1] = b[i - 1] => a[i] = b[i]
    BY <2>1 DEF Levels
  <2>4. \A i \in 0 .. n : a[i] = b[i]
    BY <2>2, <2>3, StepsAgree
  <2> QED BY <2>4 DEF a, b
<1> HIDE DEF F
<1>3. ASSUME NEW d \in Nat PROVE g[d] = Level(d, g[d - 1])
  <2>1. F(d)[d] = Level(d, F(d)[d - 1])
    BY <1>1 DEF Levels
  <2>2. CASE d = 0
    BY <2>1, <2>2 DEF Level
  <2>3. CASE d # 0
    <3>1. d - 1 \in Nat /\ (d - 1) + 1 = d
      BY <2>3
    <3>2. F(d)[d - 1] = F(d - 1)[d - 1]
      BY <1>2, <3>1
    <3> QED BY <2>1, <3>1, <3>2
  <2> QED BY <2>2, <2>3
<1>4. g = [d \in Nat |-> [n : Int, ok : BOOLEAN, of : IF d = 0 THEN {<< >>} ELSE Seq(g[d - 1])]]
  BY <1>3 DEF Level
<1> HIDE DEF g
<1> DEFINE Is(f) == f = [d \in Nat |-> [n : Int, ok : BOOLEAN,
                                        of : IF d = 0 THEN {<< >>} ELSE Seq(f[d - 1])]]
<1>5. Objects = CHOOSE f : Is(f)
  BY DEF Objects
<1>6. Is(Objects)
  BY <1>4, <1>5
<1> QED BY <1>6 DEF Level

LEMMA TypeFacts ==
    ASSUME NEW t \in Types
    PROVE  /\ t.t \in Kinds /\ t.fix \in BOOLEAN /\ t.size \in Nat /\ t.max \in Nat
           /\ t.unit \in Nat /\ t.ptr \in BOOLEAN /\ t.deep \in Nat
           /\ t.parts \in Seq(Types) /\ t.heads \in Seq(Nat) /\ WellFormed(t)
           /\ \A i \in DOMAIN t.parts : t.parts[i] \in Types /\ t.parts[i].deep < t.deep
<1>1. t \in TypeRecords /\ WellFormed(t) /\ \A i \in DOMAIN t.parts : t.parts[i].deep < t.deep
  BY TypesAssumption
<1>2. t.parts \in Seq(Types)
  BY <1>1 DEF TypeRecords
<1>3. \A i \in DOMAIN t.parts : t.parts[i] \in Types
  BY <1>2
<1> QED BY <1>1, <1>2, <1>3 DEF TypeRecords

(* What holds of a type when it holds of its parts holds of every type.    *)
LEMMA TypeInduction ==
    ASSUME NEW S,
           \A t \in Types : (\A i \in DOMAIN t.parts : t.parts[i] \in S) => t \in S
    PROVE  Types \subseteq S
<1> DEFINE D == {d \in Nat : \A t \in Types : t.deep < d => t \in S}
<1>1. 0 \in D
  BY TypeFacts
<1>2. ASSUME NEW d \in Nat, d \in D PROVE d + 1 \in D
  <2>1. SUFFICES ASSUME NEW t \in Types, t.deep < d + 1 PROVE t \in S
    OBVIOUS
  <2>2. ASSUME NEW i \in DOMAIN t.parts PROVE t.parts[i] \in S
    <3>1. t.parts[i] \in Types /\ t.parts[i].deep < t.deep
      BY TypeFacts
    <3>2. t.deep \in Nat /\ t.parts[i].deep \in Nat
      BY <3>1, TypeFacts
    <3>3. t.parts[i].deep < d
      BY <2>1, <3>1, <3>2
    <3> QED BY <1>2, <3>1, <3>3
  <2> QED BY <2>2
<1> HIDE DEF D
<1>3. \A d \in Nat : d \in D
  BY <1>1, <1>2, SetInduction
<1>4. ASSUME NEW t \in Types PROVE t \in S
  <2>1. t.deep \in Nat /\ t.deep + 1 \in D /\ t.deep < t.deep + 1
    BY <1>3, TypeFacts
  <2> QED BY <2>1 DEF D
<1> QED BY <1>4

PartsOf(f, t) == [i \in DOMAIN t.parts |-> f[t.parts[i]]]
Generates(f, d) == \A t \in Types : t.deep < d => f[t] = Methods(t, PartsOf(f, t))

LEMMA GeneratesExists ==
    \A d \in Nat : \E f : Generates(f, d)
<1> DEFINE D == {d \in Nat : \E f : Generates(f, d)}
<1>1. 0 \in D
  <2>1. Generates({}, 0)
    BY TypeFacts DEF Generates
  <2> QED BY <2>1
<1>2. ASSUME NEW d \in Nat, d \in D PROVE d + 1 \in D
  <2>1. PICK f : Generates(f, d)
    BY <1>2
  <2> DEFINE g == [t \in Types |-> Methods(t, PartsOf(f, t))]
  <2>2. ASSUME NEW t \in Types, t.deep < d + 1 PROVE g[t] = Methods(t, PartsOf(g, t))
    <3>1. ASSUME NEW i \in DOMAIN t.parts PROVE f[t.parts[i]] = g[t.parts[i]]
      <4>1. t.parts[i] \in Types /\ t.parts[i].deep < d
        <5>1. t.parts[i] \in Types /\ t.parts[i].deep < t.deep
          BY TypeFacts
        <5>2. t.deep \in Nat /\ t.parts[i].deep \in Nat
          BY <5>1, TypeFacts
        <5> QED BY <2>2, <5>1, <5>2
      <4>2. f[t.parts[i]] = Methods(t.parts[i], PartsOf(f, t.parts[i]))
        BY <2>1, <4>1 DEF Generates
      <4> QED BY <4>1, <4>2
    <3>2. PartsOf(f, t) = PartsOf(g, t)
      BY <3>1, Zenon DEF PartsOf
    <3>3. g[t] = Methods(t, PartsOf(f, t))
      OBVIOUS
    <3> QED BY <3>2, <3>3, Zenon
  <2> HIDE DEF g
  <2>3. Generates(g, d + 1)
    BY <2>2 DEF Generates
  <2> QED BY <2>3
<1> HIDE DEF D
<1>3. \A d \in Nat : d \in D
  BY <1>1, <1>2, SetInduction
<1> QED BY <1>3 DEF D

LEMMA GeneratesAgree ==
    ASSUME NEW f, NEW d \in Nat, Generates(f, d), NEW g, NEW e \in Nat, Generates(g, e)
    PROVE  \A t \in Types : t.deep < d /\ t.deep < e => f[t] = g[t]
<1> DEFINE S == {t \in Types : t.deep < d /\ t.deep < e => f[t] = g[t]}
<1>1. ASSUME NEW t \in Types, \A i \in DOMAIN t.parts : t.parts[i] \in S PROVE t \in S
  <2>1. SUFFICES ASSUME t.deep < d /\ t.deep < e PROVE f[t] = g[t]
    OBVIOUS
  <2>2. ASSUME NEW i \in DOMAIN t.parts PROVE f[t.parts[i]] = g[t.parts[i]]
    <3>1. t.parts[i] \in S /\ t.parts[i] \in Types /\ t.parts[i].deep < t.deep
      BY <1>1, TypeFacts
    <3>2. t.parts[i].deep \in Nat /\ t.deep \in Nat
      BY <3>1, TypeFacts
    <3>3. t.parts[i].deep < d /\ t.parts[i].deep < e
      BY <2>1, <3>1, <3>2
    <3> QED BY <3>1, <3>3
  <2>3. PartsOf(f, t) = PartsOf(g, t)
    BY <2>2, Zenon DEF PartsOf
  <2>4. f[t] = Methods(t, PartsOf(f, t)) /\ g[t] = Methods(t, PartsOf(g, t))
    BY <2>1 DEF Generates
  <2> QED BY <2>3, <2>4, Zenon
<1> HIDE DEF S
<1>2. Types \subseteq S
  BY <1>1, TypeInduction
<1> QED BY <1>2 DEF S

LEMMA GeneratedIs ==
    \A t \in Types : Generated[t] = Methods(t, PartsOf(Generated, t))
<1> DEFINE F(d) == CHOOSE f : Generates(f, d)
           g == [t \in Types |-> F(t.deep + 1)[t]]
<1>1. \A d \in Nat : Generates(F(d), d)
  BY GeneratesExists
<1> HIDE DEF F
<1>2. ASSUME NEW t \in Types PROVE g[t] = Methods(t, PartsOf(g, t))
  <2> DEFINE f == F(t.deep + 1)
  <2>1. t.deep \in Nat /\ t.deep + 1 \in Nat /\ t.deep < t.deep + 1
    BY TypeFacts
  <2>2. Generates(f, t.deep + 1)
    BY <1>1, <2>1
  <2>3. g[t] = Methods(t, PartsOf(f, t))
    BY <2>1, <2>2 DEF Generates
  <2>4. ASSUME NEW i \in DOMAIN t.parts PROVE f[t.parts[i]] = g[t.parts[i]]
    <3>1. t.parts[i] \in Types /\ t.parts[i].deep < t.deep
      BY TypeFacts
    <3> DEFINE x == t.parts[i]
               h == F(x.deep + 1)
    <3>2. x.deep \in Nat /\ x.deep + 1 \in Nat /\ x.deep < x.deep + 1 /\ x.deep < t.deep + 1
      BY <2>1, <3>1, TypeFacts
    <3>3. Generates(h, x.deep + 1)
      BY <1>1, <3>2
    <3>4. g[x] = h[x]
      BY <3>1
    <3> HIDE DEF h, f, x, g
    <3>5. x \in Types
      BY <3>1 DEF x
    <3>6. f[x] = h[x]
      BY <2>1, <2>2, <3>2, <3>3, <3>5, GeneratesAgree
    <3> QED BY <3>4, <3>6 DEF x
  <2> HIDE DEF f, g
  <2>5. PartsOf(f, t) = PartsOf(g, t)
    BY <2>4, Zenon DEF PartsOf
  <2> QED BY <2>3, <2>5, Zenon
<1> DEFINE Is(f) == f = [t \in Types |-> Methods(t, [i \in DOMAIN t.parts |-> f[t.parts[i]]])]
<1>3. Is(g)
  BY <1>2, Zenon DEF PartsOf
<1> HIDE DEF g
<1>4. Generated = CHOOSE f : Is(f)
  BY DEF Generated
<1>5. Is(Generated)
  BY <1>3, <1>4, Zenon
<1>6. ASSUME NEW t \in Types
      PROVE  Generated[t] = Methods(t, [i \in DOMAIN t.parts |-> Generated[t.parts[i]]])
  BY <1>5, Zenon
<1> QED BY <1>6, Zenon DEF PartsOf

---------------------------------------------------------------------------
(* The methods of a type, of its parts and of a member.                    *)
P(t)      == PartsOf(Generated, t)
Its(t, i) == Generated[Part(t, i)]

LEMMA MethodsAre ==
    ASSUME NEW t \in Types
    PROVE  /\ Generated[t].values = Values(t, P(t))
           /\ Generated[t].zero = Zero(t, P(t))
           /\ \A v \in Generated[t].values :
                /\ Generated[t].OrNew[v] = OrNew(t, P(t), v)
                /\ Generated[t].SizeSSZ[v] = SizeSSZ(t, P(t), v)
                /\ Generated[t].MarshalSSZTo[v] = MarshalSSZTo(t, P(t), v)
                /\ Generated[t].HashTreeRoot[v] = HashTreeRoot(t, P(t), v)
                /\ Generated[t].ValidBitlists[v] = ValidBitlists(t, P(t), v)
           /\ \A b \in Slices : Generated[t].UnmarshalSSZ[b] = UnmarshalSSZ(t, P(t), b)
<1>1. Generated[t] = Methods(t, P(t))
  BY GeneratedIs, Zenon DEF P
<1>2. Values(t, P(t)) \subseteq Objects[t.deep]
  BY DEF Values
<1> QED BY <1>1, <1>2 DEF Methods

(* The members that a seq or struct has or may have.                       *)
Nests(t)      == t.t \in {"seq", "struct"}
Count(t, n)   == n \in Nat /\ (t.t = "struct" => n = Len(t.parts))

LEMMA MemberTypes ==
    ASSUME NEW t \in Types, Nests(t), NEW n, Count(t, n), NEW i \in 1 .. n
    PROVE  /\ Part(t, i) \in Types /\ Part(t, i).deep \in Nat /\ Part(t, i).deep < t.deep
           /\ Of(t, P(t), i) = Its(t, i)
<1> DEFINE j == IF t.t = "struct" THEN i ELSE 1
<1>1. t.parts \in Seq(Types) /\ t.t \in Kinds /\ WellFormed(t)
  BY TypeFacts
<1>2. j \in DOMAIN t.parts
  <2>1. CASE t.t = "struct"
    BY <1>1, <2>1 DEF Count
  <2>2. CASE t.t = "seq"
    <3>1. Len(t.parts) = 1
      BY <1>1, <2>2 DEF WellFormed
    <3> QED BY <1>1, <2>2, <3>1
  <2> QED BY <2>1, <2>2 DEF Nests
<1>3. Part(t, i) = t.parts[j] /\ Of(t, P(t), i) = P(t)[j]
  BY DEF Part, Of
<1> HIDE DEF j
<1>4. Part(t, i) \in Types /\ Part(t, i).deep < t.deep
  BY <1>2, <1>3, TypeFacts
<1>5. P(t)[j] = Generated[t.parts[j]]
  BY <1>2, Zenon DEF P, PartsOf
<1> QED BY <1>3, <1>4, <1>5, TypeFacts DEF Its

LEMMA ObjectsGrow ==
    ASSUME NEW d \in Nat, NEW e \in Nat, d <= e
    PROVE  Objects[d] \subseteq Objects[e]
<1> DEFINE D == {k \in Nat : Objects[k] \subseteq Objects[k + 1]}
<1>1. 0 \in D
  <2> DEFINE A == Objects[0]
             B == Objects[1]
             S == Seq(A)
  <2>1. A = Level(0, Objects[0 - 1]) /\ B = Level(1, A)
    <3>1. 1 - 1 = 0
      OBVIOUS
    <3> QED BY <3>1, ObjectsIs
  <2>2. {<< >>} \subseteq S
    OBVIOUS
  <2> HIDE DEF A, B
  <2>3. A = [n : Int, ok : BOOLEAN, of : {<< >>}] /\ B = [n : Int, ok : BOOLEAN, of : S]
    BY <2>1 DEF Level
  <2> HIDE DEF S
  <2>4. A \subseteq B
    BY <2>2, <2>3
  <2>5. Objects[0] \subseteq Objects[1]
    BY <2>4 DEF A, B
  <2>6. 0 + 1 = 1
    OBVIOUS
  <2>7. Objects[0] \subseteq Objects[0 + 1]
    BY <2>5, <2>6
  <2> QED BY <2>7
<1>2. ASSUME NEW k \in Nat, k \in D PROVE k + 1 \in D
  <2> DEFINE A == Objects[k]
             B == Objects[k + 1]
             C == Objects[(k + 1) + 1]
  <2>1. B = Level(k + 1, A) /\ C = Level((k + 1) + 1, B)
    <3>1. k + 1 \in Nat /\ (k + 1) + 1 \in Nat /\ (k + 1) - 1 = k /\ ((k + 1) + 1) - 1 = k + 1
      OBVIOUS
    <3> QED BY <3>1, ObjectsIs
  <2>2. A \subseteq B
    BY <1>2
  <2> HIDE DEF A, B, C
  <2>3. Seq(A) \subseteq Seq(B)
    BY <2>2
  <2>4. k + 1 # 0 /\ (k + 1) + 1 # 0
    OBVIOUS
  <2>5. B \subseteq C
    BY <2>1, <2>3, <2>4 DEF Level
  <2> QED BY <2>5 DEF B, C
<1> HIDE DEF D
<1>3. \A k \in Nat : k \in D
  BY <1>1, <1>2, SetInduction
<1> DEFINE Q == {k \in Nat : Objects[d] \subseteq Objects[d + k]}
<1>4. 0 \in Q
  OBVIOUS
<1>5. ASSUME NEW k \in Nat, k \in Q PROVE k + 1 \in Q
  <2>1. d + k \in D /\ (d + k) + 1 = d + (k + 1)
    BY <1>3
  <2>2. Objects[d + k] \subseteq Objects[d + (k + 1)]
    BY <2>1 DEF D
  <2> QED BY <1>5, <2>2
<1> HIDE DEF Q
<1>6. \A k \in Nat : k \in Q
  BY <1>4, <1>5, SetInduction
<1>7. e - d \in Q /\ d + (e - d) = e
  BY <1>6
<1> QED BY <1>7 DEF Q

LEMMA HeldIs ==
    ASSUME NEW t \in Types, Nests(t), NEW v \in Generated[t].values, v # Nil
    PROVE  /\ Count(t, Len(v.of)) /\ v.of = [i \in 1 .. Len(v.of) |-> v.of[i]]
           /\ v = Made(v.of)
           /\ \A i \in 1 .. Len(v.of) : v.of[i] \in Its(t, i).values
<1>1. v \in Values(t, P(t)) /\ t.deep \in Nat /\ t.parts \in Seq(Types)
  BY MethodsAre, TypeFacts
<1>2. v \in Objects[t.deep] /\ Holds(t, P(t), v)
  <2>1. CASE t.t = "seq"
    BY <1>1, <2>1 DEF Values
  <2>2. CASE t.t = "struct"
    BY <1>1, <2>2 DEF Values
  <2> QED BY <2>1, <2>2 DEF Nests
<1>3. v \in Level(t.deep, Objects[t.deep - 1])
  BY <1>1, <1>2, ObjectsIs
<1>4. v.n \in Int /\ v.ok \in BOOLEAN /\ v.of \in Seq(Objects[t.deep - 1])
      /\ v = [n |-> v.n, ok |-> v.ok, of |-> v.of]
  <2>1. CASE t.deep = 0
    <3>1. v \in [n : Int, ok : BOOLEAN, of : {<< >>}]
      BY <1>3, <2>1 DEF Level
    <3>2. v.n \in Int /\ v.ok \in BOOLEAN /\ v.of = << >>
          /\ v = [n |-> v.n, ok |-> v.ok, of |-> v.of]
      BY <3>1
    <3> QED BY <3>2
  <2>2. CASE t.deep # 0
    <3>1. v \in [n : Int, ok : BOOLEAN, of : Seq(Objects[t.deep - 1])]
      BY <1>3, <2>2 DEF Level
    <3> DEFINE S == Objects[t.deep - 1]
    <3> HIDE DEF S
    <3>2. v \in [n : Int, ok : BOOLEAN, of : Seq(S)]
      BY <3>1 DEF S
    <3>3. v.n \in Int /\ v.ok \in BOOLEAN /\ v.of \in Seq(S)
          /\ v = [n |-> v.n, ok |-> v.ok, of |-> v.of]
      BY <3>2
    <3> QED BY <3>3 DEF S
  <2> QED BY <2>1, <2>2
<1> DEFINE S == Objects[t.deep - 1]
<1> HIDE DEF S
<1>5. v.of \in Seq(S)
  BY <1>4 DEF S
<1>6. Len(v.of) \in Nat /\ DOMAIN v.of = 1 .. Len(v.of) /\ v.of = [i \in 1 .. Len(v.of) |-> v.of[i]]
  BY <1>5
<1>7. v = Made(v.of)
  BY <1>2, <1>4 DEF Holds, Made
<1>8. Count(t, Len(v.of))
  <2>1. CASE t.t = "struct"
    <3>1. DOMAIN v.of = DOMAIN t.parts
      BY <1>2, <2>1 DEF Holds
    <3>2. Len(v.of) = Len(t.parts)
      BY <1>1, <1>6, <3>1
    <3> QED BY <1>6, <3>2 DEF Count
  <2>2. CASE t.t # "struct"
    BY <1>6, <2>2 DEF Count
  <2> QED BY <2>1, <2>2
<1>9. ASSUME NEW i \in 1 .. Len(v.of) PROVE v.of[i] \in Its(t, i).values
  <2>1. v.of[i] \in Of(t, P(t), i).values
    BY <1>2, <1>6 DEF Holds
  <2> QED BY <1>8, <2>1, MemberTypes
<1> QED BY <1>6, <1>7, <1>8, <1>9

LEMMA MadeIs ==
    ASSUME NEW t \in Types, Nests(t), NEW n, Count(t, n),
           NEW of, of = [i \in 1 .. n |-> of[i]],
           \A i \in 1 .. n : of[i] \in Its(t, i).values
    PROVE  /\ Made(of) \in Generated[t].values /\ Made(of) # Nil
           /\ Made(of).of = of /\ Len(of) = n /\ DOMAIN of = 1 .. n
<1>1. n \in Nat /\ t.deep \in Nat /\ t.parts \in Seq(Types)
  BY TypeFacts DEF Count
<1> DEFINE S == Objects[t.deep - 1]
<1>2. ASSUME NEW i \in 1 .. n PROVE t.deep # 0 /\ of[i] \in S
  <2> DEFINE x == Part(t, i)
  <2>1. x \in Types /\ x.deep \in Nat /\ x.deep < t.deep
    BY MemberTypes
  <2>2. of[i] \in Values(x, P(x))
    <3>1. of[i] \in Generated[x].values
      BY DEF Its
    <3> QED BY <2>1, <3>1, MethodsAre
  <2> HIDE DEF x
  <2>3. of[i] \in Objects[x.deep]
    BY <2>2 DEF Values
  <2>4. t.deep - 1 \in Nat /\ x.deep <= t.deep - 1
    BY <1>1, <2>1
  <2>5. Objects[x.deep] \subseteq Objects[t.deep - 1]
    BY <2>1, <2>4, ObjectsGrow
  <2> QED BY <1>1, <2>1, <2>3, <2>5
<1> HIDE DEF S
<1>3. of \in [1 .. n -> S]
  BY <1>2
<1>4. of \in Seq(S) /\ Len(of) = n /\ DOMAIN of = 1 .. n
  BY <1>1, <1>3, FunctionIsSeq
<1>5. Made(of) \in Objects[t.deep]
  <2>1. Objects[t.deep] = Level(t.deep, S)
    BY <1>1, ObjectsIs DEF S
  <2>2. CASE t.deep = 0
    <3>1. n = 0
      BY <1>1, <1>2, <2>2
    <3>2. of = << >>
      BY <1>4, <3>1
    <3> QED BY <2>1, <2>2, <3>2 DEF Level, Made
  <2>3. CASE t.deep # 0
    BY <1>4, <2>1, <2>3 DEF Level, Made
  <2> QED BY <2>2, <2>3
<1>6. Holds(t, P(t), Made(of))
  <2>1. ASSUME NEW i \in 1 .. n PROVE of[i] \in Of(t, P(t), i).values
    BY MemberTypes
  <2>2. CASE t.t = "struct"
    <3>1. DOMAIN of = DOMAIN t.parts
      BY <1>1, <1>4, <2>2 DEF Count
    <3> QED BY <1>4, <2>1, <3>1 DEF Holds, Made
  <2>3. CASE t.t # "struct"
    BY <1>4, <2>1, <2>3 DEF Holds, Made, Nests
  <2> QED BY <2>2, <2>3
<1>7. Made(of) \in Values(t, P(t))
  <2>1. CASE t.t = "seq"
    BY <1>5, <1>6, <2>1 DEF Values
  <2>2. CASE t.t = "struct"
    BY <1>5, <1>6, <2>2 DEF Values
  <2> QED BY <2>1, <2>2 DEF Nests
<1>8. Made(of).of = of /\ Made(of).n = 1 /\ Nil.n = 0
  BY DEF Made, Nil, Plain
<1>9. Made(of) # Nil
  BY <1>8
<1>10. Generated[t].values = Values(t, P(t))
  BY MethodsAre
<1> QED BY <1>4, <1>7, <1>8, <1>9, <1>10

---------------------------------------------------------------------------
(* Loops.                                                                  *)
LEMMA LeastIs ==
    ASSUME NEW n \in Nat, NEW S \in SUBSET (1 .. n), S # {}
    PROVE  Least(S) \in S /\ \A j \in S : Least(S) <= j
<1>1. \E i \in S : \A j \in S : i <= j
  BY LeastNat
<1> QED BY <1>1 DEF Least

(* A function of the numbers up to n.                                      *)
Upto(r, n) == r = [i \in 1 .. n |-> r[i]]

LEMMA LoopIs ==
    ASSUME NEW n \in Nat, NEW r, Upto(r, n), NEW of, Upto(of, n)
    PROVE  /\ Outcome(r) = "ok" <=> \A i \in 1 .. n : r[i].res = "ok"
           /\ Outcome(r) # "ok" => \E i \in 1 .. n : Outcome(r) = r[i].res
           /\ Upto(After(r, of), n)
           /\ \A i \in 1 .. n : After(r, of)[i] = r[i].v \/ After(r, of)[i] = of[i]
           /\ Outcome(r) = "ok" => \A i \in 1 .. n : After(r, of)[i] = r[i].v
           /\ (\A i \in 1 .. n : r[i].v = of[i]) => After(r, of) = of
<1>1. DOMAIN r = 1 .. n /\ DOMAIN of = 1 .. n /\ of = [i \in 1 .. n |-> of[i]]
  BY DEF Upto
<1>2. Stops(r) \in SUBSET (1 .. n) /\ \A i \in 1 .. n : i \in Stops(r) <=> r[i].res # "ok"
  BY <1>1 DEF Stops
<1>3. CASE Stops(r) = {}
  <2>1. Outcome(r) = "ok" /\ \A i \in 1 .. n : r[i].res = "ok"
    BY <1>2, <1>3 DEF Outcome
  <2>2. \A i \in 1 .. n : Reached(r, i)
    BY <1>3 DEF Reached
  <2>3. After(r, of) = [i \in 1 .. n |-> r[i].v]
    BY <1>1, <2>2 DEF After
  <2>4. Upto(After(r, of), n)
    BY <2>3 DEF Upto
  <2>5. (\A i \in 1 .. n : r[i].v = of[i]) => After(r, of) = of
    BY <1>1, <2>3
  <2> QED BY <2>1, <2>3, <2>4, <2>5
<1>4. CASE Stops(r) # {}
  <2>1. Least(Stops(r)) \in Stops(r)
    BY <1>2, <1>4, LeastIs
  <2>2. Outcome(r) = r[Least(Stops(r))].res
    BY <1>4 DEF Outcome
  <2>3. Outcome(r) # "ok" /\ Least(Stops(r)) \in 1 .. n
    BY <1>2, <2>1, <2>2
  <2>4. After(r, of) = [i \in 1 .. n |-> IF Reached(r, i) THEN r[i].v ELSE of[i]]
    BY <1>1 DEF After
  <2>5. \A i \in 1 .. n : After(r, of)[i] = r[i].v \/ After(r, of)[i] = of[i]
    BY <2>4
  <2>6. (\A i \in 1 .. n : r[i].v = of[i]) => After(r, of) = of
    BY <1>1, <2>4
  <2>7. Upto(After(r, of), n)
    BY <2>4 DEF Upto
  <2> QED BY <1>2, <2>1, <2>2, <2>3, <2>5, <2>6, <2>7
<1> QED BY <1>3, <1>4

---------------------------------------------------------------------------
(* Where things lie: the heads, the tails behind them, and cuts in general.*)
LEMMA HeadsAre ==
    ASSUME NEW t \in Types, Nests(t), NEW n, Count(t, n)
    PROVE  /\ HeadPos(t, 1) = 0 /\ HeadPos(t, n + 1) = FixedSize(t, n)
           /\ \A i \in 1 .. n + 1 : HeadPos(t, i) \in Nat
           /\ \A i \in 1 .. n : /\ Width(Part(t, i)) \in Nat
                                /\ HeadPos(t, i + 1) = HeadPos(t, i) + Width(Part(t, i))
           /\ t.t = "struct" => FixedSize(t, n) = t.size
<1>1. n \in Nat /\ t.parts \in Seq(Types) /\ t.heads \in Seq(Nat) /\ WellFormed(t)
  BY TypeFacts DEF Count
<1>2. \A i \in 1 .. n : Width(Part(t, i)) \in Nat
  <2> TAKE i \in 1 .. n
  <2>1. Part(t, i) \in Types
    BY MemberTypes
  <2> QED BY <2>1, TypeFacts DEF Width
<1>3. CASE t.t = "struct"
  <2>1. /\ Len(t.heads) = Len(t.parts) + 1 /\ t.heads[1] = 0
        /\ \A i \in DOMAIN t.parts : t.heads[i + 1] = t.heads[i] + Width(t.parts[i])
        /\ t.size = t.heads[Len(t.parts) + 1]
    BY <1>1, <1>3 DEF WellFormed
  <2>2. n = Len(t.parts) /\ DOMAIN t.parts = 1 .. n
    BY <1>1, <1>3 DEF Count
  <2>3. \A i \in 1 .. n + 1 : t.heads[i] \in Nat
    BY <1>1, <2>1, <2>2
  <2>4. \A i : HeadPos(t, i) = t.heads[i] /\ Part(t, i) = t.parts[i]
    BY <1>3 DEF HeadPos, Part
  <2>5. FixedSize(t, n) = t.size
    BY <1>3 DEF FixedSize
  <2> QED BY <1>2, <2>1, <2>2, <2>3, <2>4, <2>5
<1>4. CASE t.t = "seq"
  <2> DEFINE w == Width(t.parts[1])
  <2>1. w \in Nat
    <3>1. Len(t.parts) = 1
      BY <1>1, <1>4 DEF WellFormed
    <3>2. t.parts[1] \in Types
      BY <1>1, <3>1
    <3> QED BY <3>2, TypeFacts DEF Width
  <2>2. \A i : HeadPos(t, i) = (i - 1) * w /\ Width(Part(t, i)) = w
    BY <1>4 DEF HeadPos, Part
  <2>3. FixedSize(t, n) = n * w
    BY <1>4 DEF FixedSize
  <2> HIDE DEF w
  <2>4. (1 - 1) * w = 0 /\ ((n + 1) - 1) * w = n * w
    BY <1>1, <2>1
  <2>5. \A i \in 1 .. n + 1 : (i - 1) * w \in Nat
    BY <1>1, <2>1
  <2>6. \A i \in 1 .. n : ((i + 1) - 1) * w = (i - 1) * w + w
    BY <1>1, <2>1
  <2> QED BY <1>4, <2>1, <2>2, <2>3, <2>4, <2>5, <2>6
<1> QED BY <1>3, <1>4 DEF Nests

LEMMA TailSums ==
    ASSUME NEW t, NEW n \in Nat, NEW sizes, DOMAIN sizes = 1 .. n,
           \A i \in 1 .. n : sizes[i] \in Nat
    PROVE  /\ TailSum(t, sizes, 1) = 0
           /\ \A i \in 1 .. n + 1 : TailSum(t, sizes, i) \in Nat
           /\ \A i \in 1 .. n : TailSum(t, sizes, i + 1)
                 = TailSum(t, sizes, i) + (IF Part(t, i).fix THEN 0 ELSE sizes[i])
<1> DEFINE g == [j \in 1 .. n |-> IF Part(t, j).fix THEN 0 ELSE sizes[j]]
<1>1. \A i : TailSum(t, sizes, i) = SumUpTo(g, i - 1)
  BY DEF TailSum
<1>2. \A i \in 1 .. n : g[i] \in Nat /\ g[i] = IF Part(t, i).fix THEN 0 ELSE sizes[i]
  OBVIOUS
<1> HIDE DEF g
<1>3. /\ SumUpTo(g, 0) = 0
      /\ \A k \in 0 .. n : SumUpTo(g, k) \in Nat
      /\ \A k \in 1 .. n : SumUpTo(g, k) = SumUpTo(g, k - 1) + g[k]
  BY <1>2, SumSteps
<1>4. 1 - 1 = 0 /\ \A i \in 1 .. n + 1 : i - 1 \in 0 .. n
  OBVIOUS
<1>5. \A i \in 1 .. n : (i + 1) - 1 = i
  OBVIOUS
<1> QED BY <1>1, <1>2, <1>3, <1>4, <1>5

(* The sum only looks at what is not of fixed size.                        *)
LEMMA TailSame ==
    ASSUME NEW t, NEW n \in Nat, NEW a, NEW b, DOMAIN a = 1 .. n, DOMAIN b = 1 .. n,
           NEW k \in 1 .. n + 1, \A i \in 1 .. n : a[i] \in Nat /\ b[i] \in Nat,
           \A i \in 1 .. n : i < k /\ ~ Part(t, i).fix => a[i] = b[i]
    PROVE  TailSum(t, a, k) = TailSum(t, b, k)
<1> DEFINE g == [j \in 1 .. n |-> IF Part(t, j).fix THEN 0 ELSE a[j]]
           h == [j \in 1 .. n |-> IF Part(t, j).fix THEN 0 ELSE b[j]]
           m == k - 1
<1>1. TailSum(t, a, k) = SumUpTo(g, m) /\ TailSum(t, b, k) = SumUpTo(h, m)
  BY DEF TailSum
<1>2. m \in Nat
  OBVIOUS
<1>3. \A i \in 1 .. m : g[i] \in Nat /\ g[i] = h[i]
  OBVIOUS
<1> HIDE DEF g, h, m
<1>4. SumUpTo(g, m) = SumUpTo(h, m)
  BY <1>2, <1>3, SumSame
<1> QED BY <1>1, <1>4

Ascends(c, n) == /\ n \in Nat
                 /\ \A i \in 1 .. n + 1 : c[i] \in Nat
                 /\ \A i \in 1 .. n : c[i] <= c[i + 1]

LEMMA CutsAscend ==
    ASSUME NEW c, NEW n, Ascends(c, n)
    PROVE  \A i, j \in 1 .. n + 1 : i <= j => c[i] <= c[j]
<1> SUFFICES ASSUME NEW i \in 1 .. n + 1 PROVE \A j \in 1 .. n + 1 : i <= j => c[i] <= c[j]
  OBVIOUS
<1>1. n \in Nat
  BY DEF Ascends
<1> DEFINE D == {k \in Nat : i + k <= n + 1 => c[i] <= c[i + k]}
<1>2. 0 \in D
  BY <1>1 DEF Ascends
<1>3. ASSUME NEW k \in Nat, k \in D PROVE k + 1 \in D
  <2>1. SUFFICES ASSUME i + (k + 1) <= n + 1 PROVE c[i] <= c[i + (k + 1)]
    OBVIOUS
  <2>2. i + k \in 1 .. n /\ i + k \in 1 .. n + 1 /\ (i + k) + 1 = i + (k + 1) /\ (i + k) + 1 \in 1 .. n + 1
    BY <1>1, <2>1
  <2>3. c[i] <= c[i + k] /\ c[i + k] <= c[(i + k) + 1] /\ c[i] \in Nat /\ c[i + k] \in Nat /\ c[(i + k) + 1] \in Nat
    BY <1>1, <1>3, <2>2 DEF Ascends
  <2> QED BY <2>2, <2>3
<1> HIDE DEF D
<1>4. \A k \in Nat : k \in D
  BY <1>2, <1>3, SetInduction
<1>5. ASSUME NEW j \in 1 .. n + 1, i <= j PROVE c[i] <= c[j]
  <2>1. j - i \in Nat /\ i + (j - i) = j /\ j <= n + 1
    BY <1>1, <1>5
  <2>2. j - i \in D
    BY <1>4, <2>1
  <2> QED BY <2>1, <2>2 DEF D
<1> QED BY <1>5

(* A position lies between two neighbouring cuts, and no other two.        *)
LEMMA CutsPart ==
    ASSUME NEW c, NEW n, Ascends(c, n), NEW q \in Nat, c[1] <= q, q < c[n + 1]
    PROVE  \E i \in 1 .. n :
             /\ c[i] <= q /\ q < c[i + 1]
             /\ \A j \in 1 .. n : c[j] <= q /\ q < c[j + 1] => j = i
<1>1. n \in Nat /\ (\A i \in 1 .. n + 1 : c[i] \in Nat)
      /\ \A i, j \in 1 .. n + 1 : i <= j => c[i] <= c[j]
  BY CutsAscend DEF Ascends
<1> DEFINE S == {i \in 1 .. n + 1 : q < c[i]}
<1>2. S \in SUBSET Nat /\ n + 1 \in S
  BY <1>1
<1>3. PICK k \in S : \A j \in S : k <= j
  BY <1>2, LeastNat
<1>4. k \in 1 .. n + 1 /\ q < c[k] /\ k # 1
  BY <1>1, <1>3
<1>5. k - 1 \in 1 .. n /\ (k - 1) + 1 = k /\ ~ (q < c[k - 1])
  <2>1. k - 1 \in 1 .. n /\ k - 1 \in 1 .. n + 1 /\ (k - 1) + 1 = k /\ ~ (k <= k - 1)
    BY <1>1, <1>4
  <2>2. k - 1 \notin S
    BY <1>3, <2>1
  <2> QED BY <2>1, <2>2
<1>6. c[k - 1] <= q
  BY <1>1, <1>5
<1>7. ASSUME NEW j \in 1 .. n, c[j] <= q, q < c[j + 1] PROVE j = k - 1
  <2>1. j \in 1 .. n + 1 /\ j + 1 \in 1 .. n + 1
    BY <1>1
  <2>2. j + 1 \in S /\ k <= j + 1
    BY <1>3, <1>7, <2>1
  <2>3. ~ (k <= j)
    <3>1. SUFFICES ASSUME k <= j PROVE FALSE
      OBVIOUS
    <3>2. c[k] <= c[j] /\ c[k] \in Nat /\ c[j] \in Nat
      BY <1>1, <1>4, <2>1, <3>1
    <3> QED BY <1>4, <1>7, <3>2
  <2> QED BY <1>4, <2>2, <2>3
<1> QED BY <1>4, <1>5, <1>6, <1>7

---------------------------------------------------------------------------
(* Pieces that cover the first n bytes: every one of these is in exactly   *)
(* one piece.                                                              *)
Has(x, q) == x.from <= q /\ q < x.to
Within(x, n) == x.from \in Nat /\ x.to \in Nat /\ x.from <= x.to /\ x.to <= n
Covers(at, n) ==
    /\ \A x \in at : Within(x, n)
    /\ \A q \in Nat : q < n => \E x \in at : Has(x, q) /\ \A y \in at : Has(y, q) => y = x

Offset(t, i, offsets) == Piece(<<i>>, HeadPos(t, i), HeadPos(t, i) + 4, "offset", offsets[i])
Gap(t, n, starts)     == Piece(<< >>, HeadPos(t, n + 1), starts[1], "gap", 0)

LEMMA PiecesAre ==
    ASSUME NEW t, NEW r, DOMAIN r = 1 .. Len(r), NEW starts, NEW offsets
    PROVE  \A y : y \in Pieces(t, r, starts, offsets) <=>
             \/ \E i \in 1 .. Len(r) : \E x \in r[i].at : y = Moved(x, i, Begin(t, i, starts))
             \/ \E i \in 1 .. Len(r) : ~ Part(t, i).fix /\ y = Offset(t, i, offsets)
             \/ y = Gap(t, Len(r), starts) /\ HeadPos(t, Len(r) + 1) < starts[1]
<1> DEFINE n == Len(r)
           A == UNION {{Moved(x, i, Begin(t, i, starts)) : x \in r[i].at} : i \in DOMAIN r}
           B == {Piece(<<i>>, HeadPos(t, i), HeadPos(t, i) + 4, "offset", offsets[i])
                    : i \in {j \in DOMAIN r : ~ Part(t, j).fix}}
           C == {x \in {Piece(<< >>, HeadPos(t, Len(r) + 1), starts[1], "gap", 0)} : x.from < x.to}
<1>1. Pieces(t, r, starts, offsets) = A \cup B \cup C
  BY DEF Pieces
<1>2. \A y : y \in A <=> \E i \in 1 .. n : \E x \in r[i].at : y = Moved(x, i, Begin(t, i, starts))
  BY DEF Begin
<1>3. \A y : y \in B <=> \E i \in 1 .. n : ~ Part(t, i).fix /\ y = Offset(t, i, offsets)
  BY DEF Offset
<1>4. \A y : y \in C <=> y = Gap(t, n, starts) /\ HeadPos(t, n + 1) < starts[1]
  <2>1. Gap(t, n, starts).from = HeadPos(t, n + 1) /\ Gap(t, n, starts).to = starts[1]
    BY DEF Gap, Piece
  <2>2. C = {x \in {Gap(t, n, starts)} : x.from < x.to}
    BY DEF Gap
  <2> HIDE DEF C
  <2> QED BY <2>1, <2>2
<1> HIDE DEF A, B, C
<1> QED BY <1>1, <1>2, <1>3, <1>4

LEMMA MovedIs ==
    ASSUME NEW x, NEW i, NEW start, NEW n, Within(x, n), start \in Nat, n \in Nat
    PROVE  /\ Within(Moved(x, i, start), start + n) /\ start <= Moved(x, i, start).from
           /\ \A q \in Nat : Has(Moved(x, i, start), q) <=> start <= q /\ Has(x, q - start)
<1>1. Moved(x, i, start).from = x.from + start /\ Moved(x, i, start).to = x.to + start
  BY DEF Moved, Piece
<1> QED BY <1>1 DEF Within, Has

(* The members cover their containers' bytes when their heads and tails    *)
(* lie side by side and each covers its own.                               *)
LEMMA PiecesCover ==
    ASSUME NEW t \in Types, Nests(t), NEW n, Count(t, n),
           NEW r, DOMAIN r = 1 .. n, Len(r) = n, NEW offsets,
           NEW starts, Ascends(starts, n), FixedSize(t, n) <= starts[1],
           \A i \in 1 .. n :
              IF Part(t, i).fix
              THEN starts[i + 1] = starts[i] /\ Covers(r[i].at, Part(t, i).size)
              ELSE Covers(r[i].at, starts[i + 1] - starts[i])
    PROVE  Covers(Pieces(t, r, starts, offsets), starts[n + 1])
<1> DEFINE c == [i \in 1 .. n + 1 |-> HeadPos(t, i)]
           all == Pieces(t, r, starts, offsets)
           end == HeadPos(t, n + 1)
           Lo(i) == Begin(t, i, starts)
           size(i) == IF Part(t, i).fix THEN Part(t, i).size ELSE starts[i + 1] - starts[i]
<1>1. n \in Nat /\ n + 1 \in 1 .. n + 1 /\ 1 \in 1 .. n + 1
  BY DEF Count
<1>2. /\ c[1] = 0 /\ c[n + 1] = end /\ end = FixedSize(t, n) /\ end \in Nat
      /\ \A i \in 1 .. n + 1 : c[i] = HeadPos(t, i) /\ c[i] \in Nat
      /\ \A i \in 1 .. n : Width(Part(t, i)) \in Nat /\ c[i + 1] = c[i] + Width(Part(t, i))
  <2>1. \A i \in 1 .. n : i \in 1 .. n + 1 /\ i + 1 \in 1 .. n + 1
    BY <1>1
  <2> QED BY <1>1, <2>1, HeadsAre
<1>3. Ascends(c, n)
  <2>1. \A i \in 1 .. n : i \in 1 .. n + 1
    BY <1>1
  <2> HIDE DEF c
  <2>2. \A i \in 1 .. n : c[i] <= c[i + 1]
    BY <1>2, <2>1
  <2> QED BY <1>1, <1>2, <2>2 DEF Ascends
<1>4. /\ \A i \in 1 .. n + 1 : starts[i] \in Nat
      /\ \A i, j \in 1 .. n + 1 : i <= j => starts[i] <= starts[j]
      /\ \A i, j \in 1 .. n + 1 : i <= j => c[i] <= c[j]
  BY <1>3, CutsAscend DEF Ascends
<1>5. \A i \in 1 .. n : i \in 1 .. n + 1 /\ i + 1 \in 1 .. n + 1
  BY <1>1
<1> HIDE DEF c
<1>6. ASSUME NEW i \in 1 .. n
      PROVE  /\ size(i) \in Nat /\ Covers(r[i].at, size(i)) /\ Lo(i) \in Nat
             /\ Part(t, i).fix => Lo(i) = c[i] /\ c[i + 1] = c[i] + size(i) /\ starts[i + 1] = starts[i]
             /\ ~ Part(t, i).fix => /\ Lo(i) = starts[i] /\ starts[i + 1] = starts[i] + size(i)
                                    /\ c[i + 1] = c[i] + 4
  <2>1. i \in 1 .. n + 1 /\ i + 1 \in 1 .. n + 1 /\ starts[i] <= starts[i + 1]
        /\ starts[i] \in Nat /\ starts[i + 1] \in Nat
    BY <1>5, <1>4 DEF Ascends
  <2>2. CASE Part(t, i).fix
    <3>1. Width(Part(t, i)) = Part(t, i).size
      BY <2>2 DEF Width
    <3> QED BY <1>2, <2>1, <2>2, <3>1, SMTT(30) DEF Begin
  <2>3. CASE ~ Part(t, i).fix
    <3>1. Width(Part(t, i)) = 4
      BY <2>3 DEF Width
    <3> QED BY <1>2, <2>1, <2>3, <3>1, SMTT(30) DEF Begin
  <2> QED BY <2>2, <2>3
<1> HIDE DEF size, Lo
<1>7. \A y : y \in all <=>
             \/ \E i \in 1 .. n : \E x \in r[i].at : y = Moved(x, i, Lo(i))
             \/ \E i \in 1 .. n : ~ Part(t, i).fix /\ y = Offset(t, i, offsets)
             \/ y = Gap(t, n, starts) /\ end < starts[1]
  <2> HIDE DEF end
  <2>1. end = HeadPos(t, n + 1)
    BY DEF end
  <2> HIDE DEF all
  <2>2. all = Pieces(t, r, starts, offsets)
    BY DEF all
  <2>3. Len(r) = n /\ DOMAIN r = 1 .. Len(r)
    OBVIOUS
  <2>4. \A y : y \in Pieces(t, r, starts, offsets) <=>
             \/ \E i \in 1 .. Len(r) : \E x \in r[i].at : y = Moved(x, i, Begin(t, i, starts))
             \/ \E i \in 1 .. Len(r) : ~ Part(t, i).fix /\ y = Offset(t, i, offsets)
             \/ y = Gap(t, Len(r), starts) /\ HeadPos(t, Len(r) + 1) < starts[1]
    BY <2>3, PiecesAre, Zenon
  <2> QED BY <2>1, <2>2, <2>3, <2>4, Zenon DEF Lo
<1> HIDE DEF all, end
<1>8. ASSUME NEW i \in 1 .. n, NEW x \in r[i].at
      PROVE  /\ Within(Moved(x, i, Lo(i)), Lo(i) + size(i)) /\ Lo(i) <= Moved(x, i, Lo(i)).from
             /\ \A q \in Nat : Has(Moved(x, i, Lo(i)), q) <=> Lo(i) <= q /\ Has(x, q - Lo(i))
  <2>1. Within(x, size(i)) /\ size(i) \in Nat /\ Lo(i) \in Nat
    BY <1>6 DEF Covers
  <2> QED BY <2>1, MovedIs
<1>9. ASSUME NEW i \in 1 .. n, ~ Part(t, i).fix
      PROVE  /\ Offset(t, i, offsets).from = c[i] /\ Offset(t, i, offsets).to = c[i + 1]
             /\ c[i] \in Nat /\ c[i + 1] \in Nat
  BY <1>2, <1>5, <1>6, <1>9 DEF Offset, Piece
<1>10. Gap(t, n, starts).from = end /\ Gap(t, n, starts).to = starts[1]
  BY DEF Gap, Piece, end
<1>11. end <= starts[1] /\ starts[1] <= starts[n + 1] /\ starts[1] \in Nat /\ starts[n + 1] \in Nat
  BY <1>1, <1>2, <1>4
<1>12. ASSUME NEW i \in 1 .. n
       PROVE  Lo(i) + size(i) <= starts[n + 1] /\ c[i + 1] <= end
              /\ (~ Part(t, i).fix => starts[1] <= Lo(i))
  <2>1. c[i + 1] <= c[n + 1] /\ starts[i + 1] <= starts[n + 1] /\ starts[1] <= starts[i]
    BY <1>1, <1>4, <1>5
  <2>2. c[i + 1] \in Nat /\ starts[i + 1] \in Nat /\ starts[i] \in Nat
    BY <1>2, <1>4, <1>5
  <2>3. CASE Part(t, i).fix
    <3>1. Lo(i) + size(i) = c[i + 1] /\ c[i + 1] <= end
      BY <1>2, <1>6, <2>1, <2>3
    <3> QED BY <1>2, <1>11, <2>2, <2>3, <3>1
  <2>4. CASE ~ Part(t, i).fix
    BY <1>2, <1>6, <1>11, <2>1, <2>2, <2>4
  <2> QED BY <2>3, <2>4
<1>13. ASSUME NEW y \in all PROVE Within(y, starts[n + 1])
  <2>1. CASE \E i \in 1 .. n : \E x \in r[i].at : y = Moved(x, i, Lo(i))
    <3>1. PICK i \in 1 .. n : \E x \in r[i].at : y = Moved(x, i, Lo(i))
      BY <2>1
    <3>2. Within(y, Lo(i) + size(i)) /\ Lo(i) \in Nat /\ size(i) \in Nat
      BY <1>6, <1>8, <3>1
    <3>3. Lo(i) + size(i) <= starts[n + 1]
      BY <1>12
    <3> QED BY <1>11, <3>2, <3>3 DEF Within
  <2>2. CASE \E i \in 1 .. n : ~ Part(t, i).fix /\ y = Offset(t, i, offsets)
    <3>1. PICK i \in 1 .. n : ~ Part(t, i).fix /\ y = Offset(t, i, offsets)
      BY <2>2
    <3>2. y.from = c[i] /\ y.to = c[i + 1] /\ c[i] \in Nat /\ c[i + 1] \in Nat
      BY <1>9, <3>1
    <3>3. c[i] <= c[i + 1] /\ c[i + 1] <= end
      BY <1>3, <1>12 DEF Ascends
    <3> QED BY <1>2, <1>11, <3>2, <3>3 DEF Within
  <2>3. CASE y = Gap(t, n, starts) /\ end < starts[1]
    BY <1>2, <1>10, <1>11, <2>3 DEF Within
  <2> QED BY <1>7, <2>1, <2>2, <2>3
<1>14. ASSUME NEW q \in Nat, q < end
       PROVE  \E x \in all : Has(x, q) /\ \A y \in all : Has(y, q) => y = x
  <2>1. c[1] <= q /\ q < c[n + 1]
    BY <1>2, <1>14
  <2>2. PICK i \in 1 .. n : /\ c[i] <= q /\ q < c[i + 1]
                            /\ \A j \in 1 .. n : c[j] <= q /\ q < c[j + 1] => j = i
    BY <1>3, <2>1, CutsPart
  <2>3. ASSUME NEW j \in 1 .. n, Part(t, j).fix, NEW x \in r[j].at, Has(Moved(x, j, Lo(j)), q)
        PROVE  j = i
    <3>1. Within(Moved(x, j, Lo(j)), Lo(j) + size(j)) /\ Lo(j) <= Moved(x, j, Lo(j)).from
      BY <1>8
    <3>2. Lo(j) = c[j] /\ c[j + 1] = c[j] + size(j) /\ size(j) \in Nat /\ Lo(j) \in Nat
      BY <1>6, <2>3
    <3>3. c[j] <= q /\ q < c[j + 1]
      BY <2>3, <3>1, <3>2 DEF Has, Within
    <3> QED BY <2>2, <3>3
  <2>4. ASSUME NEW j \in 1 .. n, ~ Part(t, j).fix, NEW x \in r[j].at, Has(Moved(x, j, Lo(j)), q)
        PROVE  FALSE
    <3>1. Lo(j) <= q /\ starts[1] <= Lo(j) /\ Lo(j) \in Nat
      BY <1>6, <1>8, <1>12, <2>4
    <3> QED BY <1>2, <1>11, <1>14, <3>1
  <2>5. ASSUME NEW j \in 1 .. n, ~ Part(t, j).fix, Has(Offset(t, j, offsets), q)
        PROVE  j = i
    <3>1. c[j] <= q /\ q < c[j + 1]
      BY <1>9, <2>5 DEF Has
    <3> QED BY <2>2, <3>1
  <2>6. ~ Has(Gap(t, n, starts), q)
    BY <1>2, <1>10, <1>14 DEF Has
  <2>7. CASE Part(t, i).fix
    <3>1. Lo(i) = c[i] /\ size(i) \in Nat /\ c[i] \in Nat /\ c[i + 1] = c[i] + size(i)
          /\ Covers(r[i].at, size(i))
      BY <1>6, <2>7
    <3>2. q - Lo(i) \in Nat /\ q - Lo(i) < size(i) /\ Lo(i) <= q
      BY <2>2, <3>1
    <3>3. PICK x \in r[i].at : Has(x, q - Lo(i)) /\ \A z \in r[i].at : Has(z, q - Lo(i)) => z = x
      BY <3>1, <3>2 DEF Covers
    <3> DEFINE m == Moved(x, i, Lo(i))
    <3>4. m \in all /\ Has(m, q)
      BY <1>7, <1>8, <3>2, <3>3
    <3>5. ASSUME NEW y \in all, Has(y, q) PROVE y = m
      <4>1. CASE \E j \in 1 .. n : \E z \in r[j].at : y = Moved(z, j, Lo(j))
        <5>1. PICK j \in 1 .. n : \E z \in r[j].at : y = Moved(z, j, Lo(j))
          BY <4>1
        <5>2. PICK z \in r[j].at : y = Moved(z, j, Lo(j))
          BY <5>1
        <5>3. j = i
          BY <2>3, <2>4, <3>5, <5>2
        <5>4. Has(z, q - Lo(i))
          BY <1>8, <3>5, <5>2, <5>3
        <5> QED BY <3>3, <5>2, <5>3, <5>4
      <4>2. CASE \E j \in 1 .. n : ~ Part(t, j).fix /\ y = Offset(t, j, offsets)
        BY <2>5, <2>7, <3>5, <4>2
      <4>3. CASE y = Gap(t, n, starts)
        BY <2>6, <3>5, <4>3
      <4> QED BY <1>7, <4>1, <4>2, <4>3
    <3> QED BY <3>4, <3>5
  <2>8. CASE ~ Part(t, i).fix
    <3> DEFINE m == Offset(t, i, offsets)
    <3>1. m \in all /\ Has(m, q)
      BY <1>7, <1>9, <2>2, <2>8 DEF Has
    <3>2. ASSUME NEW y \in all, Has(y, q) PROVE y = m
      <4>1. CASE \E j \in 1 .. n : \E z \in r[j].at : y = Moved(z, j, Lo(j))
        BY <2>3, <2>4, <2>8, <3>2, <4>1
      <4>2. CASE \E j \in 1 .. n : ~ Part(t, j).fix /\ y = Offset(t, j, offsets)
        BY <2>5, <3>2, <4>2
      <4>3. CASE y = Gap(t, n, starts)
        BY <2>6, <3>2, <4>3
      <4> QED BY <1>7, <4>1, <4>2, <4>3
    <3> QED BY <3>1, <3>2
  <2> QED BY <2>7, <2>8
<1>15. ASSUME NEW q \in Nat, end <= q
       PROVE  /\ \A j \in 1 .. n : ~ Part(t, j).fix => ~ Has(Offset(t, j, offsets), q)
              /\ \A j \in 1 .. n : Part(t, j).fix =>
                    \A x \in r[j].at : ~ Has(Moved(x, j, Lo(j)), q)
  <2>1. ASSUME NEW j \in 1 .. n, ~ Part(t, j).fix PROVE ~ Has(Offset(t, j, offsets), q)
    <3>1. Offset(t, j, offsets).to = c[j + 1] /\ c[j + 1] \in Nat /\ c[j + 1] <= end
      BY <1>9, <1>12, <2>1
    <3> QED BY <1>2, <1>15, <3>1 DEF Has
  <2>2. ASSUME NEW j \in 1 .. n, Part(t, j).fix, NEW x \in r[j].at
        PROVE  ~ Has(Moved(x, j, Lo(j)), q)
    <3>1. Within(Moved(x, j, Lo(j)), Lo(j) + size(j)) /\ c[j + 1] <= end
      BY <1>8, <1>12
    <3>2. Lo(j) = c[j] /\ c[j + 1] = c[j] + size(j) /\ size(j) \in Nat /\ Lo(j) \in Nat
      BY <1>6, <2>2
    <3> QED BY <1>2, <1>15, <3>1, <3>2 DEF Has, Within
  <2> QED BY <2>1, <2>2
<1>16. ASSUME NEW q \in Nat, end <= q, q < starts[1]
       PROVE  \E x \in all : Has(x, q) /\ \A y \in all : Has(y, q) => y = x
  <2> DEFINE m == Gap(t, n, starts)
  <2>1. end < starts[1]
    BY <1>2, <1>11, <1>16
  <2>2. m \in all /\ Has(m, q)
    BY <1>7, <1>10, <1>16, <2>1 DEF Has
  <2>3. ASSUME NEW j \in 1 .. n, NEW z \in r[j].at, Has(Moved(z, j, Lo(j)), q) PROVE FALSE
    <3>1. ~ Part(t, j).fix
      BY <1>15, <1>16, <2>3
    <3>2. Lo(j) <= q /\ starts[1] <= Lo(j) /\ Lo(j) \in Nat
      BY <1>6, <1>8, <1>12, <2>3, <3>1
    <3> QED BY <1>11, <1>16, <3>2
  <2>4. ASSUME NEW y \in all, Has(y, q) PROVE y = m
    BY <1>7, <1>15, <1>16, <2>3, <2>4
  <2> QED BY <2>2, <2>4
<1>17. ASSUME NEW q \in Nat, starts[1] <= q, q < starts[n + 1]
       PROVE  \E x \in all : Has(x, q) /\ \A y \in all : Has(y, q) => y = x
  <2>1. PICK i \in 1 .. n : /\ starts[i] <= q /\ q < starts[i + 1]
                            /\ \A j \in 1 .. n : starts[j] <= q /\ q < starts[j + 1] => j = i
    BY <1>17, CutsPart
  <2>2. end <= q /\ starts[i] \in Nat /\ starts[i + 1] \in Nat
    BY <1>2, <1>4, <1>5, <1>11, <1>17
  <2>3. ~ Part(t, i).fix
    BY <1>6, <2>1, <2>2
  <2>4. Lo(i) = starts[i] /\ size(i) \in Nat /\ starts[i + 1] = starts[i] + size(i) /\ Covers(r[i].at, size(i))
    BY <1>6, <2>3
  <2>5. q - Lo(i) \in Nat /\ q - Lo(i) < size(i) /\ Lo(i) <= q
    BY <2>1, <2>2, <2>4
  <2>6. PICK x \in r[i].at : Has(x, q - Lo(i)) /\ \A z \in r[i].at : Has(z, q - Lo(i)) => z = x
    BY <2>4, <2>5 DEF Covers
  <2> DEFINE m == Moved(x, i, Lo(i))
  <2>7. m \in all /\ Has(m, q)
    BY <1>7, <1>8, <2>5, <2>6
  <2>8. ASSUME NEW y \in all, Has(y, q) PROVE y = m
    <3>1. PICK j \in 1 .. n : \E z \in r[j].at : y = Moved(z, j, Lo(j))
      <4>1. ~ Has(Gap(t, n, starts), q)
        BY <1>10, <1>11, <1>17 DEF Has
      <4> QED BY <1>7, <1>15, <2>2, <2>8, <4>1
    <3>2. PICK z \in r[j].at : y = Moved(z, j, Lo(j))
      BY <3>1
    <3>3. ~ Part(t, j).fix
      BY <1>15, <2>2, <2>8, <3>2
    <3>4. Within(y, Lo(j) + size(j)) /\ Lo(j) <= y.from /\ size(j) \in Nat
          /\ Lo(j) = starts[j] /\ starts[j + 1] = starts[j] + size(j) /\ Lo(j) \in Nat
      BY <1>6, <1>8, <3>2, <3>3
    <3>5. starts[j] <= q /\ q < starts[j + 1]
      BY <2>8, <3>4 DEF Has, Within
    <3>6. j = i
      BY <2>1, <3>5
    <3>7. Has(z, q - Lo(i))
      BY <1>8, <2>8, <3>2, <3>6
    <3> QED BY <2>6, <3>2, <3>6, <3>7
  <2> QED BY <2>7, <2>8
<1>18. ASSUME NEW q \in Nat, q < starts[n + 1]
       PROVE  \E x \in all : Has(x, q) /\ \A y \in all : Has(y, q) => y = x
  <2>1. CASE q < end
    BY <1>14, <2>1
  <2>2. CASE end <= q /\ q < starts[1]
    BY <1>16, <2>2
  <2>3. CASE starts[1] <= q
    BY <1>17, <1>18, <2>3
  <2> QED BY <1>2, <1>11, <2>1, <2>2, <2>3
<1>19. Covers(all, starts[n + 1])
  BY <1>13, <1>18 DEF Covers
<1> QED BY <1>19 DEF all

---------------------------------------------------------------------------
(* What a type's methods return.                                           *)
Vals(t)      == Generated[t].values
NewOf(t, v)  == Generated[t].OrNew[v]
SizeOf(t, v) == Generated[t].SizeSSZ[v]
WireOf(t, v) == Generated[t].MarshalSSZTo[v]
RootOf(t, v) == Generated[t].HashTreeRoot[v]
ReadOf(t, b) == Generated[t].UnmarshalSSZ[b]
BitsOf(t, v) == Generated[t].ValidBitlists[v]

(* What the methods of members are called on.                              *)
Kid(t, v, i) == IF t.t = "struct" THEN NewOf(Part(t, i), v.of[i]) ELSE v.of[i]

LeafSize(t, v) == IF t.fix THEN t.size ELSE IF t.t = "list" THEN v.n * t.unit ELSE BitBytes(v.n)
LeafSays(t, v) == IF t.t = "bitlist" THEN v.n % 8 ELSE 0

LEMMA PlainIs ==
    ASSUME NEW d \in Nat, NEW n \in Int
    PROVE  Plain(n) \in Objects[d]
<1> DEFINE S == Objects[d - 1]
<1>1. Objects[d] = Level(d, S)
  BY ObjectsIs
<1> HIDE DEF S
<1>2. << >> \in Seq(S)
  OBVIOUS
<1>3. CASE d = 0
  <2>1. Level(d, S) = [n : Int, ok : BOOLEAN, of : {<< >>}]
    BY <1>3 DEF Level
  <2>2. Plain(n) \in [n : Int, ok : BOOLEAN, of : {<< >>}]
    BY DEF Plain
  <2> QED BY <1>1, <2>1, <2>2
<1>4. CASE d # 0
  <2>1. Level(d, S) = [n : Int, ok : BOOLEAN, of : Seq(S)]
    BY <1>4 DEF Level
  <2>2. Plain(n) \in [n : Int, ok : BOOLEAN, of : Seq(S)]
    BY <1>2 DEF Plain
  <2> QED BY <1>1, <2>1, <2>2
<1> QED BY <1>3, <1>4

LEMMA LeafIs ==
    ASSUME NEW t \in Types, ~ Nests(t), NEW v \in Vals(t)
    PROVE  /\ t.t \in {"basic", "vector", "list", "bitlist"} /\ v.n \in Int /\ v.of = << >>
           /\ t.t = "basic" => v = Plain(0)
           /\ t.t \in {"vector", "list"} => v.n \in Nat
           /\ t.t = "bitlist" => v.n >= -1
           /\ LeafSize(t, v) \in Nat
           /\ NewOf(t, v) = v /\ SizeOf(t, v) = Sized(v, LeafSize(t, v))
           /\ WireOf(t, v) = IF Invalid(t, v) THEN Fails("error", v)
                             ELSE Wrote(t, v, LeafSize(t, v), LeafSays(t, v))
           /\ RootOf(t, v).v = v
           /\ RootOf(t, v).res = "ok" <=>
                 ~ HashRefuses(t, v) /\ (t.t = "bitlist" => Chunks(v.n) <= Chunks(t.max))
           /\ BitsOf(t, v) = (t.t = "bitlist" => v.n \in 0 .. t.max)
<1>1. /\ t.t \in Kinds /\ WellFormed(t) /\ t.size \in Nat /\ t.unit \in Nat /\ t.deep \in Nat
      /\ t.max \in Nat /\ t.fix \in BOOLEAN
  BY TypeFacts
<1>2. t.t \in {"basic", "vector", "list", "bitlist"}
  BY <1>1 DEF Nests, Kinds
<1>3. v \in Values(t, P(t)) /\ v \in Objects[t.deep]
  BY MethodsAre DEF Values, Vals
<1>4. v \in Level(t.deep, Objects[t.deep - 1])
  BY <1>1, <1>3, ObjectsIs
<1>5. v.n \in Int
  <2> DEFINE A == IF t.deep = 0 THEN {<< >>} ELSE Seq(Objects[t.deep - 1])
  <2>1. v \in [n : Int, ok : BOOLEAN, of : A]
    BY <1>4 DEF Level
  <2> HIDE DEF A
  <2> QED BY <2>1
<1>6. /\ t.t = "basic" => v = Plain(0)
      /\ t.t \in {"vector", "list"} => v.n >= 0 /\ v.of = << >>
      /\ t.t = "bitlist" => v.n >= -1 /\ v.of = << >>
  BY <1>3 DEF Values
<1>7. v.of = << >>
  BY <1>2, <1>6 DEF Plain
<1>8. (t.t \in {"basic", "vector"} => t.fix) /\ (t.t \in {"list", "bitlist"} => ~ t.fix)
  BY <1>1 DEF WellFormed
<1>9. BitBytes(v.n) \in Nat \/ t.t # "bitlist"
  BY <1>5, <1>6 DEF BitBytes
<1>10. LeafSize(t, v) \in Nat
  BY <1>1, <1>2, <1>5, <1>6, <1>8, <1>9 DEF LeafSize
<1>11. /\ NewOf(t, v) = OrNew(t, P(t), v) /\ SizeOf(t, v) = SizeSSZ(t, P(t), v)
       /\ WireOf(t, v) = MarshalSSZTo(t, P(t), v) /\ RootOf(t, v) = HashTreeRoot(t, P(t), v)
       /\ BitsOf(t, v) = ValidBitlists(t, P(t), v)
  BY MethodsAre DEF Vals, NewOf, SizeOf, WireOf, RootOf, BitsOf
<1>12. OrNew(t, P(t), v) = v
  BY <1>2 DEF OrNew
<1>13. SizeSSZ(t, P(t), v) = Sized(v, LeafSize(t, v))
  BY <1>2, <1>8 DEF SizeSSZ, LeafSize
<1>14. MarshalSSZTo(t, P(t), v) = IF Invalid(t, v) THEN Fails("error", v)
                                  ELSE Wrote(t, v, LeafSize(t, v), LeafSays(t, v))
  BY <1>2, <1>8 DEF MarshalSSZTo, LeafSize, LeafSays
<1>15. /\ HashTreeRoot(t, P(t), v).v = v
       /\ HashTreeRoot(t, P(t), v).res = "ok" <=>
             ~ HashRefuses(t, v) /\ (t.t = "bitlist" => ~ (Chunks(v.n) > Chunks(t.max)))
  BY <1>2 DEF HashTreeRoot
<1>16. Chunks(v.n) \in Int /\ Chunks(t.max) \in Int
  BY <1>1, <1>5 DEF Chunks
<1>17. ValidBitlists(t, P(t), v) = (t.t = "bitlist" => v.n \in 0 .. t.max)
  <2>1. CASE t.t = "bitlist"
    BY <2>1 DEF ValidBitlists
  <2>2. CASE t.t # "bitlist"
    <3>1. ValidBitlists(t, P(t), v) = \A i \in DOMAIN v.of : Of(t, P(t), i).ValidBitlists[v.of[i]]
      BY <2>2 DEF ValidBitlists
    <3>2. DOMAIN v.of = {}
      BY <1>7
    <3> QED BY <2>2, <3>1, <3>2, Zenon
  <2> QED BY <2>1, <2>2
<1> QED BY <1>2, <1>5, <1>6, <1>7, <1>10, <1>11, <1>12, <1>13, <1>14, <1>15, <1>16, <1>17

(* The methods of a seq or struct in terms of those of its members.        *)
Sizes(t, v) ==
    [i \in 1 .. Len(v.of) |-> IF Part(t, i).fix THEN Sized(v.of[i], 0)
                              ELSE SizeOf(Part(t, i), Kid(t, v, i))]
FirstPass(t, v) ==
    [i \in 1 .. Len(v.of) |-> IF Part(t, i).fix THEN WireOf(Part(t, i), Kid(t, v, i))
                              ELSE IF t.t = "struct" /\ LastTail(t, i) THEN Sized(v.of[i], 0)
                              ELSE SizeOf(Part(t, i), Kid(t, v, i))]
Between(t, v) == After(FirstPass(t, v), v.of)
SecondPass(t, v) ==
    [i \in 1 .. Len(v.of) |-> IF Part(t, i).fix THEN FirstPass(t, v)[i]
                              ELSE WireOf(Part(t, i), Between(t, v)[i])]
Roots(t, v) ==
    [i \in 1 .. Len(v.of) |->
        RootOf(Part(t, i), IF Part(t, i).fix THEN Kid(t, v, i) ELSE v.of[i])]

SumOfSizes(t, r, n) == FixedSize(t, n) + TailSum(t, [i \in 1 .. n |-> r[i].size], n + 1)
StartsOf(t, r, n)   ==
    [i \in 1 .. n + 1 |-> HeadPos(t, n + 1) + TailSum(t, [j \in 1 .. n |-> r[j].len], i)]
OffsetsOf(t, h, n)  ==
    [i \in 1 .. n |-> FirstOffset(t, n)
        + TailSum(t, [j \in 1 .. n |-> IF Part(t, j).fix THEN 0 ELSE h[j].size], i)]

LEMMA NestedIs ==
    ASSUME NEW t \in Types, Nests(t), NEW v \in Vals(t), v # Nil
    PROVE  /\ NewOf(t, v) = v
           /\ SizeOf(t, v) = IF t.fix THEN Sized(v, t.size)
                             ELSE [res |-> Outcome(Sizes(t, v)), v |-> Made(After(Sizes(t, v), v.of)),
                                   size |-> SumOfSizes(t, Sizes(t, v), Len(v.of))]
           /\ Invalid(t, v) => WireOf(t, v) = Fails("error", v)
           /\ ~ Invalid(t, v) => WireOf(t, v) = Encode(t, P(t), v)
           /\ HashRefuses(t, v) => RootOf(t, v) = [res |-> "error", v |-> v]
           /\ ~ HashRefuses(t, v) =>
                 RootOf(t, v) = [res |-> Outcome(Roots(t, v)), v |-> Made(After(Roots(t, v), v.of))]
           /\ BitsOf(t, v) = \A i \in 1 .. Len(v.of) : BitsOf(Part(t, i), v.of[i])
<1> DEFINE n == Len(v.of)
           p == P(t)
<1>1. /\ NewOf(t, v) = OrNew(t, p, v) /\ SizeOf(t, v) = SizeSSZ(t, p, v)
      /\ WireOf(t, v) = MarshalSSZTo(t, p, v) /\ RootOf(t, v) = HashTreeRoot(t, p, v)
      /\ BitsOf(t, v) = ValidBitlists(t, p, v)
  BY MethodsAre DEF Vals, NewOf, SizeOf, WireOf, RootOf, BitsOf
<1>2. Count(t, n) /\ DOMAIN v.of = 1 .. n /\ n \in Nat
  <2>1. v \in Generated[t].values
    BY DEF Vals
  <2>2. Count(t, n) /\ v.of = [i \in 1 .. n |-> v.of[i]]
    BY <2>1, HeldIs
  <2>3. DOMAIN [i \in 1 .. n |-> v.of[i]] = 1 .. n
    OBVIOUS
  <2> HIDE DEF n
  <2> QED BY <2>2, <2>3, Zenon DEF Count
<1>3. (t.t = "seq" => ~ t.fix) /\ t.t \in {"seq", "struct"} /\ t.fix \in BOOLEAN
  BY TypeFacts DEF WellFormed, Nests
<1> HIDE DEF n, p
<1>4. \A i \in 1 .. n : Of(t, p, i) = Its(t, i)
  BY <1>2, MemberTypes DEF p
<1>5. \A i \in 1 .. n : Child(t, p, v, i) = Kid(t, v, i)
  BY <1>4 DEF Child, Kid, NewOf, Its
<1>6. MemberSizes(t, p, v) = Sizes(t, v)
  <2>1. \A i \in 1 .. n : Of(t, p, i).SizeSSZ[Child(t, p, v, i)] = SizeOf(Part(t, i), Kid(t, v, i))
    BY <1>4, <1>5 DEF SizeOf, Its
  <2> QED BY <1>2, <2>1, Zenon DEF MemberSizes, Sizes, n
<1>7. MemberRoots(t, p, v) = Roots(t, v)
  <2>1. \A i \in 1 .. n :
           Of(t, p, i).HashTreeRoot[IF Part(t, i).fix THEN Child(t, p, v, i) ELSE v.of[i]]
             = RootOf(Part(t, i), IF Part(t, i).fix THEN Kid(t, v, i) ELSE v.of[i])
    BY <1>4, <1>5 DEF RootOf, Its
  <2> QED BY <1>2, <2>1, Zenon DEF MemberRoots, Roots, n
<1>8. OrNew(t, p, v) = v
  BY DEF OrNew
<1>9. ~ t.fix => SizeSSZ(t, p, v) =
         [res |-> Outcome(Sizes(t, v)), v |-> Made(After(Sizes(t, v), v.of)),
          size |-> SumOfSizes(t, Sizes(t, v), n)]
  <2> DEFINE r == Sizes(t, v)
  <2>1. DOMAIN r = 1 .. n /\ Len(r) = n
    <3>1. r = [i \in 1 .. n |-> IF Part(t, i).fix THEN Sized(v.of[i], 0)
                              ELSE SizeOf(Part(t, i), Kid(t, v, i))]
      BY DEF Sizes, n
    <3> HIDE DEF r
    <3>2. DOMAIN r = 1 .. n
      BY <3>1
    <3> QED BY <1>2, <3>1, <3>2
  <2>2. ~ t.fix => SizeSSZ(t, p, v) =
           [res |-> Outcome(r), v |-> Made(After(r, v.of)),
            size |-> FixedSize(t, Len(r)) + TailSum(t, [i \in DOMAIN r |-> r[i].size], Len(r) + 1)]
    BY <1>3, <1>6 DEF SizeSSZ
  <2> HIDE DEF r
  <2>3. ~ t.fix => SizeSSZ(t, p, v) =
           [res |-> Outcome(r), v |-> Made(After(r, v.of)), size |-> SumOfSizes(t, r, n)]
    BY <2>1, <2>2, Zenon DEF SumOfSizes
  <2> QED BY <2>3 DEF r
<1>10. t.fix => SizeSSZ(t, p, v) = Sized(v, t.size)
  BY <1>3 DEF SizeSSZ
<1>11. /\ Invalid(t, v) => MarshalSSZTo(t, p, v) = Fails("error", v)
       /\ ~ Invalid(t, v) => MarshalSSZTo(t, p, v) = Encode(t, p, v)
  <2>1. CASE t.t = "seq"
    BY <2>1 DEF MarshalSSZTo
  <2>2. CASE t.t = "struct"
    BY <2>2 DEF MarshalSSZTo
  <2> QED BY <1>3, <2>1, <2>2
<1>12. /\ HashRefuses(t, v) => HashTreeRoot(t, p, v) = [res |-> "error", v |-> v]
       /\ ~ HashRefuses(t, v) =>
            HashTreeRoot(t, p, v) = [res |-> Outcome(Roots(t, v)), v |-> Made(After(Roots(t, v), v.of))]
  BY <1>3, <1>7 DEF HashTreeRoot
<1>13. ValidBitlists(t, p, v) = \A i \in 1 .. n : BitsOf(Part(t, i), v.of[i])
  <2>1. ValidBitlists(t, p, v) = \A i \in DOMAIN v.of : Of(t, p, i).ValidBitlists[v.of[i]]
    BY <1>3 DEF ValidBitlists
  <2>2. \A i \in 1 .. n : Of(t, p, i).ValidBitlists[v.of[i]] = BitsOf(Part(t, i), v.of[i])
    BY <1>4 DEF BitsOf, Its
  <2> QED BY <1>2, <2>1, <2>2, Zenon
<1> QED BY <1>1, <1>3, <1>8, <1>9, <1>10, <1>11, <1>12, <1>13 DEF n, p

(* MarshalSSZTo: the first loop, the second, and what both leave.          *)
LEMMA EncodeIs ==
    ASSUME NEW t \in Types, Nests(t), NEW v \in Vals(t), v # Nil
    PROVE  LET n == Len(v.of)
               h == FirstPass(t, v)
               of == Between(t, v)
               r == SecondPass(t, v)
           IN  /\ Outcome(h) # "ok" => Encode(t, P(t), v) = Fails(Outcome(h), Made(of))
               /\ Outcome(h) = "ok" /\ Outcome(r) # "ok" =>
                    Encode(t, P(t), v) = Fails(Outcome(r), Made(After(r, of)))
               /\ Outcome(h) = "ok" /\ Outcome(r) = "ok" =>
                    Encode(t, P(t), v) =
                      [res |-> "ok", v |-> Made(After(r, of)), len |-> StartsOf(t, r, n)[n + 1],
                       at |-> Pieces(t, r, StartsOf(t, r, n), OffsetsOf(t, h, n))]
<1> DEFINE n == Len(v.of)
           p == P(t)
           h == FirstPass(t, v)
           of == Between(t, v)
           r == SecondPass(t, v)
<1>1. Count(t, n) /\ DOMAIN v.of = 1 .. n /\ n \in Nat
  <2>1. v \in Generated[t].values
    BY DEF Vals
  <2>2. Count(t, n) /\ v.of = [i \in 1 .. n |-> v.of[i]]
    BY <2>1, HeldIs
  <2>3. DOMAIN [i \in 1 .. n |-> v.of[i]] = 1 .. n
    OBVIOUS
  <2> HIDE DEF n
  <2> QED BY <2>2, <2>3, Zenon DEF Count
<1> HIDE DEF n, p
<1>2. \A i \in 1 .. n : Of(t, p, i) = Its(t, i)
  BY <1>1, MemberTypes DEF p
<1>3. \A i \in 1 .. n : Child(t, p, v, i) = Kid(t, v, i)
  BY <1>2 DEF Child, Kid, NewOf, Its
<1>4. Heads(t, p, v) = h
  <2>1. \A i \in 1 .. n :
           /\ Of(t, p, i).MarshalSSZTo[Child(t, p, v, i)] = WireOf(Part(t, i), Kid(t, v, i))
           /\ Of(t, p, i).SizeSSZ[Child(t, p, v, i)] = SizeOf(Part(t, i), Kid(t, v, i))
    BY <1>2, <1>3 DEF WireOf, SizeOf, Its
  <2> QED BY <1>1, <2>1, Zenon DEF Heads, FirstPass, n
<1>5. of = After(h, v.of) /\ DOMAIN of = 1 .. n
  BY <1>1 DEF Between, After
<1> HIDE DEF h, of
<1>6. Tails(t, p, h, of) = r
  <2>1. \A i \in 1 .. n : Of(t, p, i).MarshalSSZTo[of[i]] = WireOf(Part(t, i), of[i])
    BY <1>2 DEF WireOf, Its
  <2> QED BY <1>5, <2>1, Zenon DEF Tails, SecondPass, n, h, of
<1> HIDE DEF r
<1> DEFINE starts == [i \in 1 .. n + 1 |-> HeadPos(t, n + 1)
                         + TailSum(t, [j \in 1 .. n |-> r[j].len], i)]
           offsets == [i \in 1 .. n |-> FirstOffset(t, n)
                         + TailSum(t, [j \in 1 .. n |-> IF Part(t, j).fix THEN 0 ELSE h[j].size], i)]
<1>7. starts = StartsOf(t, r, n) /\ offsets = OffsetsOf(t, h, n)
  BY Zenon DEF StartsOf, OffsetsOf
<1>8. Encode(t, p, v) =
         IF Outcome(h) # "ok" THEN Fails(Outcome(h), Made(of))
         ELSE IF Outcome(r) # "ok" THEN Fails(Outcome(r), Made(After(r, of)))
         ELSE [res |-> "ok", v |-> Made(After(r, of)), len |-> starts[n + 1],
               at |-> Pieces(t, r, starts, offsets)]
  BY <1>4, <1>5, <1>6, Zenon DEF Encode, n
<1> HIDE DEF starts, offsets
<1>9. /\ Outcome(h) # "ok" => Encode(t, p, v) = Fails(Outcome(h), Made(of))
      /\ Outcome(h) = "ok" /\ Outcome(r) # "ok" => Encode(t, p, v) = Fails(Outcome(r), Made(After(r, of)))
      /\ Outcome(h) = "ok" /\ Outcome(r) = "ok" =>
           Encode(t, p, v) =
             [res |-> "ok", v |-> Made(After(r, of)), len |-> StartsOf(t, r, n)[n + 1],
              at |-> Pieces(t, r, StartsOf(t, r, n), OffsetsOf(t, h, n))]
  BY <1>7, <1>8, Zenon
<1> QED BY <1>9, Zenon DEF n, p, h, of, r

(* Induction on types by their members.                                    *)
LEMMA MemberInduction ==
    ASSUME NEW S, \A t \in Types : ~ Nests(t) => t \in S,
           \A t \in Types :
              Nests(t) /\ (\A n : Count(t, n) => \A i \in 1 .. n : Part(t, i) \in S) => t \in S
    PROVE  Types \subseteq S
<1>1. ASSUME NEW t \in Types, \A i \in DOMAIN t.parts : t.parts[i] \in S PROVE t \in S
  <2>1. CASE Nests(t)
    <3>1. ASSUME NEW n, Count(t, n), NEW i \in 1 .. n PROVE Part(t, i) \in S
      <4> DEFINE j == IF t.t = "struct" THEN i ELSE 1
      <4>1. t.parts \in Seq(Types) /\ WellFormed(t)
        BY TypeFacts
      <4>2. j \in DOMAIN t.parts
        <5>1. CASE t.t = "struct"
          BY <3>1, <4>1, <5>1 DEF Count
        <5>2. CASE t.t = "seq"
          <6>1. Len(t.parts) = 1
            BY <4>1, <5>2 DEF WellFormed
          <6> QED BY <4>1, <5>2, <6>1
        <5> QED BY <2>1, <5>1, <5>2 DEF Nests
      <4>3. Part(t, i) = t.parts[j]
        BY DEF Part
      <4> HIDE DEF j
      <4> QED BY <1>1, <4>2, <4>3
    <3> QED BY <2>1, <3>1
  <2>2. CASE ~ Nests(t)
    BY <2>2
  <2> QED BY <2>1, <2>2
<1> QED BY <1>1, TypeInduction

Typed(t) ==
    /\ Generated[t].zero \in Vals(t)
    /\ \A v \in Vals(t) :
         /\ NewOf(t, v) \in Vals(t)
         /\ SizeOf(t, v).v \in Vals(t) /\ SizeOf(t, v).size \in Nat
         /\ WireOf(t, v).v \in Vals(t) /\ WireOf(t, v).len \in Nat
         /\ RootOf(t, v).v \in Vals(t)

LEMMA NilIs ==
    ASSUME NEW t \in Types, Nests(t), Nil \in Vals(t)
    PROVE  /\ t.t = "struct" /\ NewOf(t, Nil) = New(P(t))
           /\ t.fix => SizeOf(t, Nil) = Sized(Nil, t.size)
           /\ ~ t.fix => SizeOf(t, Nil) = [res |-> "panic", v |-> Nil, size |-> 0]
           /\ WireOf(t, Nil) = Fails("panic", Nil)
           /\ RootOf(t, Nil) = [res |-> "panic", v |-> Nil]
<1>1. /\ NewOf(t, Nil) = OrNew(t, P(t), Nil) /\ SizeOf(t, Nil) = SizeSSZ(t, P(t), Nil)
      /\ WireOf(t, Nil) = MarshalSSZTo(t, P(t), Nil) /\ RootOf(t, Nil) = HashTreeRoot(t, P(t), Nil)
  BY MethodsAre DEF Vals, NewOf, SizeOf, WireOf, RootOf
<1>2. Nil \in Values(t, P(t)) /\ Nil.n = 0 /\ t.fix \in BOOLEAN
  BY MethodsAre, TypeFacts DEF Vals, Nil, Plain
<1>3. t.t = "struct"
  <2>1. SUFFICES ASSUME t.t = "seq" PROVE FALSE
    BY DEF Nests
  <2>2. Holds(t, P(t), Nil)
    BY <1>2, <2>1 DEF Values
  <2> QED BY <1>2, <2>2 DEF Holds
<1>4. OrNew(t, P(t), Nil) = New(P(t))
  BY <1>3 DEF OrNew
<1>5. /\ t.fix => SizeSSZ(t, P(t), Nil) = Sized(Nil, t.size)
      /\ ~ t.fix => SizeSSZ(t, P(t), Nil) = [res |-> "panic", v |-> Nil, size |-> 0]
  BY <1>2, <1>3 DEF SizeSSZ
<1>6. MarshalSSZTo(t, P(t), Nil) = Fails("panic", Nil)
  BY <1>3 DEF MarshalSSZTo, Invalid
<1>7. HashTreeRoot(t, P(t), Nil) = [res |-> "panic", v |-> Nil]
  BY <1>3 DEF HashTreeRoot, HashRefuses
<1> QED BY <1>1, <1>3, <1>4, <1>5, <1>6, <1>7

LEMMA NewIs ==
    ASSUME NEW t \in Types, t.t = "struct",
           \A i \in 1 .. Len(t.parts) : Generated[Part(t, i)].zero \in Vals(Part(t, i))
    PROVE  New(P(t)) \in Vals(t) /\ New(P(t)) # Nil
<1> DEFINE n == Len(t.parts)
           of == [i \in 1 .. n |-> Generated[Part(t, i)].zero]
<1>1. n \in Nat /\ DOMAIN t.parts = 1 .. n
  BY TypeFacts
<1>2. Count(t, n) /\ Nests(t)
  BY <1>1 DEF Count, Nests
<1>3. New(P(t)) = Made(of)
  <2>1. \A i \in 1 .. n : Part(t, i) = t.parts[i]
    BY DEF Part
  <2>2. DOMAIN P(t) = 1 .. n /\ \A i \in 1 .. n : P(t)[i] = Generated[t.parts[i]]
    BY <1>1, Zenon DEF P, PartsOf
  <2>3. [i \in DOMAIN P(t) |-> P(t)[i].zero] = of
    BY <2>1, <2>2, Zenon
  <2> QED BY <2>3, Zenon DEF New
<1>4. of = [i \in 1 .. n |-> of[i]] /\ \A i \in 1 .. n : of[i] \in Its(t, i).values
  BY DEF Its, Vals
<1> HIDE DEF n, of
<1>5. Made(of) \in Generated[t].values /\ Made(of) # Nil
  BY <1>2, <1>4, MadeIs
<1> QED BY <1>3, <1>5 DEF Vals

(* The members of an object and what the loops leave of them are values of *)
(* their types.                                                            *)
LEMMA MembersTyped ==
    ASSUME NEW t \in Types, Nests(t), NEW v \in Vals(t), v # Nil,
           \A i \in 1 .. Len(v.of) : Typed(Part(t, i))
    PROVE  LET n == Len(v.of) IN
           /\ n \in Nat /\ Count(t, n) /\ v = Made(v.of) /\ Upto(v.of, n)
           /\ Upto(Sizes(t, v), n)
           /\ Upto(FirstPass(t, v), n)
           /\ Upto(Between(t, v), n)
           /\ Upto(SecondPass(t, v), n)
           /\ Upto(Roots(t, v), n)
           /\ \A i \in 1 .. n :
                /\ v.of[i] \in Vals(Part(t, i)) /\ Kid(t, v, i) \in Vals(Part(t, i))
                /\ Sizes(t, v)[i].v \in Vals(Part(t, i)) /\ Sizes(t, v)[i].size \in Nat
                /\ FirstPass(t, v)[i].v \in Vals(Part(t, i))
                /\ ~ Part(t, i).fix => FirstPass(t, v)[i].size \in Nat
                /\ Between(t, v)[i] \in Vals(Part(t, i))
                /\ SecondPass(t, v)[i].v \in Vals(Part(t, i)) /\ SecondPass(t, v)[i].len \in Nat
                /\ Roots(t, v)[i].v \in Vals(Part(t, i))
<1> DEFINE n == Len(v.of)
<1>1. n \in Nat /\ Count(t, n) /\ v = Made(v.of) /\ Upto(v.of, n)
      /\ \A i \in 1 .. n : v.of[i] \in Vals(Part(t, i))
  <2>1. v \in Generated[t].values
    BY DEF Vals
  <2> QED BY <2>1, HeldIs DEF Count, Its, Vals, Upto
<1> HIDE DEF n
<1>2. /\ Upto(Sizes(t, v), n)
      /\ Upto(FirstPass(t, v), n)
      /\ Upto(SecondPass(t, v), n)
      /\ Upto(Roots(t, v), n)
  BY DEF Sizes, FirstPass, SecondPass, Roots, n, Upto
<1>3. \A i \in 1 .. n : Kid(t, v, i) \in Vals(Part(t, i))
  BY <1>1 DEF Kid, Typed, n
<1>4. /\ \A x, s : Sized(x, s).v = x /\ Sized(x, s).size = s
      /\ 0 \in Nat
  BY DEF Sized
<1>5. ASSUME NEW i \in 1 .. n
      PROVE  /\ Sizes(t, v)[i].v \in Vals(Part(t, i)) /\ Sizes(t, v)[i].size \in Nat
             /\ FirstPass(t, v)[i].v \in Vals(Part(t, i))
             /\ ~ Part(t, i).fix => FirstPass(t, v)[i].size \in Nat
             /\ Part(t, i).fix => FirstPass(t, v)[i].len \in Nat
             /\ Roots(t, v)[i].v \in Vals(Part(t, i))
  <2> DEFINE x == Part(t, i)
             k == Kid(t, v, i)
  <2>1. /\ v.of[i] \in Vals(x) /\ k \in Vals(x)
        /\ SizeOf(x, k).v \in Vals(x) /\ SizeOf(x, k).size \in Nat
        /\ WireOf(x, k).v \in Vals(x) /\ WireOf(x, k).len \in Nat
        /\ RootOf(x, k).v \in Vals(x) /\ RootOf(x, v.of[i]).v \in Vals(x)
    BY <1>1, <1>3 DEF Typed, n
  <2>2. /\ Sizes(t, v)[i] = IF x.fix THEN Sized(v.of[i], 0) ELSE SizeOf(x, k)
        /\ FirstPass(t, v)[i] = IF x.fix THEN WireOf(x, k)
                                ELSE IF t.t = "struct" /\ LastTail(t, i) THEN Sized(v.of[i], 0)
                                ELSE SizeOf(x, k)
        /\ Roots(t, v)[i] = RootOf(x, IF x.fix THEN k ELSE v.of[i])
    BY DEF Sizes, FirstPass, Roots, n
  <2> HIDE DEF x, k
  <2>3. Sizes(t, v)[i].v \in Vals(x) /\ Sizes(t, v)[i].size \in Nat
    BY <1>4, <2>1, <2>2
  <2>4. FirstPass(t, v)[i].v \in Vals(x)
        /\ (~ x.fix => FirstPass(t, v)[i].size \in Nat)
        /\ (x.fix => FirstPass(t, v)[i].len \in Nat)
    BY <1>4, <2>1, <2>2
  <2>5. Roots(t, v)[i].v \in Vals(x)
    BY <2>1, <2>2
  <2> QED BY <2>3, <2>4, <2>5 DEF x
<1>6. /\ Upto(Between(t, v), n)
      /\ \A i \in 1 .. n : Between(t, v)[i] = FirstPass(t, v)[i].v \/ Between(t, v)[i] = v.of[i]
  <2> DEFINE r == FirstPass(t, v)
             of == v.of
  <2>1. Upto(r, n) /\ Upto(of, n) /\ n \in Nat
    BY <1>1, <1>2
  <2> HIDE DEF r, of
  <2>2. /\ Upto(After(r, of), n)
        /\ \A i \in 1 .. n : After(r, of)[i] = r[i].v \/ After(r, of)[i] = of[i]
    BY <2>1, LoopIs
  <2> QED BY <2>2, Zenon DEF r, of, Between
<1>7. \A i \in 1 .. n : Between(t, v)[i] \in Vals(Part(t, i))
  BY <1>1, <1>5, <1>6
<1>8. ASSUME NEW i \in 1 .. n
      PROVE  SecondPass(t, v)[i].v \in Vals(Part(t, i)) /\ SecondPass(t, v)[i].len \in Nat
  <2>1. SecondPass(t, v)[i] = IF Part(t, i).fix THEN FirstPass(t, v)[i]
                              ELSE WireOf(Part(t, i), Between(t, v)[i])
    BY DEF SecondPass, n
  <2>2. Typed(Part(t, i)) /\ Between(t, v)[i] \in Vals(Part(t, i))
    BY <1>7 DEF n
  <2>3. WireOf(Part(t, i), Between(t, v)[i]).v \in Vals(Part(t, i))
        /\ WireOf(Part(t, i), Between(t, v)[i]).len \in Nat
    BY <2>2 DEF Typed
  <2> QED BY <1>5, <2>1, <2>3
<1> QED BY <1>1, <1>2, <1>3, <1>5, <1>6, <1>7, <1>8 DEF n

LEMMA FixBoolean ==
    ASSUME NEW t \in Types PROVE t.fix \in BOOLEAN
BY TypeFacts

(* What is made of members that are values of their types.                 *)
LEMMA AfterTyped ==
    ASSUME NEW t \in Types, Nests(t), NEW n \in Nat, Count(t, n),
           NEW r, Upto(r, n), NEW of, Upto(of, n),
           \A i \in 1 .. n : r[i].v \in Vals(Part(t, i)) /\ of[i] \in Vals(Part(t, i))
    PROVE  Made(After(r, of)) \in Vals(t)
<1> DEFINE a == After(r, of)
<1>1. /\ Upto(a, n)
      /\ \A i \in 1 .. n : a[i] = r[i].v \/ a[i] = of[i]
  BY LoopIs
<1> HIDE DEF a
<1>2. \A i \in 1 .. n : a[i] \in Its(t, i).values
  BY <1>1 DEF Its, Vals
<1>3. Made(a) \in Generated[t].values
  BY <1>1, <1>2, MadeIs DEF Upto
<1> QED BY <1>3 DEF a, Vals

(* Every method returns values of the type it is a method of.              *)
LEMMA TypedHolds ==
    \A t \in Types : Typed(t)
<1> DEFINE S == {t \in Types : Typed(t)}
<1>1. ASSUME NEW t \in Types, ~ Nests(t) PROVE t \in S
  <2>1. Generated[t].zero = Zero(t, P(t)) /\ Vals(t) = Values(t, P(t)) /\ t.deep \in Nat /\ t.t \in Kinds
    BY MethodsAre, TypeFacts DEF Vals
  <2>2. Plain(0) \in Objects[t.deep] /\ Plain(-1) \in Objects[t.deep]
    BY <2>1, PlainIs
  <2>3. t.t \in {"basic", "vector", "list", "bitlist"}
    BY <1>1, <2>1 DEF Nests, Kinds
  <2>4. Zero(t, P(t)) \in Values(t, P(t))
    <3>1. \A n : Plain(n).n = n /\ Plain(n).ok = TRUE /\ Plain(n).of = << >>
      BY DEF Plain
    <3>2. CASE t.t = "bitlist"
      BY <2>2, <3>1, <3>2 DEF Zero, Values
    <3>3. CASE t.t = "basic"
      BY <2>2, <3>3 DEF Zero, Values
    <3>4. CASE t.t \in {"vector", "list"}
      <4>1. Zero(t, P(t)) = Plain(0)
        BY <3>4 DEF Zero
      <4> DEFINE v == Plain(0)
      <4>2. v.n >= 0 /\ v.of = << >> /\ v \in Objects[t.deep]
        BY <2>2, <3>1
      <4> HIDE DEF v
      <4>3. v \in Values(t, P(t))
        BY <3>4, <4>2 DEF Values
      <4> QED BY <4>1, <4>3 DEF v
    <3> QED BY <2>3, <3>2, <3>3, <3>4
  <2>5. ASSUME NEW v \in Vals(t)
        PROVE  /\ NewOf(t, v) \in Vals(t)
               /\ SizeOf(t, v).v \in Vals(t) /\ SizeOf(t, v).size \in Nat
               /\ WireOf(t, v).v \in Vals(t) /\ WireOf(t, v).len \in Nat
               /\ RootOf(t, v).v \in Vals(t)
    <3>1. /\ LeafSize(t, v) \in Nat /\ NewOf(t, v) = v /\ SizeOf(t, v) = Sized(v, LeafSize(t, v))
          /\ WireOf(t, v) = IF Invalid(t, v) THEN Fails("error", v)
                            ELSE Wrote(t, v, LeafSize(t, v), LeafSays(t, v))
          /\ RootOf(t, v).v = v
      BY <1>1, LeafIs
    <3> QED BY <3>1 DEF Sized, Fails, Wrote
  <2> QED BY <2>1, <2>4, <2>5 DEF Typed
<1>2. ASSUME NEW t \in Types, Nests(t),
             \A n : Count(t, n) => \A i \in 1 .. n : Part(t, i) \in S
      PROVE  t \in S
  <2>1. \A n : Count(t, n) => \A i \in 1 .. n : Typed(Part(t, i)) /\ Part(t, i) \in Types
    BY <1>2
  <2> HIDE DEF S
  <2>2. Generated[t].zero = Zero(t, P(t)) /\ Vals(t) = Values(t, P(t)) /\ t.deep \in Nat
        /\ t.fix \in BOOLEAN /\ t.size \in Nat
    BY MethodsAre, TypeFacts DEF Vals
  <2>3. t.t = "struct" => New(P(t)) \in Vals(t)
    <3>1. SUFFICES ASSUME t.t = "struct" PROVE New(P(t)) \in Vals(t)
      OBVIOUS
    <3>2. Len(t.parts) \in Nat /\ Count(t, Len(t.parts))
      BY TypeFacts DEF Count
    <3>3. \A i \in 1 .. Len(t.parts) : Generated[Part(t, i)].zero \in Vals(Part(t, i))
      BY <2>1, <3>2 DEF Typed
    <3> QED BY <3>1, <3>3, NewIs
  <2>4. Generated[t].zero \in Vals(t)
    <3>1. CASE t.t = "seq"
      <4>1. Zero(t, P(t)) = Made(<< >>)
        BY <3>1 DEF Zero
      <4> DEFINE of == << >>
      <4>2. of = [i \in 1 .. 0 |-> of[i]] /\ \A i \in 1 .. 0 : of[i] \in Its(t, i).values
        OBVIOUS
      <4>3. Count(t, 0)
        BY <3>1 DEF Count
      <4> HIDE DEF of
      <4>4. Made(of) \in Generated[t].values
        BY <1>2, <4>2, <4>3, MadeIs
      <4> QED BY <2>2, <4>1, <4>4 DEF of, Vals
    <3>2. CASE t.t = "struct" /\ t.ptr
      <4>1. Zero(t, P(t)) = Nil
        BY <3>2 DEF Zero
      <4>2. Nil \in Objects[t.deep]
        BY <2>2, PlainIs DEF Nil
      <4>3. Nil \in Values(t, P(t))
        BY <3>2, <4>2 DEF Values
      <4> QED BY <2>2, <4>1, <4>3
    <3>3. CASE t.t = "struct" /\ ~ t.ptr
      <4>1. Zero(t, P(t)) = New(P(t))
        BY <3>3 DEF Zero
      <4> QED BY <2>2, <2>3, <3>3, <4>1
    <3> QED BY <1>2, <3>1, <3>2, <3>3 DEF Nests
  <2>5. ASSUME NEW v \in Vals(t), v = Nil
        PROVE  /\ NewOf(t, v) \in Vals(t)
               /\ SizeOf(t, v).v \in Vals(t) /\ SizeOf(t, v).size \in Nat
               /\ WireOf(t, v).v \in Vals(t) /\ WireOf(t, v).len \in Nat
               /\ RootOf(t, v).v \in Vals(t)
    <3>1. /\ t.t = "struct" /\ NewOf(t, Nil) = New(P(t))
          /\ t.fix => SizeOf(t, Nil) = Sized(Nil, t.size)
          /\ ~ t.fix => SizeOf(t, Nil) = [res |-> "panic", v |-> Nil, size |-> 0]
          /\ WireOf(t, Nil) = Fails("panic", Nil)
          /\ RootOf(t, Nil) = [res |-> "panic", v |-> Nil]
      BY <1>2, <2>5, NilIs
    <3> QED BY <2>2, <2>3, <2>5, <3>1 DEF Sized, Fails
  <2>6. ASSUME NEW v \in Vals(t), v # Nil
        PROVE  /\ NewOf(t, v) \in Vals(t)
               /\ SizeOf(t, v).v \in Vals(t) /\ SizeOf(t, v).size \in Nat
               /\ WireOf(t, v).v \in Vals(t) /\ WireOf(t, v).len \in Nat
               /\ RootOf(t, v).v \in Vals(t)
    <3> DEFINE n == Len(v.of)
               r == Sizes(t, v)
               h == FirstPass(t, v)
               b == Between(t, v)
               q == SecondPass(t, v)
               g == Roots(t, v)
    <3>1. v \in Generated[t].values
      BY DEF Vals
    <3>2. Count(t, n)
      BY <1>2, <2>6, <3>1, HeldIs
    <3>3. \A i \in 1 .. n : Typed(Part(t, i))
      BY <2>1, <3>2
    <3>4. /\ n \in Nat /\ Count(t, n) /\ v = Made(v.of) /\ Upto(v.of, n)
          /\ Upto(r, n) /\ Upto(h, n) /\ Upto(b, n) /\ Upto(q, n) /\ Upto(g, n)
          /\ \A i \in 1 .. n :
               /\ v.of[i] \in Vals(Part(t, i)) /\ r[i].v \in Vals(Part(t, i)) /\ r[i].size \in Nat
               /\ h[i].v \in Vals(Part(t, i)) /\ b[i] \in Vals(Part(t, i))
               /\ q[i].v \in Vals(Part(t, i)) /\ q[i].len \in Nat
               /\ g[i].v \in Vals(Part(t, i))
      BY <1>2, <2>6, <3>3, MembersTyped
    <3>5. b = After(h, v.of)
      BY DEF Between
    <3>6. /\ NewOf(t, v) = v
          /\ SizeOf(t, v) = IF t.fix THEN Sized(v, t.size)
                            ELSE [res |-> Outcome(r), v |-> Made(After(r, v.of)), size |-> SumOfSizes(t, r, n)]
          /\ Invalid(t, v) => WireOf(t, v) = Fails("error", v)
          /\ ~ Invalid(t, v) => WireOf(t, v) = Encode(t, P(t), v)
          /\ HashRefuses(t, v) => RootOf(t, v) = [res |-> "error", v |-> v]
          /\ ~ HashRefuses(t, v) => RootOf(t, v) = [res |-> Outcome(g), v |-> Made(After(g, v.of))]
      BY <1>2, <2>6, NestedIs
    <3>7. /\ Outcome(h) # "ok" => Encode(t, P(t), v) = Fails(Outcome(h), Made(b))
          /\ Outcome(h) = "ok" /\ Outcome(q) # "ok" =>
               Encode(t, P(t), v) = Fails(Outcome(q), Made(After(q, b)))
          /\ Outcome(h) = "ok" /\ Outcome(q) = "ok" =>
               Encode(t, P(t), v) =
                 [res |-> "ok", v |-> Made(After(q, b)), len |-> StartsOf(t, q, n)[n + 1],
                  at |-> Pieces(t, q, StartsOf(t, q, n), OffsetsOf(t, h, n))]
      BY <1>2, <2>6, EncodeIs
    <3> DEFINE of == v.of
    <3> HIDE DEF n, r, h, b, q, g, of
    <3>8. Upto(of, n) /\ \A i \in 1 .. n : of[i] \in Vals(Part(t, i))
      BY <3>4 DEF of
    <3>9. Made(After(r, of)) \in Vals(t) /\ Made(After(h, of)) \in Vals(t)
          /\ Made(After(g, of)) \in Vals(t) /\ Made(After(q, b)) \in Vals(t)
      BY <1>2, <3>4, <3>8, AfterTyped
    <3>10. SumOfSizes(t, r, n) \in Nat
      <4> DEFINE s == [i \in 1 .. n |-> r[i].size]
      <4>1. DOMAIN s = 1 .. n /\ \A i \in 1 .. n : s[i] \in Nat
        BY <3>4
      <4>2. n + 1 \in 1 .. n + 1 /\ SumOfSizes(t, r, n) = FixedSize(t, n) + TailSum(t, s, n + 1)
        BY <3>4 DEF SumOfSizes
      <4> HIDE DEF s
      <4>3. TailSum(t, s, n + 1) \in Nat
        BY <3>4, <4>1, <4>2, TailSums
      <4>4. FixedSize(t, n) \in Nat
        BY <1>2, <3>4, <4>2, HeadsAre
      <4> QED BY <4>2, <4>3, <4>4
    <3>11. StartsOf(t, q, n)[n + 1] \in Nat
      <4> DEFINE s == [i \in 1 .. n |-> q[i].len]
      <4>1. DOMAIN s = 1 .. n /\ \A i \in 1 .. n : s[i] \in Nat
        BY <3>4
      <4>2. n + 1 \in 1 .. n + 1 /\ StartsOf(t, q, n)[n + 1] = HeadPos(t, n + 1) + TailSum(t, s, n + 1)
        BY <3>4 DEF StartsOf
      <4> HIDE DEF s
      <4>3. TailSum(t, s, n + 1) \in Nat
        BY <3>4, <4>1, <4>2, TailSums
      <4>4. HeadPos(t, n + 1) \in Nat
        BY <1>2, <3>4, <4>2, HeadsAre
      <4> QED BY <4>2, <4>3, <4>4
    <3>12. SizeOf(t, v).v \in Vals(t) /\ SizeOf(t, v).size \in Nat
      <4>1. CASE t.fix
        BY <2>2, <3>6, <4>1 DEF Sized
      <4>2. CASE ~ t.fix
        BY <3>6, <3>9, <3>10, <4>2 DEF of
      <4> QED BY <4>1, <4>2
    <3>13. WireOf(t, v).v \in Vals(t) /\ WireOf(t, v).len \in Nat
      <4>1. CASE Invalid(t, v)
        BY <3>6, <4>1 DEF Fails
      <4>2. CASE ~ Invalid(t, v) /\ Outcome(h) # "ok"
        BY <3>5, <3>6, <3>7, <3>9, <4>2 DEF Fails, of
      <4>3. CASE ~ Invalid(t, v) /\ Outcome(h) = "ok" /\ Outcome(q) # "ok"
        BY <3>6, <3>7, <3>9, <4>3 DEF Fails
      <4>4. CASE ~ Invalid(t, v) /\ Outcome(h) = "ok" /\ Outcome(q) = "ok"
        BY <3>6, <3>7, <3>9, <3>11, <4>4
      <4> QED BY <4>1, <4>2, <4>3, <4>4
    <3>14. RootOf(t, v).v \in Vals(t)
      BY <3>6, <3>9 DEF of
    <3> QED BY <3>6, <3>12, <3>13, <3>14
  <2>7. Typed(t)
    BY <2>4, <2>5, <2>6 DEF Typed
  <2> QED BY <2>7 DEF S
<1> HIDE DEF S
<1>3. Types \subseteq S
  BY <1>1, <1>2, MemberInduction
<1> QED BY <1>3 DEF S

---------------------------------------------------------------------------
(* Nothing is added to a sum of tails by members of fixed size.            *)
LEMMA TailStays ==
    ASSUME NEW t, NEW n \in Nat, NEW sizes, DOMAIN sizes = 1 .. n,
           \A i \in 1 .. n : sizes[i] \in Nat,
           NEW j \in 1 .. n + 1, NEW k \in 1 .. n + 1, j <= k,
           \A i \in 1 .. n : j <= i /\ i < k => Part(t, i).fix
    PROVE  TailSum(t, sizes, j) = TailSum(t, sizes, k)
<1>0. /\ TailSum(t, sizes, 1) = 0
      /\ \A i \in 1 .. n + 1 : TailSum(t, sizes, i) \in Nat
      /\ \A i \in 1 .. n : TailSum(t, sizes, i + 1)
            = TailSum(t, sizes, i) + (IF Part(t, i).fix THEN 0 ELSE sizes[i])
  BY TailSums
<1> DEFINE D == {d \in Nat : j + d <= k => TailSum(t, sizes, j + d) = TailSum(t, sizes, j)}
<1>1. 0 \in D
  <2>1. j + 0 = j
    OBVIOUS
  <2> QED BY <2>1
<1>2. ASSUME NEW d \in Nat, d \in D PROVE d + 1 \in D
  <2> DEFINE i == j + d
  <2>1. i + 1 = j + (d + 1) /\ i \in Nat
    OBVIOUS
  <2>2. SUFFICES ASSUME i + 1 <= k PROVE TailSum(t, sizes, i + 1) = TailSum(t, sizes, j)
    BY <2>1
  <2>3. i \in 1 .. n /\ j <= i /\ i < k /\ i <= k
    BY <2>2
  <2>4. TailSum(t, sizes, i) = TailSum(t, sizes, j)
    BY <1>2, <2>3
  <2> HIDE DEF i
  <2>5. Part(t, i).fix
    BY <2>3
  <2>6. TailSum(t, sizes, i + 1) = TailSum(t, sizes, i) + 0 /\ TailSum(t, sizes, i) \in Nat
    <3>1. i \in 1 .. n + 1
      BY <2>3
    <3> QED BY <1>0, <2>3, <2>5, <3>1
  <2> QED BY <2>4, <2>6
<1> HIDE DEF D
<1>3. \A d \in Nat : d \in D
  BY <1>1, <1>2, SetInduction
<1>4. k - j \in D /\ j + (k - j) = k
  BY <1>3
<1> QED BY <1>4 DEF D

(* What a method that succeeds has been called on is not nil, nor is what  *)
(* it leaves.                                                              *)
LEMMA NotNil ==
    ASSUME NEW t \in Types, NEW v \in Vals(t)
    PROVE  /\ WireOf(t, v).res = "ok" \/ RootOf(t, v).res = "ok" => NewOf(t, v) = v
           /\ Nests(t) /\ (WireOf(t, v).res = "ok" \/ RootOf(t, v).res = "ok") => v # Nil
           /\ ~ t.fix /\ SizeOf(t, v).res = "ok" =>
                 NewOf(t, v) = v /\ NewOf(t, SizeOf(t, v).v) = SizeOf(t, v).v
<1>1. CASE ~ Nests(t)
  <2>1. NewOf(t, v) = v /\ SizeOf(t, v).v = v
    BY <1>1, LeafIs DEF Sized
  <2> QED BY <1>1, <2>1
<1>2. CASE Nests(t) /\ v = Nil
  <2>1. /\ ~ t.fix => SizeOf(t, v).res = "panic"
        /\ WireOf(t, v).res = "panic" /\ RootOf(t, v).res = "panic"
    BY <1>2, NilIs DEF Fails
  <2> QED BY <1>2, <2>1
<1>3. CASE Nests(t) /\ v # Nil
  <2>1. NewOf(t, v) = v
    BY <1>3, NestedIs
  <2>2. ASSUME ~ t.fix PROVE NewOf(t, SizeOf(t, v).v) = SizeOf(t, v).v
    <3> DEFINE of == After(Sizes(t, v), v.of)
    <3>1. SizeOf(t, v).v = Made(of)
      <4>1. SizeOf(t, v) = [res |-> Outcome(Sizes(t, v)), v |-> Made(of),
                            size |-> SumOfSizes(t, Sizes(t, v), Len(v.of))]
        BY <1>3, <2>2, NestedIs, FixBoolean
      <4> HIDE DEF of
      <4> QED BY <4>1
    <3>2. SizeOf(t, v).v \in Vals(t)
      BY TypedHolds DEF Typed
    <3>3. Made(of).n = 1 /\ Nil.n = 0
      BY DEF Made, Nil, Plain
    <3> HIDE DEF of
    <3>4. SizeOf(t, v).v # Nil
      BY <3>1, <3>3
    <3> QED BY <1>3, <3>2, <3>4, NestedIs
  <2> QED BY <1>3, <2>1, <2>2
<1> QED BY <1>1, <1>2, <1>3

(* SizeSSZ finds what it has left as it found it; what it says is the      *)
(* length that MarshalSSZTo writes.                                        *)
SizeLaw(t) ==
    \A v \in Vals(t) :
        SizeOf(t, v).res = "ok" =>
            /\ SizeOf(t, SizeOf(t, v).v) = SizeOf(t, v)
            /\ WireOf(t, v).res = "ok" => WireOf(t, v).len = SizeOf(t, v).size

LEMMA SizeLawHolds ==
    \A t \in Types : SizeLaw(t)
<1> DEFINE S == {t \in Types : SizeLaw(t)}
<1>1. ASSUME NEW t \in Types, ~ Nests(t) PROVE t \in S
  <2>1. ASSUME NEW v \in Vals(t), SizeOf(t, v).res = "ok"
        PROVE  /\ SizeOf(t, SizeOf(t, v).v) = SizeOf(t, v)
               /\ WireOf(t, v).res = "ok" => WireOf(t, v).len = SizeOf(t, v).size
    <3>1. SizeOf(t, v) = Sized(v, LeafSize(t, v))
          /\ WireOf(t, v) = IF Invalid(t, v) THEN Fails("error", v)
                            ELSE Wrote(t, v, LeafSize(t, v), LeafSays(t, v))
      BY <1>1, LeafIs
    <3>2. SizeOf(t, v).v = v /\ SizeOf(t, v).size = LeafSize(t, v)
      BY <3>1 DEF Sized
    <3>3. WireOf(t, v).res = "ok" => WireOf(t, v).len = LeafSize(t, v)
      BY <3>1 DEF Fails, Wrote
    <3> QED BY <3>2, <3>3
  <2> QED BY <2>1 DEF SizeLaw
<1>2. ASSUME NEW t \in Types, Nests(t),
             \A n : Count(t, n) => \A i \in 1 .. n : Part(t, i) \in S
      PROVE  t \in S
  <2>1. \A n : Count(t, n) => \A i \in 1 .. n : SizeLaw(Part(t, i)) /\ Part(t, i) \in Types
    BY <1>2
  <2> HIDE DEF S
  <2>2. ASSUME NEW v \in Vals(t), v = Nil, SizeOf(t, v).res = "ok"
        PROVE  /\ SizeOf(t, SizeOf(t, v).v) = SizeOf(t, v)
               /\ WireOf(t, v).res = "ok" => WireOf(t, v).len = SizeOf(t, v).size
    <3>1. /\ t.fix => SizeOf(t, Nil) = Sized(Nil, t.size)
          /\ ~ t.fix => SizeOf(t, Nil) = [res |-> "panic", v |-> Nil, size |-> 0]
          /\ WireOf(t, Nil) = Fails("panic", Nil)
      BY <1>2, <2>2, NilIs
    <3>2. t.fix
      BY <2>2, <3>1, FixBoolean
    <3> QED BY <2>2, <3>1, <3>2 DEF Sized, Fails
  <2>3. ASSUME NEW v \in Vals(t), v # Nil, SizeOf(t, v).res = "ok"
        PROVE  /\ SizeOf(t, SizeOf(t, v).v) = SizeOf(t, v)
               /\ WireOf(t, v).res = "ok" => WireOf(t, v).len = SizeOf(t, v).size
    <3> DEFINE n == Len(v.of)
               r == Sizes(t, v)
               h == FirstPass(t, v)
               b == Between(t, v)
               q == SecondPass(t, v)
    <3>1. Count(t, n) /\ n \in Nat
      <4>1. v \in Generated[t].values
        BY DEF Vals
      <4>2. Count(t, n)
        BY <1>2, <2>3, <4>1, HeldIs
      <4> QED BY <4>2 DEF Count
    <3>2. \A i \in 1 .. n : Part(t, i) \in Types /\ SizeLaw(Part(t, i)) /\ Typed(Part(t, i))
                            /\ Part(t, i).fix \in BOOLEAN
      BY <2>1, <3>1, TypedHolds, FixBoolean
    <3>3. /\ v = Made(v.of) /\ Upto(v.of, n) /\ Upto(r, n) /\ Upto(h, n) /\ Upto(b, n) /\ Upto(q, n)
          /\ \A i \in 1 .. n :
               /\ v.of[i] \in Vals(Part(t, i)) /\ Kid(t, v, i) \in Vals(Part(t, i))
               /\ r[i].v \in Vals(Part(t, i)) /\ r[i].size \in Nat
               /\ b[i] \in Vals(Part(t, i)) /\ q[i].len \in Nat
      BY <1>2, <2>3, <3>2, MembersTyped
    <3>4. \A i \in 1 .. n :
             r[i] = IF Part(t, i).fix THEN Sized(v.of[i], 0) ELSE SizeOf(Part(t, i), Kid(t, v, i))
      BY DEF Sizes
    <3>5. /\ \A i \in 1 .. n :
               h[i] = IF Part(t, i).fix THEN WireOf(Part(t, i), Kid(t, v, i))
                      ELSE IF t.t = "struct" /\ LastTail(t, i) THEN Sized(v.of[i], 0)
                      ELSE SizeOf(Part(t, i), Kid(t, v, i))
          /\ \A i \in 1 .. n : ~ Part(t, i).fix => q[i] = WireOf(Part(t, i), b[i])
      BY DEF FirstPass, SecondPass
    <3>6. b = After(h, v.of)
      BY DEF Between
    <3>7. /\ SizeOf(t, v) = IF t.fix THEN Sized(v, t.size)
                            ELSE [res |-> Outcome(r), v |-> Made(After(r, v.of)), size |-> SumOfSizes(t, r, n)]
          /\ Invalid(t, v) => WireOf(t, v) = Fails("error", v)
          /\ ~ Invalid(t, v) => WireOf(t, v) = Encode(t, P(t), v)
      BY <1>2, <2>3, NestedIs
    <3>8. /\ Outcome(h) # "ok" => Encode(t, P(t), v) = Fails(Outcome(h), Made(b))
          /\ Outcome(h) = "ok" /\ Outcome(q) # "ok" =>
               Encode(t, P(t), v) = Fails(Outcome(q), Made(After(q, b)))
          /\ Outcome(h) = "ok" /\ Outcome(q) = "ok" =>
               Encode(t, P(t), v) =
                 [res |-> "ok", v |-> Made(After(q, b)), len |-> StartsOf(t, q, n)[n + 1],
                  at |-> Pieces(t, q, StartsOf(t, q, n), OffsetsOf(t, h, n))]
      BY <1>2, <2>3, EncodeIs
    <3> DEFINE vof == v.of
    <3>9. vof = v.of
      OBVIOUS
    <3> HIDE DEF n, r, h, b, q, vof
    <3>10. Upto(vof, n)
      BY <3>3, <3>9
    <3>11. ASSUME WireOf(t, v).res = "ok"
           PROVE  /\ Outcome(h) = "ok" /\ Outcome(q) = "ok"
                  /\ WireOf(t, v).len = StartsOf(t, q, n)[n + 1]
                  /\ \A i \in 1 .. n : h[i].res = "ok" /\ q[i].res = "ok" /\ b[i] = h[i].v
      <4>1. ~ Invalid(t, v)
        BY <3>7, <3>11 DEF Fails
      <4>2. Outcome(h) = "ok" /\ Outcome(q) = "ok"
        BY <3>7, <3>8, <3>11, <4>1 DEF Fails
      <4>3. WireOf(t, v).len = StartsOf(t, q, n)[n + 1]
        BY <3>7, <3>8, <4>1, <4>2
      <4>4. \A i \in 1 .. n : h[i].res = "ok" /\ b[i] = h[i].v
        BY <3>1, <3>3, <3>6, <3>9, <3>10, <4>2, LoopIs
      <4>5. \A i \in 1 .. n : q[i].res = "ok"
        BY <3>1, <3>3, <4>2, LoopIs
      <4> QED BY <4>2, <4>3, <4>4, <4>5
    <3> DEFINE lens == [i \in 1 .. n |-> q[i].len]
               sizes == [i \in 1 .. n |-> r[i].size]
    <3>12. /\ DOMAIN lens = 1 .. n /\ DOMAIN sizes = 1 .. n
           /\ \A i \in 1 .. n : lens[i] \in Nat /\ sizes[i] \in Nat
           /\ \A i \in 1 .. n : lens[i] = q[i].len /\ sizes[i] = r[i].size
           /\ n + 1 \in 1 .. n + 1 /\ 1 \in 1 .. n + 1 /\ 1 <= n + 1
      BY <3>1, <3>3
    <3>13. StartsOf(t, q, n)[n + 1] = HeadPos(t, n + 1) + TailSum(t, lens, n + 1)
           /\ SumOfSizes(t, r, n) = FixedSize(t, n) + TailSum(t, sizes, n + 1)
      BY <3>1, <3>12 DEF StartsOf, SumOfSizes
    <3> HIDE DEF lens, sizes
    <3>14. HeadPos(t, n + 1) = FixedSize(t, n) /\ (t.t = "struct" => FixedSize(t, n) = t.size)
           /\ FixedSize(t, n) \in Nat
      BY <1>2, <3>1, <3>12, HeadsAre
    <3>15. CASE t.fix
      <4>1. SizeOf(t, v) = Sized(v, t.size) /\ SizeOf(t, v).v = v /\ SizeOf(t, v).size = t.size
        BY <3>7, <3>15 DEF Sized
      <4>2. WireOf(t, v).res = "ok" => WireOf(t, v).len = t.size
        <5>1. t.t = "struct" /\ \A i \in DOMAIN t.parts : t.parts[i].fix
          BY <1>2, <3>15, TypeFacts DEF WellFormed, Nests
        <5>2. DOMAIN t.parts = 1 .. n
          BY <3>1, <5>1, TypeFacts DEF Count
        <5>3. \A i \in 1 .. n : 1 <= i /\ i < n + 1 => Part(t, i).fix
          BY <5>1, <5>2 DEF Part
        <5>4. TailSum(t, lens, 1) = TailSum(t, lens, n + 1)
          BY <3>1, <3>12, <5>3, TailStays
        <5>5. TailSum(t, lens, 1) = 0
          BY <3>1, <3>12, TailSums
        <5> QED BY <3>11, <3>13, <3>14, <5>1, <5>4, <5>5
      <4> QED BY <4>1, <4>2
    <3>16. CASE ~ t.fix
      <4> DEFINE of == After(r, vof)
                 w == Made(of)
      <4>1. SizeOf(t, v) = [res |-> Outcome(r), v |-> w, size |-> SumOfSizes(t, r, n)]
        BY <3>7, <3>9, <3>16
      <4>2. Outcome(r) = "ok"
        BY <2>3, <4>1
      <4>3. Upto(of, n) /\ \A i \in 1 .. n : r[i].res = "ok" /\ of[i] = r[i].v
        BY <3>1, <3>3, <3>10, <4>2, LoopIs
      <4> HIDE DEF of
      <4>4. w \in Vals(t) /\ w # Nil /\ w.of = of /\ Len(of) = n
        <5>1. \A i \in 1 .. n : of[i] \in Its(t, i).values
          BY <3>3, <4>3 DEF Its, Vals
        <5>2. of = [i \in 1 .. n |-> of[i]]
          BY <4>3 DEF Upto
        <5> QED BY <1>2, <3>1, <5>1, <5>2, MadeIs DEF Vals
      <4> HIDE DEF w
      <4>5. Sizes(t, w) = r
        <5>1. ASSUME NEW i \in 1 .. n
              PROVE (IF Part(t, i).fix THEN Sized(of[i], 0) ELSE SizeOf(Part(t, i), Kid(t, w, i))) = r[i]
          <6> DEFINE x == Part(t, i)
                     k == Kid(t, v, i)
          <6>1. /\ x \in Types /\ SizeLaw(x) /\ k \in Vals(x) /\ x.fix \in BOOLEAN
                /\ r[i] = IF x.fix THEN Sized(v.of[i], 0) ELSE SizeOf(x, k)
                /\ r[i].res = "ok" /\ of[i] = r[i].v
            BY <3>2, <3>3, <3>4, <4>3
          <6>2. Kid(t, w, i) = IF t.t = "struct" THEN NewOf(x, of[i]) ELSE of[i]
            BY <4>4 DEF Kid
          <6> HIDE DEF x, k
          <6>3. CASE x.fix
            BY <6>1, <6>3 DEF Sized, x
          <6>4. CASE ~ x.fix
            <7>1. r[i] = SizeOf(x, k) /\ SizeOf(x, k).res = "ok" /\ of[i] = SizeOf(x, k).v
              BY <6>1, <6>4
            <7>2. NewOf(x, SizeOf(x, k).v) = SizeOf(x, k).v /\ SizeOf(x, SizeOf(x, k).v) = SizeOf(x, k)
              BY <6>1, <6>4, <7>1, NotNil DEF SizeLaw
            <7>3. Kid(t, w, i) = of[i]
              BY <6>2, <7>1, <7>2
            <7> QED BY <6>4, <7>1, <7>2, <7>3 DEF x
          <6> QED BY <6>1, <6>3, <6>4
        <5>2. Sizes(t, w) = [i \in 1 .. n |-> r[i]]
          BY <4>4, <5>1, Zenon DEF Sizes
        <5> QED BY <3>3, <5>2, Zenon DEF Upto
      <4>6. SizeOf(t, w) = [res |-> Outcome(r), v |-> Made(After(r, of)), size |-> SumOfSizes(t, r, n)]
        BY <1>2, <3>16, <4>4, <4>5, NestedIs
      <4>7. After(r, of) = of
        BY <3>1, <3>3, <4>3, LoopIs
      <4>8. SizeOf(t, w) = SizeOf(t, v)
        BY <4>1, <4>6, <4>7 DEF w
      <4>9. ASSUME WireOf(t, v).res = "ok" PROVE WireOf(t, v).len = SizeOf(t, v).size
        <5>1. ASSUME NEW i \in 1 .. n, ~ Part(t, i).fix PROVE lens[i] = sizes[i]
          <6> DEFINE x == Part(t, i)
                     k == Kid(t, v, i)
          <6>1. /\ x \in Types /\ SizeLaw(x) /\ k \in Vals(x) /\ b[i] \in Vals(x) /\ v.of[i] \in Vals(x)
                /\ r[i] = SizeOf(x, k) /\ r[i].res = "ok"
                /\ q[i] = WireOf(x, b[i]) /\ q[i].res = "ok" /\ b[i] = h[i].v /\ h[i].res = "ok"
                /\ h[i] = IF t.t = "struct" /\ LastTail(t, i) THEN Sized(v.of[i], 0) ELSE SizeOf(x, k)
            BY <3>2, <3>3, <3>4, <3>5, <3>11, <4>3, <4>9, <5>1
          <6>2. k = IF t.t = "struct" THEN NewOf(x, v.of[i]) ELSE v.of[i]
            BY DEF Kid
          <6> HIDE DEF x, k
          <6>3. CASE t.t = "struct" /\ LastTail(t, i)
            <7>1. b[i] = v.of[i]
              BY <6>1, <6>3 DEF Sized
            <7>2. NewOf(x, v.of[i]) = v.of[i]
              BY <6>1, <7>1, NotNil
            <7>3. k = b[i]
              BY <6>2, <6>3, <7>1, <7>2
            <7>4. WireOf(x, k).len = SizeOf(x, k).size
              BY <6>1, <7>3 DEF SizeLaw
            <7> QED BY <3>12, <6>1, <7>3, <7>4
          <6>4. CASE ~ (t.t = "struct" /\ LastTail(t, i))
            <7>1. b[i] = SizeOf(x, k).v /\ SizeOf(x, k).res = "ok"
              BY <6>1, <6>4
            <7>2. SizeOf(x, b[i]) = SizeOf(x, k)
              BY <6>1, <7>1 DEF SizeLaw
            <7>3. WireOf(x, b[i]).len = SizeOf(x, b[i]).size
              BY <6>1, <7>1, <7>2 DEF SizeLaw
            <7> QED BY <3>12, <6>1, <7>2, <7>3
          <6> QED BY <6>3, <6>4
        <5>2. \A i \in 1 .. n : i < n + 1 /\ ~ Part(t, i).fix => lens[i] = sizes[i]
          BY <5>1
        <5>3. TailSum(t, lens, n + 1) = TailSum(t, sizes, n + 1)
          <6>1. /\ n \in Nat /\ n + 1 \in 1 .. n + 1 /\ DOMAIN lens = 1 .. n /\ DOMAIN sizes = 1 .. n
                /\ \A i \in 1 .. n : lens[i] \in Nat /\ sizes[i] \in Nat
            BY <3>1, <3>12
          <6> QED BY <5>2, <6>1, TailSame, Zenon
        <5> QED BY <3>11, <3>13, <3>14, <4>1, <4>9, <5>3
      <4>10. SizeOf(t, v).v = w
        BY <4>1
      <4> QED BY <4>8, <4>9, <4>10
    <3> QED BY <3>15, <3>16, FixBoolean
  <2>4. SizeLaw(t)
    BY <2>2, <2>3 DEF SizeLaw
  <2> QED BY <2>4 DEF S
<1> HIDE DEF S
<1>3. Types \subseteq S
  BY <1>1, <1>2, MemberInduction
<1> QED BY <1>3 DEF S

---------------------------------------------------------------------------
(* Where the tails begin, given how long each of them is.                  *)
LEMMA StartsAre ==
    ASSUME NEW t \in Types, Nests(t), NEW n \in Nat, Count(t, n),
           NEW r, \A i \in 1 .. n : r[i].len \in Nat
    PROVE  LET starts == StartsOf(t, r, n) IN
           /\ Ascends(starts, n) /\ starts[1] = FixedSize(t, n) /\ starts[n + 1] \in Nat
           /\ \A i \in 1 .. n :
                starts[i + 1] = IF Part(t, i).fix THEN starts[i] ELSE starts[i] + r[i].len
           /\ t.fix => starts[n + 1] = t.size
<1> DEFINE lens == [i \in 1 .. n |-> r[i].len]
           starts == StartsOf(t, r, n)
           end == HeadPos(t, n + 1)
<1>1. /\ DOMAIN lens = 1 .. n /\ \A i \in 1 .. n : lens[i] \in Nat /\ lens[i] = r[i].len
      /\ n + 1 \in 1 .. n + 1 /\ 1 \in 1 .. n + 1 /\ 1 <= n + 1
      /\ \A i \in 1 .. n : i \in 1 .. n + 1 /\ i + 1 \in 1 .. n + 1
  OBVIOUS
<1>2. \A i \in 1 .. n + 1 : starts[i] = end + TailSum(t, lens, i)
  BY DEF StartsOf
<1> HIDE DEF lens, starts, end
<1>3. /\ TailSum(t, lens, 1) = 0
      /\ \A i \in 1 .. n + 1 : TailSum(t, lens, i) \in Nat
      /\ \A i \in 1 .. n : TailSum(t, lens, i + 1)
            = TailSum(t, lens, i) + (IF Part(t, i).fix THEN 0 ELSE lens[i])
  BY <1>1, TailSums
<1>4. end = FixedSize(t, n) /\ (t.t = "struct" => end = t.size) /\ end \in Nat
  BY <1>1, HeadsAre DEF end
<1>5. starts[1] = FixedSize(t, n) /\ \A i \in 1 .. n + 1 : starts[i] \in Nat
  BY <1>1, <1>2, <1>3, <1>4
<1>6. ASSUME NEW i \in 1 .. n
      PROVE  starts[i + 1] = (IF Part(t, i).fix THEN starts[i] ELSE starts[i] + r[i].len)
             /\ starts[i] <= starts[i + 1]
  <2> DEFINE a == TailSum(t, lens, i)
             b == TailSum(t, lens, i + 1)
  <2>1. /\ a \in Nat /\ lens[i] = r[i].len /\ r[i].len \in Nat /\ end \in Nat
        /\ b = a + (IF Part(t, i).fix THEN 0 ELSE lens[i])
        /\ starts[i] = end + a /\ starts[i + 1] = end + b
    BY <1>1, <1>2, <1>3, <1>4
  <2> HIDE DEF a, b
  <2>2. CASE Part(t, i).fix
    BY <2>1, <2>2
  <2>3. CASE ~ Part(t, i).fix
    BY <2>1, <2>3
  <2> QED BY <2>2, <2>3
<1>7. Ascends(starts, n)
  BY <1>5, <1>6 DEF Ascends
<1>8. ASSUME t.fix PROVE starts[n + 1] = t.size
  <2>1. t.t = "struct" /\ \A i \in DOMAIN t.parts : t.parts[i].fix
    BY <1>8, TypeFacts DEF WellFormed, Nests
  <2>2. DOMAIN t.parts = 1 .. n
    BY <2>1, TypeFacts DEF Count
  <2>3. \A i \in 1 .. n : 1 <= i /\ i < n + 1 => Part(t, i).fix
    BY <2>1, <2>2 DEF Part
  <2>4. TailSum(t, lens, 1) = TailSum(t, lens, n + 1)
    BY <1>1, <2>3, TailStays
  <2> QED BY <1>1, <1>2, <1>3, <1>4, <2>1, <2>4
<1> QED BY <1>1, <1>5, <1>6, <1>7, <1>8 DEF starts

(* The offsets are where the tails begin.                                  *)
LEMMA OffsetsAre ==
    ASSUME NEW t \in Types, Nests(t), NEW n \in Nat, Count(t, n),
           NEW r, \A i \in 1 .. n : r[i].len \in Nat,
           NEW h, \A i \in 1 .. n : ~ Part(t, i).fix => h[i].size \in Nat,
           \A i \in 1 .. n : ~ Part(t, i).fix /\ ~ (t.t = "struct" /\ LastTail(t, i)) =>
                                h[i].size = r[i].len
    PROVE  \A i \in 1 .. n : ~ Part(t, i).fix => OffsetsOf(t, h, n)[i] = StartsOf(t, r, n)[i]
<1> SUFFICES ASSUME NEW i \in 1 .. n, ~ Part(t, i).fix
             PROVE  OffsetsOf(t, h, n)[i] = StartsOf(t, r, n)[i]
  OBVIOUS
<1> DEFINE lens  == [j \in 1 .. n |-> r[j].len]
           sizes == [j \in 1 .. n |-> IF Part(t, j).fix THEN 0 ELSE h[j].size]
<1>1. /\ DOMAIN lens = 1 .. n /\ DOMAIN sizes = 1 .. n
      /\ \A j \in 1 .. n : lens[j] \in Nat /\ lens[j] = r[j].len
      /\ \A j \in 1 .. n : sizes[j] \in Nat /\ (~ Part(t, j).fix => sizes[j] = h[j].size)
      /\ i \in 1 .. n + 1 /\ n + 1 \in 1 .. n + 1
  OBVIOUS
<1>2. /\ StartsOf(t, r, n)[i] = HeadPos(t, n + 1) + TailSum(t, lens, i)
      /\ OffsetsOf(t, h, n)[i] = FirstOffset(t, n) + TailSum(t, sizes, i)
  BY <1>1 DEF StartsOf, OffsetsOf
<1> HIDE DEF lens, sizes
<1>3. ASSUME NEW j \in 1 .. n, j < i, ~ Part(t, j).fix PROVE lens[j] = sizes[j]
  <2>1. ~ (t.t = "struct" /\ LastTail(t, j))
    <3>1. SUFFICES ASSUME t.t = "struct", LastTail(t, j) PROVE FALSE
      OBVIOUS
    <3>2. i \in j + 1 .. Len(t.parts) /\ Part(t, i) = t.parts[i]
      BY <1>3, <3>1, TypeFacts DEF Count, Part
    <3> QED BY <3>1, <3>2 DEF LastTail
  <2> QED BY <1>1, <1>3, <2>1
<1>4. TailSum(t, lens, i) = TailSum(t, sizes, i)
  BY <1>1, <1>3, TailSame, SMTT(30)
<1>5. FirstOffset(t, n) = HeadPos(t, n + 1)
  <2>1. HeadPos(t, n + 1) = FixedSize(t, n)
    BY HeadsAre
  <2>2. CASE t.t = "struct"
    BY <2>1, <2>2 DEF FirstOffset, FixedSize
  <2>3. CASE t.t = "seq"
    <3>1. Width(t.parts[1]) = 4
      BY <2>3 DEF Part, Width
    <3> QED BY <2>1, <2>3, <3>1 DEF FirstOffset, FixedSize
  <2> QED BY <2>2, <2>3 DEF Nests
<1> QED BY <1>2, <1>4, <1>5

(* Only the pieces of the members and the offsets of those of variable     *)
(* size matter.                                                            *)
LEMMA PiecesSame ==
    ASSUME NEW t, NEW n \in Nat, NEW r, Upto(r, n), NEW s, Upto(s, n), NEW starts,
           NEW o, NEW p, \A i \in 1 .. n : r[i].at = s[i].at,
           \A i \in 1 .. n : ~ Part(t, i).fix => o[i] = p[i]
    PROVE  Pieces(t, r, starts, o) = Pieces(t, s, starts, p)
<1>1. Len(r) = n /\ DOMAIN r = 1 .. Len(r) /\ Len(s) = n /\ DOMAIN s = 1 .. Len(s)
  BY DEF Upto
<1>2. \A i \in 1 .. n : ~ Part(t, i).fix => Offset(t, i, o) = Offset(t, i, p)
  BY DEF Offset
<1>3. \A y : y \in Pieces(t, r, starts, o) <=>
             \/ \E i \in 1 .. Len(r) : \E x \in r[i].at : y = Moved(x, i, Begin(t, i, starts))
             \/ \E i \in 1 .. Len(r) : ~ Part(t, i).fix /\ y = Offset(t, i, o)
             \/ y = Gap(t, Len(r), starts) /\ HeadPos(t, Len(r) + 1) < starts[1]
  BY <1>1, PiecesAre, Zenon
<1>4. \A y : y \in Pieces(t, s, starts, p) <=>
             \/ \E i \in 1 .. Len(s) : \E x \in s[i].at : y = Moved(x, i, Begin(t, i, starts))
             \/ \E i \in 1 .. Len(s) : ~ Part(t, i).fix /\ y = Offset(t, i, p)
             \/ y = Gap(t, Len(s), starts) /\ HeadPos(t, Len(s) + 1) < starts[1]
  BY <1>1, PiecesAre, Zenon
<1>5. \A y : y \in Pieces(t, r, starts, o) <=> y \in Pieces(t, s, starts, p)
  <2> TAKE y
  <2> DEFINE A == \E i \in 1 .. n : \E x \in r[i].at : y = Moved(x, i, Begin(t, i, starts))
             B == \E i \in 1 .. n : \E x \in s[i].at : y = Moved(x, i, Begin(t, i, starts))
             C == \E i \in 1 .. n : ~ Part(t, i).fix /\ y = Offset(t, i, o)
             D == \E i \in 1 .. n : ~ Part(t, i).fix /\ y = Offset(t, i, p)
             E == y = Gap(t, n, starts) /\ HeadPos(t, n + 1) < starts[1]
  <2>1. y \in Pieces(t, r, starts, o) <=> A \/ C \/ E
    BY <1>1, <1>3, Zenon
  <2>2. y \in Pieces(t, s, starts, p) <=> B \/ D \/ E
    BY <1>1, <1>4, Zenon
  <2>3. A <=> B
    OBVIOUS
  <2>4. C <=> D
    BY <1>2, Zenon
  <2> HIDE DEF A, B, C, D, E
  <2> QED BY <2>1, <2>2, <2>3, <2>4
<1> QED BY <1>5

---------------------------------------------------------------------------
(* The encoding of an object that every method leaves as it is.            *)
Members(t, of) == [i \in 1 .. Len(of) |-> WireOf(Part(t, i), of[i])]
Encoding(t, of) ==
    LET r == Members(t, of)
        starts == StartsOf(t, r, Len(of))
    IN  [res |-> "ok", v |-> Made(of), len |-> starts[Len(of) + 1],
         at |-> Pieces(t, r, starts, starts)]

(* What MarshalSSZTo leaves has no nil in it: the methods find it whole,   *)
(* and hashing refuses nothing in it but the bits of a bitlist.            *)
WireLaw(t) ==
    \A v \in Vals(t) : WireOf(t, v).res = "ok" =>
        LET w == WireOf(t, v).v IN
        /\ WireOf(t, w) = WireOf(t, v) /\ NewOf(t, w) = w
        /\ SizeOf(t, w) = Sized(w, WireOf(t, v).len)
        /\ RootOf(t, w).v = w
        /\ BitsOf(t, w) => RootOf(t, w).res = "ok"
        /\ t.fix => WireOf(t, v).len = t.size

(* Members that are whole.                                                 *)
Settled(t, of, n) ==
    \A i \in 1 .. n : /\ of[i] \in Vals(Part(t, i))
                      /\ WireOf(Part(t, i), of[i]).res = "ok" /\ WireOf(Part(t, i), of[i]).v = of[i]

LEMMA Join ==
    ASSUME NEW t \in Types, Nests(t), NEW n \in Nat, Count(t, n), NEW of, Upto(of, n),
           Settled(t, of, n), \A i \in 1 .. n : WireLaw(Part(t, i)), ~ Invalid(t, Made(of))
    PROVE  LET w == Made(of)
               e == Encoding(t, of)
           IN  /\ w \in Vals(t) /\ NewOf(t, w) = w
               /\ WireOf(t, w) = e /\ SizeOf(t, w) = Sized(w, e.len)
               /\ RootOf(t, w).v = w
               /\ BitsOf(t, w) => RootOf(t, w).res = "ok"
               /\ t.fix => e.len = t.size
<1> DEFINE w == Made(of)
           m == Members(t, of)
           h == FirstPass(t, w)
           q == SecondPass(t, w)
           r == Sizes(t, w)
           g == Roots(t, w)
           starts == StartsOf(t, m, n)
<1>1. Len(of) = n /\ w.of = of
  BY DEF Upto, Made
<1>2. w \in Vals(t) /\ w # Nil
  <2>1. of = [i \in 1 .. n |-> of[i]] /\ \A i \in 1 .. n : of[i] \in Its(t, i).values
    BY DEF Settled, Upto, Its, Vals
  <2>2. Made(of) \in Generated[t].values /\ Made(of) # Nil
    BY <2>1, MadeIs
  <2> QED BY <2>2 DEF Vals
<1> HIDE DEF w
<1>3. \A i \in 1 .. n : Part(t, i) \in Types /\ Part(t, i).fix \in BOOLEAN
  BY MemberTypes, FixBoolean
<1>4. ASSUME NEW i \in 1 .. n
      PROVE  LET x == Part(t, i) IN
             /\ m[i] = WireOf(x, of[i]) /\ m[i].res = "ok" /\ m[i].v = of[i] /\ m[i].len \in Nat
             /\ NewOf(x, of[i]) = of[i] /\ Kid(t, w, i) = of[i]
             /\ SizeOf(x, of[i]) = Sized(of[i], m[i].len)
             /\ RootOf(x, of[i]).v = of[i]
             /\ BitsOf(x, of[i]) => RootOf(x, of[i]).res = "ok"
  <2> DEFINE x == Part(t, i)
             o == of[i]
  <2>1. m[i] = WireOf(x, o)
    BY <1>1 DEF Members
  <2>2. x \in Types /\ o \in Vals(x) /\ WireOf(x, o).res = "ok" /\ WireOf(x, o).v = o /\ WireLaw(x)
    BY <1>3 DEF Settled
  <2>3. Kid(t, w, i) = IF t.t = "struct" THEN NewOf(x, o) ELSE o
    BY <1>1 DEF Kid
  <2> HIDE DEF x, o, m
  <2>4. /\ NewOf(x, o) = o /\ SizeOf(x, o) = Sized(o, WireOf(x, o).len) /\ RootOf(x, o).v = o
        /\ BitsOf(x, o) => RootOf(x, o).res = "ok"
    BY <2>2, Zenon DEF WireLaw
  <2>5. WireOf(x, o).len \in Nat
    BY <2>2, TypedHolds DEF Typed
  <2>6. Kid(t, w, i) = o
    BY <2>3, <2>4
  <2> QED BY <2>1, <2>2, <2>4, <2>5, <2>6 DEF x, o
<1>5. /\ m = [i \in 1 .. n |-> WireOf(Part(t, i), of[i])]
      /\ h = [i \in 1 .. n |-> IF Part(t, i).fix THEN WireOf(Part(t, i), Kid(t, w, i))
                               ELSE IF t.t = "struct" /\ LastTail(t, i) THEN Sized(of[i], 0)
                               ELSE SizeOf(Part(t, i), Kid(t, w, i))]
      /\ q = [i \in 1 .. n |-> IF Part(t, i).fix THEN h[i]
                               ELSE WireOf(Part(t, i), Between(t, w)[i])]
      /\ r = [i \in 1 .. n |-> IF Part(t, i).fix THEN Sized(of[i], 0)
                               ELSE SizeOf(Part(t, i), Kid(t, w, i))]
      /\ g = [i \in 1 .. n |->
                RootOf(Part(t, i), IF Part(t, i).fix THEN Kid(t, w, i) ELSE of[i])]
  BY <1>1, Zenon DEF Members, FirstPass, SecondPass, Sizes, Roots
<1>6. Between(t, w) = After(h, of)
  BY <1>1 DEF Between
<1> HIDE DEF m, h, q, r, g
<1>7. Upto(m, n) /\ Upto(h, n) /\ Upto(q, n) /\ Upto(r, n) /\ Upto(g, n)
  BY <1>5 DEF Upto
<1>8. \A x, s : Sized(x, s).res = "ok" /\ Sized(x, s).v = x /\ Sized(x, s).size = s
  BY DEF Sized
<1>9. ASSUME NEW i \in 1 .. n
      PROVE  /\ h[i].res = "ok" /\ h[i].v = of[i] /\ (Part(t, i).fix => h[i] = m[i])
             /\ r[i].res = "ok" /\ r[i].v = of[i] /\ r[i].size \in Nat
             /\ ~ Part(t, i).fix => /\ h[i].size \in Nat /\ r[i].size = m[i].len
                                    /\ ~ (t.t = "struct" /\ LastTail(t, i)) => h[i].size = m[i].len
             /\ g[i] = RootOf(Part(t, i), of[i])
  <2>1. CASE Part(t, i).fix
    <3>1. h[i] = m[i] /\ r[i] = Sized(of[i], 0) /\ g[i] = RootOf(Part(t, i), of[i])
      BY <1>4, <1>5, <2>1
    <3> QED BY <1>4, <1>8, <2>1, <3>1
  <2>2. CASE ~ Part(t, i).fix
    <3>1. r[i] = Sized(of[i], m[i].len) /\ g[i] = RootOf(Part(t, i), of[i])
      BY <1>4, <1>5, <2>2
    <3>2. CASE t.t = "struct" /\ LastTail(t, i)
      <4>1. h[i] = Sized(of[i], 0)
        BY <1>5, <2>2, <3>2
      <4> QED BY <1>4, <1>8, <2>2, <3>1, <3>2, <4>1
    <3>3. CASE ~ (t.t = "struct" /\ LastTail(t, i))
      <4>1. h[i] = Sized(of[i], m[i].len)
        BY <1>4, <1>5, <2>2, <3>3
      <4> QED BY <1>4, <1>8, <2>2, <3>1, <4>1
    <3> QED BY <3>2, <3>3
  <2> QED BY <1>3, <2>1, <2>2
<1>10. Outcome(h) = "ok" /\ After(h, of) = of
  BY <1>7, <1>9, LoopIs
<1>11. q = m
  <2>1. \A i \in 1 .. n : (IF Part(t, i).fix THEN h[i] ELSE WireOf(Part(t, i), Between(t, w)[i]))
                             = WireOf(Part(t, i), of[i])
    BY <1>3, <1>4, <1>6, <1>9, <1>10
  <2> QED BY <1>5, <2>1, Zenon
<1>12. Outcome(m) = "ok" /\ After(m, of) = of
  BY <1>4, <1>7, LoopIs
<1>13. /\ starts[n + 1] \in Nat /\ starts[1] = FixedSize(t, n)
       /\ t.fix => starts[n + 1] = t.size
  BY <1>4, StartsAre
<1> HIDE DEF starts
<1>14. WireOf(t, w) = Encoding(t, of)
  <2>1. ~ Invalid(t, w)
    BY DEF w
  <2>2. WireOf(t, w) = Encode(t, P(t), w)
    BY <1>2, <2>1, NestedIs
  <2>3. Encode(t, P(t), w) =
          [res |-> "ok", v |-> Made(After(q, Between(t, w))), len |-> StartsOf(t, q, n)[n + 1],
           at |-> Pieces(t, q, StartsOf(t, q, n), OffsetsOf(t, h, n))]
    BY <1>1, <1>2, <1>10, <1>11, <1>12, EncodeIs DEF h, q
  <2>4. Encode(t, P(t), w) = [res |-> "ok", v |-> Made(of), len |-> starts[n + 1],
                              at |-> Pieces(t, m, starts, OffsetsOf(t, h, n))]
    BY <1>6, <1>10, <1>11, <1>12, <2>3 DEF starts
  <2>5. \A i \in 1 .. n : ~ Part(t, i).fix => OffsetsOf(t, h, n)[i] = starts[i]
    BY <1>4, <1>9, OffsetsAre DEF starts
  <2>6. Pieces(t, m, starts, OffsetsOf(t, h, n)) = Pieces(t, m, starts, starts)
    <3> DEFINE o == OffsetsOf(t, h, n)
    <3> HIDE DEF o
    <3>1. \A i \in 1 .. n : ~ Part(t, i).fix => o[i] = starts[i]
      BY <2>5 DEF o
    <3>2. Pieces(t, m, starts, o) = Pieces(t, m, starts, starts)
      BY <1>7, <3>1, PiecesSame
    <3> QED BY <3>2 DEF o
  <2> QED BY <1>1, <2>2, <2>4, <2>6 DEF Encoding, m, starts
<1>15. Encoding(t, of).len = starts[n + 1]
  BY <1>1 DEF Encoding, m, starts
<1>16. NewOf(t, w) = w
  BY <1>2, NestedIs
<1>17. SizeOf(t, w) = Sized(w, starts[n + 1])
  <2>1. CASE t.fix
    <3>1. SizeOf(t, w) = Sized(w, t.size)
      BY <1>2, <2>1, NestedIs
    <3> QED BY <1>13, <2>1, <3>1
  <2>2. CASE ~ t.fix
    <3>1. SizeOf(t, w) = [res |-> Outcome(r), v |-> Made(After(r, of)), size |-> SumOfSizes(t, r, n)]
      BY <1>1, <1>2, <2>2, NestedIs DEF r
    <3>2. Outcome(r) = "ok" /\ After(r, of) = of
      BY <1>7, <1>9, LoopIs
    <3> DEFINE lens == [i \in 1 .. n |-> m[i].len]
               sizes == [i \in 1 .. n |-> r[i].size]
    <3>3. /\ DOMAIN lens = 1 .. n /\ DOMAIN sizes = 1 .. n
          /\ \A i \in 1 .. n : lens[i] \in Nat /\ sizes[i] \in Nat
          /\ \A i \in 1 .. n : lens[i] = m[i].len /\ sizes[i] = r[i].size
          /\ n + 1 \in 1 .. n + 1
      BY <1>4, <1>9
    <3>4. /\ SumOfSizes(t, r, n) = FixedSize(t, n) + TailSum(t, sizes, n + 1)
          /\ starts[n + 1] = HeadPos(t, n + 1) + TailSum(t, lens, n + 1)
      BY <3>3 DEF SumOfSizes, StartsOf, starts
    <3> HIDE DEF lens, sizes
    <3>5. \A i \in 1 .. n : i < n + 1 /\ ~ Part(t, i).fix => lens[i] = sizes[i]
      BY <1>9, <3>3
    <3>6. TailSum(t, lens, n + 1) = TailSum(t, sizes, n + 1)
      BY <3>3, <3>5, TailSame
    <3>7. HeadPos(t, n + 1) = FixedSize(t, n)
      BY HeadsAre
    <3>8. SumOfSizes(t, r, n) = starts[n + 1]
      BY <3>4, <3>6, <3>7
    <3> QED BY <3>1, <3>2, <3>8 DEF Sized, w
  <2> QED BY <2>1, <2>2, FixBoolean
<1>18. RootOf(t, w).v = w /\ (BitsOf(t, w) => RootOf(t, w).res = "ok")
  <2>1. After(g, of) = of
    BY <1>4, <1>7, <1>9, LoopIs
  <2>2. ~ HashRefuses(t, w)
    BY DEF HashRefuses, Invalid, Nests, w
  <2>3. RootOf(t, w) = [res |-> Outcome(g), v |-> Made(After(g, of))]
    BY <1>1, <1>2, <2>2, NestedIs DEF g
  <2>4. BitsOf(t, w) = \A i \in 1 .. n : BitsOf(Part(t, i), of[i])
    BY <1>1, <1>2, NestedIs
  <2>5. ASSUME BitsOf(t, w) PROVE Outcome(g) = "ok"
    <3>1. \A i \in 1 .. n : BitsOf(Part(t, i), of[i])
      BY <2>4, <2>5
    <3>2. \A i \in 1 .. n : g[i].res = "ok"
      BY <1>4, <1>9, <3>1
    <3> QED BY <1>7, <3>2, LoopIs
  <2> QED BY <2>1, <2>3, <2>5 DEF w
<1> QED BY <1>2, <1>13, <1>14, <1>15, <1>16, <1>17, <1>18 DEF w

(* What MarshalSSZTo writes of any object is the encoding of what it       *)
(* leaves.                                                                 *)
LEMMA Split ==
    ASSUME NEW t \in Types, Nests(t), NEW v \in Vals(t), WireOf(t, v).res = "ok",
           \A i \in 1 .. Len(v.of) : WireLaw(Part(t, i))
    PROVE  \E of : /\ Upto(of, Len(v.of)) /\ Count(t, Len(v.of)) /\ Settled(t, of, Len(v.of))
                   /\ ~ Invalid(t, Made(of)) /\ WireOf(t, v) = Encoding(t, of)
<1> DEFINE n == Len(v.of)
           h == FirstPass(t, v)
           b == Between(t, v)
           q == SecondPass(t, v)
           vof == v.of
           of == After(q, b)
<1>1. v # Nil
  BY NotNil
<1>2. Count(t, n) /\ n \in Nat
  <2>1. v \in Generated[t].values
    BY DEF Vals
  <2>2. Count(t, n)
    BY <1>1, <2>1, HeldIs
  <2> QED BY <2>2 DEF Count
<1>3. \A i \in 1 .. n : Part(t, i) \in Types /\ Typed(Part(t, i)) /\ Part(t, i).fix \in BOOLEAN
  BY <1>2, MemberTypes, TypedHolds, FixBoolean
<1>4. /\ Upto(vof, n) /\ Upto(h, n) /\ Upto(b, n) /\ Upto(q, n)
      /\ \A i \in 1 .. n :
           /\ vof[i] \in Vals(Part(t, i)) /\ Kid(t, v, i) \in Vals(Part(t, i))
           /\ ~ Part(t, i).fix => h[i].size \in Nat
           /\ b[i] \in Vals(Part(t, i)) /\ q[i].len \in Nat /\ q[i].v \in Vals(Part(t, i))
  BY <1>1, <1>3, MembersTyped
<1>5. /\ \A i \in 1 .. n :
           h[i] = IF Part(t, i).fix THEN WireOf(Part(t, i), Kid(t, v, i))
                  ELSE IF t.t = "struct" /\ LastTail(t, i) THEN Sized(vof[i], 0)
                  ELSE SizeOf(Part(t, i), Kid(t, v, i))
      /\ \A i \in 1 .. n : q[i] = IF Part(t, i).fix THEN h[i] ELSE WireOf(Part(t, i), b[i])
  BY DEF FirstPass, SecondPass
<1>6. b = After(h, vof)
  BY DEF Between
<1>7. /\ Invalid(t, v) => WireOf(t, v) = Fails("error", v)
      /\ ~ Invalid(t, v) => WireOf(t, v) = Encode(t, P(t), v)
  BY <1>1, NestedIs
<1>8. /\ Outcome(h) # "ok" => Encode(t, P(t), v) = Fails(Outcome(h), Made(b))
      /\ Outcome(h) = "ok" /\ Outcome(q) # "ok" =>
           Encode(t, P(t), v) = Fails(Outcome(q), Made(After(q, b)))
      /\ Outcome(h) = "ok" /\ Outcome(q) = "ok" =>
           Encode(t, P(t), v) =
             [res |-> "ok", v |-> Made(After(q, b)), len |-> StartsOf(t, q, n)[n + 1],
              at |-> Pieces(t, q, StartsOf(t, q, n), OffsetsOf(t, h, n))]
  BY <1>1, EncodeIs
<1>9. \A i \in 1 .. n : WireLaw(Part(t, i))
  OBVIOUS
<1>10. t.t = "seq" => Len(vof) = n
  OBVIOUS
<1>11. Invalid(t, v) <=> t.t = "seq" /\ n > t.max
  BY DEF Invalid, Nests
<1> HIDE DEF n, h, b, q, vof
<1>12. ~ Invalid(t, v)
  BY <1>7 DEF Fails
<1>13. Outcome(h) = "ok" /\ Outcome(q) = "ok"
  BY <1>7, <1>8, <1>12 DEF Fails
<1>14. \A i \in 1 .. n : h[i].res = "ok" /\ b[i] = h[i].v
  BY <1>2, <1>4, <1>6, <1>13, LoopIs
<1>15. Upto(of, n) /\ \A i \in 1 .. n : q[i].res = "ok" /\ of[i] = q[i].v
  BY <1>2, <1>4, <1>13, LoopIs
<1> HIDE DEF of
<1>16. Len(of) = n /\ Made(of).of = of
  BY <1>2, <1>15 DEF Upto, Made
<1>17. ASSUME NEW i \in 1 .. n
       PROVE  WireOf(Part(t, i), of[i]) = q[i]
  <2> DEFINE x == Part(t, i)
             k == IF x.fix THEN Kid(t, v, i) ELSE b[i]
  <2>1. x \in Types /\ WireLaw(x) /\ k \in Vals(x) /\ q[i] = WireOf(x, k) /\ q[i].res = "ok"
        /\ of[i] = q[i].v
    BY <1>3, <1>4, <1>5, <1>9, <1>15
  <2> HIDE DEF x, k
  <2>2. WireOf(x, WireOf(x, k).v) = WireOf(x, k)
    BY <2>1, Zenon DEF WireLaw
  <2> QED BY <2>1, <2>2 DEF x
<1>18. Members(t, of) = q
  <2>1. Members(t, of) = [i \in 1 .. n |-> q[i]]
    BY <1>16, <1>17, Zenon DEF Members
  <2> QED BY <1>4, <2>1, Zenon DEF Upto
<1>19. Settled(t, of, n)
  BY <1>4, <1>15, <1>17 DEF Settled
<1>20. ~ Invalid(t, Made(of))
  BY <1>11, <1>12, <1>16 DEF Invalid, Nests
<1>21. ASSUME NEW i \in 1 .. n, ~ Part(t, i).fix, ~ (t.t = "struct" /\ LastTail(t, i))
       PROVE  h[i].size = q[i].len
  <2> DEFINE x == Part(t, i)
             k == Kid(t, v, i)
  <2>1. /\ x \in Types /\ k \in Vals(x) /\ h[i] = SizeOf(x, k) /\ h[i].res = "ok"
        /\ b[i] = h[i].v /\ q[i] = WireOf(x, b[i]) /\ q[i].res = "ok" /\ b[i] \in Vals(x)
    BY <1>3, <1>4, <1>5, <1>14, <1>15, <1>21
  <2> HIDE DEF x, k
  <2>2. SizeLaw(x)
    BY <2>1, SizeLawHolds
  <2>3. SizeOf(x, b[i]) = SizeOf(x, k)
    BY <2>1, <2>2 DEF SizeLaw
  <2>4. WireOf(x, b[i]).len = SizeOf(x, b[i]).size
    BY <2>1, <2>2, <2>3 DEF SizeLaw
  <2> QED BY <2>1, <2>3, <2>4
<1>22. \A i \in 1 .. n : ~ Part(t, i).fix => OffsetsOf(t, h, n)[i] = StartsOf(t, q, n)[i]
  BY <1>2, <1>4, <1>21, OffsetsAre
<1>23. Pieces(t, q, StartsOf(t, q, n), OffsetsOf(t, h, n))
         = Pieces(t, q, StartsOf(t, q, n), StartsOf(t, q, n))
  <2> DEFINE o == OffsetsOf(t, h, n)
             s == StartsOf(t, q, n)
  <2>1. \A i \in 1 .. n : ~ Part(t, i).fix => o[i] = s[i]
    BY <1>22
  <2> HIDE DEF o, s
  <2>2. Pieces(t, q, s, o) = Pieces(t, q, s, s)
    BY <1>2, <1>4, <2>1, PiecesSame
  <2> QED BY <2>2 DEF o, s
<1>24. WireOf(t, v) = Encoding(t, of)
  BY <1>7, <1>8, <1>12, <1>13, <1>16, <1>18, <1>23 DEF Encoding, of
<1>25. Upto(of, n) /\ Count(t, n) /\ Settled(t, of, n) /\ ~ Invalid(t, Made(of))
       /\ WireOf(t, v) = Encoding(t, of)
  BY <1>2, <1>15, <1>19, <1>20, <1>24
<1> QED BY <1>25 DEF n

LEMMA WireLawHolds ==
    \A t \in Types : WireLaw(t)
<1> DEFINE S == {t \in Types : WireLaw(t)}
<1>1. ASSUME NEW t \in Types, ~ Nests(t) PROVE t \in S
  <2>1. ASSUME NEW v \in Vals(t), WireOf(t, v).res = "ok"
        PROVE  LET w == WireOf(t, v).v IN
               /\ WireOf(t, w) = WireOf(t, v) /\ NewOf(t, w) = w
               /\ SizeOf(t, w) = Sized(w, WireOf(t, v).len)
               /\ RootOf(t, w).v = w
               /\ BitsOf(t, w) => RootOf(t, w).res = "ok"
               /\ t.fix => WireOf(t, v).len = t.size
    <3>1. /\ t.t \in {"basic", "vector", "list", "bitlist"} /\ v.n \in Int /\ LeafSize(t, v) \in Nat
          /\ NewOf(t, v) = v /\ SizeOf(t, v) = Sized(v, LeafSize(t, v))
          /\ WireOf(t, v) = IF Invalid(t, v) THEN Fails("error", v)
                            ELSE Wrote(t, v, LeafSize(t, v), LeafSays(t, v))
          /\ RootOf(t, v).v = v
          /\ RootOf(t, v).res = "ok" <=>
                ~ HashRefuses(t, v) /\ (t.t = "bitlist" => Chunks(v.n) <= Chunks(t.max))
          /\ BitsOf(t, v) = (t.t = "bitlist" => v.n \in 0 .. t.max)
      BY <1>1, LeafIs
    <3>2. ~ Invalid(t, v) /\ WireOf(t, v).v = v /\ WireOf(t, v).len = LeafSize(t, v)
      BY <2>1, <3>1 DEF Fails, Wrote
    <3>3. t.fix => LeafSize(t, v) = t.size
      BY DEF LeafSize
    <3>4. ASSUME BitsOf(t, v) PROVE RootOf(t, v).res = "ok"
      <4>1. CASE t.t = "bitlist"
        <5>1. v.n \in 0 .. t.max /\ t.max \in Nat
          BY <3>1, <3>4, <4>1, TypeFacts
        <5>2. Chunks(v.n) <= Chunks(t.max)
          BY <5>1 DEF Chunks
        <5>3. ~ HashRefuses(t, v)
          BY <4>1, <5>1 DEF HashRefuses
        <5> QED BY <3>1, <5>2, <5>3
      <4>2. CASE t.t # "bitlist"
        <5>1. ~ HashRefuses(t, v)
          BY <3>1, <3>2, <4>2 DEF HashRefuses, Invalid
        <5> QED BY <3>1, <4>2, <5>1
      <4> QED BY <4>1, <4>2
    <3> QED BY <3>1, <3>2, <3>3, <3>4
  <2> QED BY <2>1 DEF WireLaw
<1>2. ASSUME NEW t \in Types, Nests(t),
             \A n : Count(t, n) => \A i \in 1 .. n : Part(t, i) \in S
      PROVE  t \in S
  <2>1. \A n : Count(t, n) => \A i \in 1 .. n : WireLaw(Part(t, i))
    BY <1>2
  <2> HIDE DEF S
  <2>2. ASSUME NEW v \in Vals(t), WireOf(t, v).res = "ok"
        PROVE  LET w == WireOf(t, v).v IN
               /\ WireOf(t, w) = WireOf(t, v) /\ NewOf(t, w) = w
               /\ SizeOf(t, w) = Sized(w, WireOf(t, v).len)
               /\ RootOf(t, w).v = w
               /\ BitsOf(t, w) => RootOf(t, w).res = "ok"
               /\ t.fix => WireOf(t, v).len = t.size
    <3> DEFINE n == Len(v.of)
    <3>1. Count(t, n) /\ n \in Nat
      <4>1. v # Nil /\ v \in Generated[t].values
        BY <1>2, <2>2, NotNil DEF Vals
      <4>2. Count(t, n)
        BY <1>2, <4>1, HeldIs
      <4> QED BY <4>2 DEF Count
    <3>2. \A i \in 1 .. n : WireLaw(Part(t, i))
      BY <2>1, <3>1
    <3>3. PICK of : /\ Upto(of, n) /\ Count(t, n) /\ Settled(t, of, n)
                    /\ ~ Invalid(t, Made(of)) /\ WireOf(t, v) = Encoding(t, of)
      BY <1>2, <2>2, <3>2, Split
    <3> DEFINE w == Made(of)
               e == Encoding(t, of)
    <3> HIDE DEF n
    <3>4. /\ w \in Vals(t) /\ NewOf(t, w) = w
          /\ WireOf(t, w) = e /\ SizeOf(t, w) = Sized(w, e.len)
          /\ RootOf(t, w).v = w
          /\ BitsOf(t, w) => RootOf(t, w).res = "ok"
          /\ t.fix => e.len = t.size
      BY <1>2, <3>1, <3>2, <3>3, Join
    <3>5. e.v = w
      BY DEF Encoding
    <3> HIDE DEF e, w
    <3>6. WireOf(t, v) = e
      BY <3>3 DEF e
    <3> QED BY <3>4, <3>5, <3>6
  <2>3. WireLaw(t)
    BY <2>2 DEF WireLaw
  <2> QED BY <2>3 DEF S
<1> HIDE DEF S
<1>3. Types \subseteq S
  BY <1>1, <1>2, MemberInduction
<1> QED BY <1>3 DEF S

---------------------------------------------------------------------------
(* What HashTreeRoot leaves has no nil in it either: the other methods     *)
(* change nothing in it, and marshalling refuses nothing but a bitlist.    *)
RootLaw(t) ==
    \A v \in Vals(t) : RootOf(t, v).res = "ok" =>
        LET w == RootOf(t, v).v IN
        /\ RootOf(t, w) = RootOf(t, v) /\ NewOf(t, w) = w
        /\ SizeOf(t, w).res = "ok" /\ SizeOf(t, w).v = w
        /\ WireOf(t, w).v = w
        /\ BitsOf(t, w) => WireOf(t, w).res = "ok"

LEMMA RootJoin ==
    ASSUME NEW t \in Types, Nests(t), NEW n \in Nat, Count(t, n), NEW of, Upto(of, n),
           \A i \in 1 .. n : /\ of[i] \in Vals(Part(t, i)) /\ RootLaw(Part(t, i))
                             /\ RootOf(Part(t, i), of[i]).res = "ok"
                             /\ RootOf(Part(t, i), of[i]).v = of[i],
           ~ HashRefuses(t, Made(of))
    PROVE  LET w == Made(of) IN
           /\ w \in Vals(t) /\ NewOf(t, w) = w
           /\ RootOf(t, w) = [res |-> "ok", v |-> w]
           /\ SizeOf(t, w).res = "ok" /\ SizeOf(t, w).v = w
           /\ WireOf(t, w).v = w
           /\ BitsOf(t, w) => WireOf(t, w).res = "ok"
<1> DEFINE w == Made(of)
           h == FirstPass(t, w)
           b == Between(t, w)
           q == SecondPass(t, w)
           r == Sizes(t, w)
           g == Roots(t, w)
<1>1. Len(of) = n /\ w.of = of
  BY DEF Upto, Made
<1>2. w \in Vals(t) /\ w # Nil
  <2>1. of = [i \in 1 .. n |-> of[i]] /\ \A i \in 1 .. n : of[i] \in Its(t, i).values
    BY DEF Upto, Its, Vals
  <2>2. Made(of) \in Generated[t].values /\ Made(of) # Nil
    BY <2>1, MadeIs
  <2> QED BY <2>2 DEF Vals
<1> HIDE DEF w
<1>3. \A i \in 1 .. n : Part(t, i) \in Types /\ Part(t, i).fix \in BOOLEAN
  BY MemberTypes, FixBoolean
<1>4. ASSUME NEW i \in 1 .. n
      PROVE  LET x == Part(t, i) IN
             /\ RootOf(x, of[i]).res = "ok" /\ RootOf(x, of[i]).v = of[i]
             /\ Kid(t, w, i) = of[i]
             /\ SizeOf(x, of[i]).res = "ok" /\ SizeOf(x, of[i]).v = of[i]
             /\ WireOf(x, of[i]).v = of[i]
             /\ BitsOf(x, of[i]) => WireOf(x, of[i]).res = "ok"
  <2> DEFINE x == Part(t, i)
             o == of[i]
  <2>1. o \in Vals(x) /\ RootOf(x, o).res = "ok" /\ RootOf(x, o).v = o /\ RootLaw(x)
    OBVIOUS
  <2>2. Kid(t, w, i) = IF t.t = "struct" THEN NewOf(x, o) ELSE o
    BY <1>1 DEF Kid
  <2> HIDE DEF x, o
  <2>3. /\ NewOf(x, o) = o /\ SizeOf(x, o).res = "ok" /\ SizeOf(x, o).v = o /\ WireOf(x, o).v = o
        /\ BitsOf(x, o) => WireOf(x, o).res = "ok"
    BY <2>1, Zenon DEF RootLaw
  <2>4. Kid(t, w, i) = o
    BY <2>2, <2>3
  <2> QED BY <2>1, <2>3, <2>4 DEF x, o
<1>5. /\ h = [i \in 1 .. n |-> IF Part(t, i).fix THEN WireOf(Part(t, i), Kid(t, w, i))
                               ELSE IF t.t = "struct" /\ LastTail(t, i) THEN Sized(of[i], 0)
                               ELSE SizeOf(Part(t, i), Kid(t, w, i))]
      /\ q = [i \in 1 .. n |-> IF Part(t, i).fix THEN h[i] ELSE WireOf(Part(t, i), b[i])]
      /\ r = [i \in 1 .. n |-> IF Part(t, i).fix THEN Sized(of[i], 0)
                               ELSE SizeOf(Part(t, i), Kid(t, w, i))]
      /\ g = [i \in 1 .. n |->
                RootOf(Part(t, i), IF Part(t, i).fix THEN Kid(t, w, i) ELSE of[i])]
  BY <1>1, Zenon DEF FirstPass, SecondPass, Sizes, Roots
<1>6. b = After(h, of)
  BY <1>1 DEF Between
<1>7. /\ Outcome(h) # "ok" => Encode(t, P(t), w) = Fails(Outcome(h), Made(b))
      /\ Outcome(h) = "ok" /\ Outcome(q) # "ok" =>
           Encode(t, P(t), w) = Fails(Outcome(q), Made(After(q, b)))
      /\ Outcome(h) = "ok" /\ Outcome(q) = "ok" =>
           Encode(t, P(t), w) =
             [res |-> "ok", v |-> Made(After(q, b)), len |-> StartsOf(t, q, n)[n + 1],
              at |-> Pieces(t, q, StartsOf(t, q, n), OffsetsOf(t, h, n))]
  BY <1>1, <1>2, EncodeIs
<1>8. /\ SizeOf(t, w) = IF t.fix THEN Sized(w, t.size)
                        ELSE [res |-> Outcome(r), v |-> Made(After(r, of)), size |-> SumOfSizes(t, r, n)]
      /\ ~ Invalid(t, w) => WireOf(t, w) = Encode(t, P(t), w)
      /\ ~ HashRefuses(t, w) => RootOf(t, w) = [res |-> Outcome(g), v |-> Made(After(g, of))]
      /\ NewOf(t, w) = w
      /\ BitsOf(t, w) = \A i \in 1 .. n : BitsOf(Part(t, i), of[i])
  BY <1>1, <1>2, NestedIs
<1> HIDE DEF h, b, q, r, g
<1>9. Upto(h, n) /\ Upto(q, n) /\ Upto(r, n) /\ Upto(g, n)
  BY <1>5 DEF Upto
<1>10. \A x, s : Sized(x, s).res = "ok" /\ Sized(x, s).v = x
  BY DEF Sized
<1>11. ASSUME NEW i \in 1 .. n
       PROVE  /\ h[i].v = of[i] /\ r[i].res = "ok" /\ r[i].v = of[i]
              /\ BitsOf(Part(t, i), of[i]) => h[i].res = "ok"
              /\ g[i].res = "ok" /\ g[i].v = of[i]
  <2>1. CASE Part(t, i).fix
    <3>1. h[i] = WireOf(Part(t, i), of[i]) /\ r[i] = Sized(of[i], 0) /\ g[i] = RootOf(Part(t, i), of[i])
      BY <1>4, <1>5, <2>1
    <3> QED BY <1>4, <1>10, <3>1
  <2>2. CASE ~ Part(t, i).fix
    <3>1. r[i] = SizeOf(Part(t, i), of[i]) /\ g[i] = RootOf(Part(t, i), of[i])
          /\ (h[i] = Sized(of[i], 0) \/ h[i] = SizeOf(Part(t, i), of[i]))
      BY <1>4, <1>5, <2>2
    <3> QED BY <1>4, <1>10, <3>1
  <2> QED BY <1>3, <2>1, <2>2
<1>12. b = of
  BY <1>6, <1>9, <1>11, LoopIs
<1>13. ASSUME NEW i \in 1 .. n
       PROVE  q[i].v = of[i] /\ (BitsOf(Part(t, i), of[i]) => q[i].res = "ok")
  <2>1. q[i] = IF Part(t, i).fix THEN h[i] ELSE WireOf(Part(t, i), of[i])
    BY <1>5, <1>12
  <2> QED BY <1>3, <1>4, <1>11, <2>1
<1>14. After(q, b) = of /\ After(r, of) = of /\ After(g, of) = of
  BY <1>9, <1>11, <1>12, <1>13, LoopIs
<1>15. Outcome(r) = "ok" /\ Outcome(g) = "ok"
  BY <1>9, <1>11, LoopIs
<1>16. ~ HashRefuses(t, w) /\ ~ Invalid(t, w)
  BY DEF HashRefuses, Invalid, Nests, w
<1>17. RootOf(t, w) = [res |-> "ok", v |-> w]
  BY <1>8, <1>14, <1>15, <1>16 DEF w
<1>18. SizeOf(t, w).res = "ok" /\ SizeOf(t, w).v = w
  BY <1>8, <1>10, <1>14, <1>15, FixBoolean DEF w
<1>19. WireOf(t, w).v = w
  <2>1. CASE Outcome(h) # "ok"
    BY <1>7, <1>8, <1>12, <1>16, <2>1 DEF Fails, w
  <2>2. CASE Outcome(h) = "ok" /\ Outcome(q) # "ok"
    BY <1>7, <1>8, <1>14, <1>16, <2>2 DEF Fails, w
  <2>3. CASE Outcome(h) = "ok" /\ Outcome(q) = "ok"
    BY <1>7, <1>8, <1>14, <1>16, <2>3 DEF w
  <2> QED BY <2>1, <2>2, <2>3
<1>20. ASSUME BitsOf(t, w) PROVE WireOf(t, w).res = "ok"
  <2>1. \A i \in 1 .. n : h[i].res = "ok" /\ q[i].res = "ok"
    BY <1>8, <1>11, <1>13, <1>20
  <2>2. Outcome(h) = "ok" /\ Outcome(q) = "ok"
    BY <1>9, <2>1, LoopIs
  <2> QED BY <1>7, <1>8, <1>16, <2>2
<1> QED BY <1>2, <1>8, <1>17, <1>18, <1>19, <1>20 DEF w

LEMMA RootLawHolds ==
    \A t \in Types : RootLaw(t)
<1> DEFINE S == {t \in Types : RootLaw(t)}
<1>1. ASSUME NEW t \in Types, ~ Nests(t) PROVE t \in S
  <2>1. ASSUME NEW v \in Vals(t), RootOf(t, v).res = "ok"
        PROVE  LET w == RootOf(t, v).v IN
               /\ RootOf(t, w) = RootOf(t, v) /\ NewOf(t, w) = w
               /\ SizeOf(t, w).res = "ok" /\ SizeOf(t, w).v = w
               /\ WireOf(t, w).v = w
               /\ BitsOf(t, w) => WireOf(t, w).res = "ok"
    <3>1. /\ t.t \in {"basic", "vector", "list", "bitlist"} /\ v.n \in Int
          /\ NewOf(t, v) = v /\ SizeOf(t, v) = Sized(v, LeafSize(t, v))
          /\ WireOf(t, v) = IF Invalid(t, v) THEN Fails("error", v)
                            ELSE Wrote(t, v, LeafSize(t, v), LeafSays(t, v))
          /\ RootOf(t, v).v = v
          /\ RootOf(t, v).res = "ok" <=>
                ~ HashRefuses(t, v) /\ (t.t = "bitlist" => Chunks(v.n) <= Chunks(t.max))
          /\ BitsOf(t, v) = (t.t = "bitlist" => v.n \in 0 .. t.max)
      BY <1>1, LeafIs
    <3>2. ~ HashRefuses(t, v)
      BY <2>1, <3>1
    <3>3. SizeOf(t, v).res = "ok" /\ SizeOf(t, v).v = v /\ WireOf(t, v).v = v
      BY <3>1 DEF Sized, Fails, Wrote
    <3>4. ASSUME BitsOf(t, v) PROVE WireOf(t, v).res = "ok"
      <4>1. ~ Invalid(t, v)
        <5>1. CASE t.t = "bitlist"
          <6>1. v.n \in 0 .. t.max /\ t.max \in Nat /\ t.max > 0
            BY <3>1, <3>4, <5>1, TypeFacts DEF WellFormed
          <6>2. BitBytes(v.n) <= t.max
            BY <6>1 DEF BitBytes
          <6>3. BitBytes(v.n) \in Nat
            BY <6>1 DEF BitBytes
          <6> QED BY <5>1, <6>1, <6>2, <6>3 DEF Invalid
        <5>2. CASE t.t # "bitlist"
          BY <3>1, <3>2, <5>2 DEF HashRefuses, Invalid
        <5> QED BY <5>1, <5>2
      <4> QED BY <3>1, <4>1 DEF Wrote
    <3> QED BY <3>1, <3>3, <3>4
  <2> QED BY <2>1 DEF RootLaw
<1>2. ASSUME NEW t \in Types, Nests(t),
             \A n : Count(t, n) => \A i \in 1 .. n : Part(t, i) \in S
      PROVE  t \in S
  <2>1. \A n : Count(t, n) => \A i \in 1 .. n : RootLaw(Part(t, i))
    BY <1>2
  <2> HIDE DEF S
  <2>2. ASSUME NEW v \in Vals(t), RootOf(t, v).res = "ok"
        PROVE  LET w == RootOf(t, v).v IN
               /\ RootOf(t, w) = RootOf(t, v) /\ NewOf(t, w) = w
               /\ SizeOf(t, w).res = "ok" /\ SizeOf(t, w).v = w
               /\ WireOf(t, w).v = w
               /\ BitsOf(t, w) => WireOf(t, w).res = "ok"
    <3> DEFINE n == Len(v.of)
               vof == v.of
               g == Roots(t, v)
               of == After(g, vof)
               w == Made(of)
    <3>1. v # Nil
      BY <1>2, <2>2, NotNil
    <3>2. Count(t, n) /\ n \in Nat
      <4>1. v \in Generated[t].values
        BY DEF Vals
      <4>2. Count(t, n)
        BY <1>2, <3>1, <4>1, HeldIs
      <4> QED BY <4>2 DEF Count
    <3>3. \A i \in 1 .. n : RootLaw(Part(t, i)) /\ Part(t, i) \in Types /\ Typed(Part(t, i))
                            /\ Part(t, i).fix \in BOOLEAN
      BY <1>2, <2>1, <3>2, MemberTypes, TypedHolds, FixBoolean
    <3>4. /\ Upto(vof, n) /\ Upto(g, n)
          /\ \A i \in 1 .. n :
               /\ vof[i] \in Vals(Part(t, i)) /\ Kid(t, v, i) \in Vals(Part(t, i))
               /\ g[i].v \in Vals(Part(t, i))
      BY <1>2, <3>1, <3>3, MembersTyped
    <3>5. \A i \in 1 .. n :
             g[i] = RootOf(Part(t, i), IF Part(t, i).fix THEN Kid(t, v, i) ELSE vof[i])
      BY DEF Roots
    <3>6. /\ HashRefuses(t, v) => RootOf(t, v) = [res |-> "error", v |-> v]
          /\ ~ HashRefuses(t, v) => RootOf(t, v) = [res |-> Outcome(g), v |-> w]
      BY <1>2, <3>1, NestedIs
    <3>7. ~ HashRefuses(t, v) /\ Outcome(g) = "ok" /\ RootOf(t, v) = [res |-> "ok", v |-> w]
      BY <2>2, <3>6
    <3>8. HashRefuses(t, v) <=> t.t = "seq" /\ n > t.max
      BY <1>2 DEF HashRefuses, Nests
    <3> HIDE DEF n, vof, g
    <3>9. Upto(of, n) /\ \A i \in 1 .. n : g[i].res = "ok" /\ of[i] = g[i].v
      BY <3>2, <3>4, <3>7, LoopIs
    <3> HIDE DEF of
    <3>10. ASSUME NEW i \in 1 .. n
           PROVE  /\ of[i] \in Vals(Part(t, i)) /\ RootLaw(Part(t, i))
                  /\ RootOf(Part(t, i), of[i]).res = "ok"
                  /\ RootOf(Part(t, i), of[i]).v = of[i]
      <4> DEFINE x == Part(t, i)
                 k == IF x.fix THEN Kid(t, v, i) ELSE vof[i]
      <4>1. RootLaw(x) /\ k \in Vals(x) /\ g[i] = RootOf(x, k) /\ g[i].res = "ok" /\ of[i] = g[i].v
            /\ of[i] \in Vals(x)
        BY <3>3, <3>4, <3>5, <3>9
      <4> HIDE DEF x, k
      <4>2. RootOf(x, RootOf(x, k).v) = RootOf(x, k)
        BY <4>1, Zenon DEF RootLaw
      <4> QED BY <4>1, <4>2 DEF x
    <3>11. ~ HashRefuses(t, w)
      <4>1. Len(of) = n /\ w.of = of
        BY <3>2, <3>9 DEF Upto, Made
      <4> QED BY <1>2, <3>7, <3>8, <4>1 DEF HashRefuses, Nests
    <3>12. /\ w \in Vals(t) /\ NewOf(t, w) = w
           /\ RootOf(t, w) = [res |-> "ok", v |-> w]
           /\ SizeOf(t, w).res = "ok" /\ SizeOf(t, w).v = w
           /\ WireOf(t, w).v = w
           /\ BitsOf(t, w) => WireOf(t, w).res = "ok"
      BY <1>2, <3>2, <3>9, <3>10, <3>11, RootJoin
    <3> HIDE DEF w
    <3> QED BY <3>7, <3>12
  <2>3. RootLaw(t)
    BY <2>2 DEF RootLaw
  <2> QED BY <2>3 DEF S
<1> HIDE DEF S
<1>3. Types \subseteq S
  BY <1>1, <1>2, MemberInduction
<1> QED BY <1>3 DEF S

---------------------------------------------------------------------------
(* An encoding is covered by its pieces.                                   *)
Shaped(at) == \A x \in at : x.kind = "offset" => x.to = x.from + 4

PieceLaw(t) ==
    \A v \in Vals(t) : WireOf(t, v).res = "ok" =>
        Covers(WireOf(t, v).at, WireOf(t, v).len) /\ Shaped(WireOf(t, v).at)

LEMMA AloneIs ==
    ASSUME NEW t, NEW len \in Nat, NEW says
    PROVE  Covers(Alone(t, len, says), len) /\ Shaped(Alone(t, len, says))
<1> DEFINE x == Piece(<< >>, 0, len, IF t.t = "bitlist" THEN "bits" ELSE "bytes", says)
<1>1. Alone(t, len, says) = {x}
  BY DEF Alone
<1>2. x.from = 0 /\ x.to = len /\ x.kind # "offset"
  BY DEF Piece
<1> HIDE DEF x
<1>3. \A q \in Nat : q < len => Has(x, q)
  BY <1>2 DEF Has
<1>4. Within(x, len)
  BY <1>2 DEF Within
<1> QED BY <1>1, <1>2, <1>3, <1>4 DEF Covers, Shaped

LEMMA PiecesShaped ==
    ASSUME NEW t \in Types, Nests(t), NEW n, Count(t, n),
           NEW r, DOMAIN r = 1 .. n, Len(r) = n, NEW starts, NEW offsets,
           starts[1] \in Nat,
           \A i \in 1 .. n : Shaped(r[i].at)
                             /\ \A x \in r[i].at : x.from \in Nat /\ x.to \in Nat,
           \A i \in 1 .. n : Begin(t, i, starts) \in Nat
    PROVE  Shaped(Pieces(t, r, starts, offsets))
<1>1. SUFFICES ASSUME NEW y \in Pieces(t, r, starts, offsets), y.kind = "offset"
               PROVE  y.to = y.from + 4
  BY DEF Shaped
<1>2. \/ \E i \in 1 .. n : \E x \in r[i].at : y = Moved(x, i, Begin(t, i, starts))
      \/ \E i \in 1 .. n : ~ Part(t, i).fix /\ y = Offset(t, i, offsets)
      \/ y = Gap(t, n, starts) /\ HeadPos(t, n + 1) < starts[1]
  BY <1>1, PiecesAre
<1>3. CASE \E i \in 1 .. n : \E x \in r[i].at : y = Moved(x, i, Begin(t, i, starts))
  <2>1. PICK i \in 1 .. n : \E x \in r[i].at : y = Moved(x, i, Begin(t, i, starts))
    BY <1>3
  <2>2. PICK x \in r[i].at : y = Moved(x, i, Begin(t, i, starts))
    BY <2>1
  <2> DEFINE s == Begin(t, i, starts)
  <2>3. y.kind = x.kind /\ y.from = x.from + s /\ y.to = x.to + s
    BY <2>2 DEF Moved, Piece
  <2>4. s \in Nat /\ x.from \in Nat /\ x.to \in Nat /\ Shaped(r[i].at)
    BY <2>2
  <2> HIDE DEF s
  <2> QED BY <1>1, <2>2, <2>3, <2>4, SMTT(30) DEF Shaped
<1>4. CASE \E i \in 1 .. n : ~ Part(t, i).fix /\ y = Offset(t, i, offsets)
  BY <1>4 DEF Offset, Piece
<1>5. CASE y = Gap(t, n, starts) /\ HeadPos(t, n + 1) < starts[1]
  BY <1>1, <1>5 DEF Gap, Piece
<1> QED BY <1>2, <1>3, <1>4, <1>5

LEMMA PieceLawHolds ==
    \A t \in Types : PieceLaw(t)
<1> DEFINE S == {t \in Types : PieceLaw(t)}
<1>1. ASSUME NEW t \in Types, ~ Nests(t) PROVE t \in S
  <2>1. ASSUME NEW v \in Vals(t), WireOf(t, v).res = "ok"
        PROVE  Covers(WireOf(t, v).at, WireOf(t, v).len) /\ Shaped(WireOf(t, v).at)
    <3>1. /\ LeafSize(t, v) \in Nat
          /\ WireOf(t, v) = IF Invalid(t, v) THEN Fails("error", v)
                            ELSE Wrote(t, v, LeafSize(t, v), LeafSays(t, v))
      BY <1>1, LeafIs
    <3>2. WireOf(t, v).at = Alone(t, LeafSize(t, v), LeafSays(t, v))
          /\ WireOf(t, v).len = LeafSize(t, v)
      BY <2>1, <3>1 DEF Fails, Wrote
    <3> QED BY <3>1, <3>2, AloneIs
  <2> QED BY <2>1 DEF PieceLaw
<1>2. ASSUME NEW t \in Types, Nests(t),
             \A n : Count(t, n) => \A i \in 1 .. n : Part(t, i) \in S
      PROVE  t \in S
  <2>1. \A n : Count(t, n) => \A i \in 1 .. n : PieceLaw(Part(t, i))
    BY <1>2
  <2> HIDE DEF S
  <2>2. ASSUME NEW v \in Vals(t), WireOf(t, v).res = "ok"
        PROVE  Covers(WireOf(t, v).at, WireOf(t, v).len) /\ Shaped(WireOf(t, v).at)
    <3> DEFINE n == Len(v.of)
    <3>1. Count(t, n) /\ n \in Nat
      <4>1. v # Nil /\ v \in Generated[t].values
        BY <1>2, <2>2, NotNil DEF Vals
      <4>2. Count(t, n)
        BY <1>2, <4>1, HeldIs
      <4> QED BY <4>2 DEF Count
    <3>2. \A i \in 1 .. n : /\ PieceLaw(Part(t, i)) /\ WireLaw(Part(t, i)) /\ Part(t, i) \in Types
                            /\ Typed(Part(t, i)) /\ Part(t, i).fix \in BOOLEAN
      BY <1>2, <2>1, <3>1, MemberTypes, WireLawHolds, TypedHolds, FixBoolean
    <3>3. PICK of : /\ Upto(of, n) /\ Count(t, n) /\ Settled(t, of, n)
                    /\ ~ Invalid(t, Made(of)) /\ WireOf(t, v) = Encoding(t, of)
      BY <1>2, <2>2, <3>2, Split
    <3> DEFINE r == Members(t, of)
               s == StartsOf(t, r, n)
    <3> HIDE DEF n
    <3>4. Len(of) = n /\ Made(of).of = of
      BY <3>1, <3>3 DEF Upto, Made
    <3>5. DOMAIN r = 1 .. n /\ Len(r) = n /\ \A i \in 1 .. n : r[i] = WireOf(Part(t, i), of[i])
      BY <3>1, <3>4 DEF Members
    <3> HIDE DEF r
    <3>6. ASSUME NEW i \in 1 .. n
          PROVE  /\ r[i].len \in Nat /\ Covers(r[i].at, r[i].len) /\ Shaped(r[i].at)
                 /\ Part(t, i).fix => r[i].len = Part(t, i).size
      <4> DEFINE x == Part(t, i)
                 w == of[i]
      <4>1. x \in Types /\ w \in Vals(x) /\ WireOf(x, w).res = "ok" /\ r[i] = WireOf(x, w)
            /\ PieceLaw(x) /\ WireLaw(x) /\ Typed(x)
        BY <3>2, <3>3, <3>5 DEF Settled
      <4> HIDE DEF x, w
      <4>2. x.fix => WireOf(x, w).len = x.size
        BY <4>1, Zenon DEF WireLaw
      <4>3. WireOf(x, w).len \in Nat
        BY <4>1 DEF Typed
      <4>4. Covers(WireOf(x, w).at, WireOf(x, w).len) /\ Shaped(WireOf(x, w).at)
        BY <4>1 DEF PieceLaw
      <4> QED BY <4>1, <4>2, <4>3, <4>4 DEF x
    <3>7. /\ Ascends(s, n) /\ s[1] = FixedSize(t, n) /\ s[n + 1] \in Nat
          /\ \A i \in 1 .. n : s[i + 1] = IF Part(t, i).fix THEN s[i] ELSE s[i] + r[i].len
      BY <1>2, <3>1, <3>6, StartsAre
    <3>8. WireOf(t, v).at = Pieces(t, r, s, s) /\ WireOf(t, v).len = s[n + 1]
      BY <3>3, <3>4 DEF Encoding, r
    <3> HIDE DEF s
    <3>9. s[1] \in Nat /\ \A i \in 1 .. n : s[i] \in Nat
      BY <3>1, <3>7 DEF Ascends
    <3>10. \A i \in 1 .. n :
               IF Part(t, i).fix
               THEN s[i + 1] = s[i] /\ Covers(r[i].at, Part(t, i).size)
               ELSE Covers(r[i].at, s[i + 1] - s[i])
      <4>1. TAKE i \in 1 .. n
      <4>2. CASE Part(t, i).fix
        BY <3>6, <3>7, <4>2
      <4>3. CASE ~ Part(t, i).fix
        <5>1. s[i + 1] - s[i] = r[i].len
          BY <3>6, <3>7, <3>9, <4>3
        <5> QED BY <3>6, <4>3, <5>1
      <4> QED BY <4>2, <4>3
    <3>11. Covers(Pieces(t, r, s, s), s[n + 1])
      <4>1. FixedSize(t, n) <= s[1]
        BY <3>7, <3>9
      <4> QED BY <1>2, <3>1, <3>5, <3>7, <3>10, <4>1, PiecesCover
    <3>12. \A i \in 1 .. n : Begin(t, i, s) \in Nat
      <4>1. \A i \in 1 .. n + 1 : HeadPos(t, i) \in Nat
        BY <1>2, <3>1, HeadsAre
      <4> QED BY <3>1, <3>2, <3>9, <4>1 DEF Begin
    <3>13. \A i \in 1 .. n : \A x \in r[i].at : x.from \in Nat /\ x.to \in Nat
      BY <3>6 DEF Covers, Within
    <3>14. Shaped(Pieces(t, r, s, s))
      BY <1>2, <3>1, <3>5, <3>6, <3>9, <3>12, <3>13, PiecesShaped
    <3> QED BY <3>8, <3>11, <3>14
  <2>3. PieceLaw(t)
    BY <2>2 DEF PieceLaw
  <2> QED BY <2>3 DEF S
<1> HIDE DEF S
<1>3. Types \subseteq S
  BY <1>1, <1>2, MemberInduction
<1> QED BY <1>3 DEF S

---------------------------------------------------------------------------
(* What slices say, and slices of slices.                                  *)
LEMMA SliceFacts ==
    ASSUME NEW b \in Slices
    PROVE  /\ b.from \in Nat /\ b.to \in Nat /\ Length(b) \in Int
           /\ \A pos \in Nat : ReadOffset(b, pos) \in Nat
           /\ EndBit(b) \in -1 .. 7
           /\ \A x, y \in Nat : /\ Sub(b, x, y) \in Slices /\ Length(Sub(b, x, y)) = y - x
                                /\ Sub(b, x, y).from = b.from + x /\ Sub(b, x, y).to = b.from + y
                                /\ Sub(b, x, y).wire = b.wire
<1> DEFINE w == b.wire
<1>1. w \in Wires /\ b.from \in Nat /\ b.to \in Nat
  BY DEF Slices
<1>2. w.offs \subseteq Nat \X Nat /\ w.ends \subseteq Nat \X (-1 .. 7) /\ w.junk \in Nat
  <2>1. w.offs \subseteq Nat \X (0 .. MaxUint32) /\ w.ends \subseteq Nat \X (-1 .. 7) /\ w.junk \in Nat
    BY <1>1 DEF Wires
  <2> QED BY <2>1, CallerAssumption
<1>3. \A pos \in Nat : ReadOffset(b, pos) \in Nat
  BY <1>1, <1>2 DEF ReadOffset, At
<1>4. EndBit(b) \in -1 .. 7
  BY <1>1, <1>2 DEF EndBit, At
<1>5. ASSUME NEW x \in Nat, NEW y \in Nat
      PROVE  /\ Sub(b, x, y) \in Slices /\ Length(Sub(b, x, y)) = y - x
             /\ Sub(b, x, y).from = b.from + x /\ Sub(b, x, y).to = b.from + y
             /\ Sub(b, x, y).wire = b.wire
  BY <1>1 DEF Sub, Slices, Length
<1>6. Length(b) \in Int
  BY <1>1 DEF Length
<1> QED BY <1>1, <1>3, <1>4, <1>5, <1>6, Zenon

LEMMA SubIs ==
    ASSUME NEW b \in Slices, NEW x \in Nat, NEW y \in Nat
    PROVE  /\ Sub(b, x, y) \in Slices /\ Length(Sub(b, x, y)) = y - x
           /\ Sub(b, x, y).from = b.from + x /\ Sub(b, x, y).to = b.from + y
           /\ Sub(b, x, y).wire = b.wire
           /\ b.from \in Nat
BY DEF Sub, Slices, Length

(* UnmarshalSSZ of a seq or struct in terms of its members' methods.       *)
ReadStarts(t, b, n)  == [i \in 1 .. n + 1 |-> StartOf(t, b, n, i)]
ReadOffsets(t, b, n) == [i \in 1 .. n |-> ReadOffset(b, HeadPos(t, i))]
FirstRead(t, b, n) ==
    [i \in 1 .. n |->
        IF Part(t, i).fix
        THEN ReadOf(Part(t, i), Sub(b, HeadPos(t, i), HeadPos(t, i) + Part(t, i).size))
        ELSE IF t.t = "struct" /\ OffsetRefused(t, b, i) THEN Fault("error")
        ELSE Decoded(Nil, {})]
SecondRead(t, b, n) ==
    [i \in 1 .. n |->
        IF Part(t, i).fix THEN FirstRead(t, b, n)[i]
        ELSE IF t.t = "seq"
                /\ ItemRefused(b, n, i, ReadStarts(t, b, n)[i], ReadStarts(t, b, n)[i + 1])
        THEN Fault("error")
        ELSE IF ReadStarts(t, b, n)[i] > ReadStarts(t, b, n)[i + 1]
                \/ ReadStarts(t, b, n)[i + 1] > Length(b) THEN Fault("panic")
        ELSE ReadOf(Part(t, i), Sub(b, ReadStarts(t, b, n)[i], ReadStarts(t, b, n)[i + 1]))]
Found(t, b, n) ==
    LET r == SecondRead(t, b, n)
        starts == ReadStarts(t, b, n)
    IN  [res |-> "ok", v |-> Made([i \in 1 .. n |-> r[i].v]),
         at |-> Pieces(t, r, starts, ReadOffsets(t, b, n)),
         gap |-> (starts[1] - FixedSize(t, n)) + SumUpTo([i \in 1 .. n |-> r[i].gap], n)]

LEMMA DecodeIs ==
    ASSUME NEW t \in Types, Nests(t), NEW b \in Slices, Count(t, NumMembers(t, b))
    PROVE  LET n == NumMembers(t, b)
               h == FirstRead(t, b, n)
               r == SecondRead(t, b, n)
           IN  /\ Outcome(h) # "ok" => Decode(t, P(t), b) = Fault(Outcome(h))
               /\ Outcome(h) = "ok" /\ Outcome(r) # "ok" => Decode(t, P(t), b) = Fault(Outcome(r))
               /\ Outcome(h) = "ok" /\ Outcome(r) = "ok" => Decode(t, P(t), b) = Found(t, b, n)
<1> DEFINE n == NumMembers(t, b)
           h == FirstRead(t, b, n)
           r == SecondRead(t, b, n)
           starts == ReadStarts(t, b, n)
<1>1. n \in Nat
  BY DEF Count
<1>2. \A i \in 1 .. n : Of(t, P(t), i) = Its(t, i)
  BY MemberTypes
<1>3. ReadHeads(t, P(t), b, n) = h
  BY <1>2, Zenon DEF ReadHeads, FirstRead, ReadOf, Its
<1>4. DOMAIN h = 1 .. n /\ Len(h) = n
  BY <1>1 DEF FirstRead
<1>5. ReadTails(t, P(t), b, h, starts) = r
  <2>1. ReadTails(t, P(t), b, h, starts) =
          [i \in 1 .. n |->
              IF Part(t, i).fix THEN h[i]
              ELSE IF t.t = "seq" /\ ItemRefused(b, n, i, starts[i], starts[i + 1]) THEN Fault("error")
              ELSE IF starts[i] > starts[i + 1] \/ starts[i + 1] > Length(b) THEN Fault("panic")
              ELSE ReadOf(Part(t, i), Sub(b, starts[i], starts[i + 1]))]
    BY <1>2, <1>4, Zenon DEF ReadTails, ReadOf, Its
  <2> QED BY <2>1, Zenon DEF SecondRead
<1>6. [i \in 1 .. n + 1 |-> StartOf(t, b, n, i)] = starts
  BY DEF ReadStarts
<1> HIDE DEF h, r, starts
<1>7. Decode(t, P(t), b) =
        IF Outcome(h) # "ok" THEN Fault(Outcome(h))
        ELSE IF Outcome(r) # "ok" THEN Fault(Outcome(r))
        ELSE [res |-> "ok", v |-> Made([i \in 1 .. n |-> r[i].v]),
              at |-> Pieces(t, r, starts, [i \in 1 .. n |-> ReadOffset(b, HeadPos(t, i))]),
              gap |-> (starts[1] - FixedSize(t, n)) + SumUpTo([i \in 1 .. n |-> r[i].gap], n)]
  BY <1>3, <1>5, <1>6, Zenon DEF Decode
<1> HIDE DEF n
<1>8. Outcome(h) # "ok" => Decode(t, P(t), b) = Fault(Outcome(h))
  BY <1>7
<1>9. Outcome(h) = "ok" /\ Outcome(r) # "ok" => Decode(t, P(t), b) = Fault(Outcome(r))
  BY <1>7
<1>10. Outcome(h) = "ok" /\ Outcome(r) = "ok" => Decode(t, P(t), b) = Found(t, b, n)
  BY <1>7 DEF Found, ReadOffsets, r, starts
<1> QED BY <1>8, <1>9, <1>10 DEF n, h, r

(* UnmarshalSSZ ends a member where the next one of variable size starts.  *)
Begins(t, b, n, starts) ==
    /\ starts[n + 1] = Length(b)
    /\ \A i \in 1 .. n + 1 : starts[i] \in Nat
    /\ \A i \in 1 .. n : ~ Part(t, i).fix => starts[i] = ReadOffset(b, HeadPos(t, i))
    /\ \A i \in 1 .. n : Part(t, i).fix => starts[i] = starts[i + 1]
    /\ \A i \in 1 .. n + 1 :
         \/ starts[i] = Length(b) /\ \A j \in i .. n : Part(t, j).fix
         \/ \E k \in i .. n : /\ ~ Part(t, k).fix /\ starts[i] = ReadOffset(b, HeadPos(t, k))
                              /\ \A j \in i .. k - 1 : Part(t, j).fix

LEMMA ReadStartsAre ==
    ASSUME NEW t \in Types, Nests(t), NEW n \in Nat, Count(t, n), NEW b \in Slices,
           Length(b) \in Nat
    PROVE  Begins(t, b, n, ReadStarts(t, b, n))
<1> DEFINE starts == ReadStarts(t, b, n)
           From(i) == {j \in i .. n : ~ Part(t, j).fix}
<1>1. \A i \in 1 .. n + 1 :
         starts[i] = IF From(i) = {} THEN Length(b) ELSE ReadOffset(b, HeadPos(t, Least(From(i))))
  BY DEF ReadStarts, StartOf
<1>2. \A i \in 1 .. n + 1 : HeadPos(t, i) \in Nat
  BY HeadsAre
<1>3. \A i \in 1 .. n + 1 : From(i) \in SUBSET (1 .. n)
  OBVIOUS
<1>4. ASSUME NEW i \in 1 .. n + 1, From(i) # {}
      PROVE  /\ Least(From(i)) \in i .. n /\ ~ Part(t, Least(From(i))).fix
             /\ Least(From(i)) \in 1 .. n
             /\ \A j \in i .. Least(From(i)) - 1 : Part(t, j).fix
  <2> DEFINE U == From(i)
  <2>1. U \in SUBSET (1 .. n) /\ U # {}
    BY <1>3, <1>4
  <2>2. Least(U) \in U /\ \A j \in U : Least(U) <= j
    <3> HIDE DEF U
    <3> QED BY <2>1, LeastIs
  <2>3. Least(U) \in i .. n
    BY <2>2
  <2>4. ASSUME NEW j \in i .. Least(U) - 1, ~ Part(t, j).fix PROVE FALSE
    <3>1. j \in U
      BY <2>3, <2>4
    <3> QED BY <2>2, <2>3, <2>4, <3>1
  <2>5. ~ Part(t, Least(U)).fix
    BY <2>2
  <2> QED BY <2>3, <2>4, <2>5
<1> HIDE DEF starts
<1>5. starts[n + 1] = Length(b)
  <2>1. From(n + 1) = {} /\ n + 1 \in 1 .. n + 1
    OBVIOUS
  <2> HIDE DEF From
  <2> QED BY <1>1, <2>1, Zenon
<1>6. \A i \in 1 .. n + 1 : starts[i] \in Nat
  <2>1. TAKE i \in 1 .. n + 1
  <2> DEFINE k == Least(From(i))
  <2>2. CASE From(i) = {}
    BY <1>1, <2>2
  <2>3. CASE From(i) # {}
    <3>1. k \in 1 .. n /\ starts[i] = ReadOffset(b, HeadPos(t, k))
      BY <1>1, <1>4, <2>3
    <3> HIDE DEF k
    <3>2. HeadPos(t, k) \in Nat
      BY <1>2, <3>1
    <3> QED BY <3>1, <3>2, SliceFacts
  <2> QED BY <2>2, <2>3
<1>7. ASSUME NEW i \in 1 .. n, ~ Part(t, i).fix PROVE starts[i] = ReadOffset(b, HeadPos(t, i))
  <2>1. i \in From(i) /\ i \in 1 .. n + 1
    BY <1>7
  <2> DEFINE k == Least(From(i))
  <2>2. k \in i .. n /\ \A j \in i .. k - 1 : Part(t, j).fix
    BY <1>4, <2>1
  <2>3. k = i
    <3> HIDE DEF k
    <3> QED BY <1>7, <2>2
  <2> QED BY <1>1, <2>1, <2>3
<1>8. ASSUME NEW i \in 1 .. n, Part(t, i).fix PROVE starts[i] = starts[i + 1]
  <2>1. From(i) = From(i + 1)
    BY <1>8
  <2>2. i \in 1 .. n + 1 /\ i + 1 \in 1 .. n + 1
    OBVIOUS
  <2> HIDE DEF From
  <2> DEFINE End(S) == IF S = {} THEN Length(b) ELSE ReadOffset(b, HeadPos(t, Least(S)))
  <2>3. starts[i] = End(From(i)) /\ starts[i + 1] = End(From(i + 1))
    BY <1>1, <2>2
  <2> HIDE DEF End
  <2> QED BY <2>1, <2>3
<1>9. ASSUME NEW i \in 1 .. n + 1
      PROVE  \/ starts[i] = Length(b) /\ \A j \in i .. n : Part(t, j).fix
             \/ \E k \in i .. n : /\ ~ Part(t, k).fix /\ starts[i] = ReadOffset(b, HeadPos(t, k))
                                  /\ \A j \in i .. k - 1 : Part(t, j).fix
  <2>1. CASE From(i) = {}
    BY <1>1, <2>1
  <2>2. CASE From(i) # {}
    BY <1>1, <1>4, <2>2
  <2> QED BY <2>1, <2>2
<1> HIDE DEF starts
<1> QED BY <1>5, <1>6, <1>7, <1>8, <1>9 DEF Begins, starts

(* UnmarshalSSZ of a leaf, and what it accepts.                            *)
Accepts(t, b) ==
    /\ t.t = "list" => Divides(Length(b), t.unit, t.max)
    /\ t.t = "bitlist" => ValidateBitlist(t.max, Length(b), EndBit(b))
LeafCount(t, b) == IF t.t = "list" THEN Length(b) \div t.unit
                   ELSE IF t.t = "bitlist" THEN 8 * (Length(b) - 1) + EndBit(b)
                   ELSE IF t.t = "vector" THEN t.max ELSE 0
LeafEnd(t, b)   == IF t.t = "bitlist" THEN EndBit(b) ELSE 0

LEMMA LeafRead ==
    ASSUME NEW t \in Types, ~ Nests(t), NEW b \in Slices
    PROVE  ReadOf(t, b) = IF Accepts(t, b)
                          THEN Decoded(Plain(LeafCount(t, b)), Alone(t, Length(b), LeafEnd(t, b)))
                          ELSE Fault("error")
<1>1. ReadOf(t, b) = UnmarshalSSZ(t, P(t), b)
  BY MethodsAre DEF ReadOf
<1>2. t.t \in {"basic", "vector", "list", "bitlist"}
  BY TypeFacts DEF Nests, Kinds
<1>3. UnmarshalSSZ(t, P(t), b) =
        IF Accepts(t, b)
        THEN Decoded(Plain(LeafCount(t, b)), Alone(t, Length(b), LeafEnd(t, b)))
        ELSE Fault("error")
  <2>1. CASE t.t = "basic"
    BY <2>1 DEF UnmarshalSSZ, Accepts, LeafCount, LeafEnd
  <2>2. CASE t.t = "vector"
    BY <2>2 DEF UnmarshalSSZ, Accepts, LeafCount, LeafEnd
  <2>3. CASE t.t = "list"
    BY <2>3 DEF UnmarshalSSZ, Accepts, LeafCount, LeafEnd
  <2>4. CASE t.t = "bitlist"
    BY <2>4 DEF UnmarshalSSZ, Accepts, LeafCount, LeafEnd
  <2> QED BY <1>2, <2>1, <2>2, <2>3, <2>4
<1> QED BY <1>1, <1>3

(* A leaf that is marshalled is nothing but its count.                     *)
LEMMA LeafPlain ==
    ASSUME NEW t \in Types, ~ Nests(t), NEW v \in Vals(t), ~ Invalid(t, v)
    PROVE  /\ v = Plain(v.n)
           /\ t.t = "basic" => v.n = 0
           /\ t.t = "vector" => v.n = t.max
<1>1. t.t \in {"basic", "vector", "list", "bitlist"} /\ v.of = << >>
      /\ (t.t = "basic" => v = Plain(0))
  BY LeafIs
<1>2. v \in Objects[t.deep] /\ (t.t = "bitlist" => v.ok)
  BY <1>1, MethodsAre DEF Values, Vals
<1>3. v \in Level(t.deep, Objects[t.deep - 1])
  BY <1>2, TypeFacts, ObjectsIs
<1>4. v = [n |-> v.n, ok |-> v.ok, of |-> v.of] /\ v.ok \in BOOLEAN
  <2> DEFINE A == IF t.deep = 0 THEN {<< >>} ELSE Seq(Objects[t.deep - 1])
  <2>1. v \in [n : Int, ok : BOOLEAN, of : A]
    BY <1>3 DEF Level
  <2> HIDE DEF A
  <2> QED BY <2>1
<1>5. CASE t.t = "basic"
  BY <1>1, <1>5 DEF Plain
<1>6. CASE t.t # "basic"
  <2>1. v.ok = TRUE
    BY <1>1, <1>2, <1>4, <1>6 DEF Invalid
  <2>2. v = Plain(v.n)
    BY <1>1, <1>4, <2>1 DEF Plain
  <2>3. t.t = "vector" => v.n = t.max
    BY DEF Invalid
  <2> QED BY <1>6, <2>2, <2>3
<1> QED BY <1>5, <1>6

LEMMA PlainVals ==
    ASSUME NEW t \in Types, ~ Nests(t), NEW n \in Int, t.t = "basic" => n = 0,
           t.t \in {"vector", "list"} => n >= 0, t.t = "bitlist" => n >= -1
    PROVE  Plain(n) \in Vals(t)
<1>1. t.t \in {"basic", "vector", "list", "bitlist"} /\ t.deep \in Nat
  BY TypeFacts DEF Nests, Kinds
<1>2. Plain(n) \in Objects[t.deep]
  BY <1>1, PlainIs
<1>3. Plain(n).n = n /\ Plain(n).ok = TRUE /\ Plain(n).of = << >>
  BY DEF Plain
<1>4. Plain(n) \in Values(t, P(t))
  BY <1>1, <1>2, <1>3 DEF Values
<1> QED BY <1>4, MethodsAre DEF Vals

(* Bits and the bytes they take, with the one that ends them.              *)
LEMMA BitsInBytes ==
    ASSUME NEW len \in Nat, len > 0, NEW bit \in 0 .. 7
    PROVE  /\ 8 * (len - 1) + bit \in Nat /\ BitBytes(8 * (len - 1) + bit) = len
           /\ (8 * (len - 1) + bit) % 8 = bit
<1> DEFINE n == 8 * (len - 1) + bit
<1>1. n \in Nat /\ n # -1
  OBVIOUS
<1>2. n \div 8 = len - 1 /\ n % 8 = bit
  OBVIOUS
<1> QED BY <1>1, <1>2 DEF BitBytes

---------------------------------------------------------------------------
(* A seq or struct that is not refused has as many members as its bytes    *)
(* say, and room for their heads.                                          *)
LEMMA ReadCount ==
    ASSUME NEW t \in Types, Nests(t), NEW b \in Slices, Length(b) \in Nat, ~ BytesRefused(t, b)
    PROVE  LET n == NumMembers(t, b) IN
           /\ n \in Nat /\ Count(t, n)
           /\ t.t = "seq" => n <= t.max
           /\ t.t = "seq" /\ t.parts[1].fix => FixedSize(t, n) = Length(b)
           /\ t.t = "seq" /\ ~ t.parts[1].fix =>
                FixedSize(t, n) = 4 * n /\ (n > 0 => ReadOffset(b, 0) = 4 * n)
           /\ t.t = "struct" =>
                FixedSize(t, n) = t.size /\ t.size <= Length(b) /\ (t.fix => t.size = Length(b))
<1> DEFINE n == NumMembers(t, b)
           len == Length(b)
<1>1. t.t \in Kinds /\ WellFormed(t) /\ t.size \in Nat /\ t.max \in Nat /\ t.fix \in BOOLEAN
      /\ t.parts \in Seq(Types)
  BY TypeFacts
<1>2. CASE t.t = "struct"
  <2>1. n = Len(t.parts) /\ n \in Nat
    BY <1>1, <1>2 DEF NumMembers
  <2>2. ~ (len < t.size) /\ ~ (t.fix /\ len # t.size)
    BY <1>2 DEF BytesRefused
  <2>3. FixedSize(t, n) = t.size
    BY <1>2 DEF FixedSize
  <2> QED BY <1>1, <1>2, <2>1, <2>2, <2>3 DEF Count
<1>3. CASE t.t = "seq"
  <2>1. Len(t.parts) = 1 /\ (t.parts[1].fix => t.parts[1].size > 0) /\ t.parts[1] \in Types
    BY <1>1, <1>3 DEF WellFormed
  <2>2. t.parts[1].size \in Nat /\ t.parts[1].fix \in BOOLEAN
    BY <2>1, TypeFacts
  <2>3. FixedSize(t, n) = n * Width(t.parts[1])
    BY <1>3 DEF FixedSize
  <2>4. CASE t.parts[1].fix
    <3> DEFINE s == t.parts[1].size
    <3>1. s \in Nat \ {0}
      BY <2>1, <2>2, <2>4
    <3>2. n = len \div s /\ len % s = 0 /\ len \div s <= t.max
      BY <1>3, <2>4 DEF NumMembers, BytesRefused, Divides
    <3>3. FixedSize(t, n) = n * s
      BY <2>3, <2>4 DEF Width
    <3>4. len \in Nat
      OBVIOUS
    <3> HIDE DEF s, n, len
    <3>5. len \div s \in Nat /\ len = (len \div s) * s
      <4> DEFINE q == len \div s
                 r == len % s
      <4>1. q \in Nat /\ r \in 0 .. s - 1 /\ len = s * q + r
        BY <3>1, <3>4
      <4>2. r = 0
        BY <3>2
      <4> HIDE DEF q, r
      <4>3. len = q * s
        BY <3>1, <4>1, <4>2
      <4> QED BY <4>1, <4>3 DEF q
    <3> QED BY <1>3, <2>4, <3>2, <3>3, <3>5 DEF Count, n, len
  <2>5. CASE ~ t.parts[1].fix
    <3> DEFINE o == ReadOffset(b, 0)
    <3>1. o \in Nat
      BY SliceFacts
    <3>2. n = IF len = 0 THEN 0 ELSE o \div 4
      BY <1>3, <2>5 DEF NumMembers
    <3>3. len > 0 => o % 4 = 0 /\ ~ (o \div 4 > t.max)
      BY <1>3, <2>5 DEF BytesRefused, LengthRefused
    <3>4. FixedSize(t, n) = n * 4
      BY <2>3, <2>5 DEF Width
    <3>5. len \in Nat
      OBVIOUS
    <3> HIDE DEF o, n, len
    <3>6. n \in Nat /\ n <= t.max /\ (n > 0 => o = 4 * n) /\ n * 4 = 4 * n
      BY <1>1, <3>1, <3>2, <3>3, <3>5
    <3> QED BY <1>3, <2>5, <3>4, <3>6 DEF Count, n, len, o
  <2> QED BY <2>2, <2>4, <2>5
<1> QED BY <1>2, <1>3 DEF Nests

(* A container's offsets that are not refused lie in order, after the      *)
(* fixed part and within the bytes.                                        *)
LEMMA OffsetsOrdered ==
    ASSUME NEW t \in Types, t.t = "struct", NEW b \in Slices, Length(b) \in Nat,
           NEW n \in Nat, n = Len(t.parts), t.size <= Length(b),
           \A i \in 1 .. n : ~ Part(t, i).fix => ~ OffsetRefused(t, b, i)
    PROVE  LET starts == ReadStarts(t, b, n) IN
           /\ \A i \in 1 .. n : starts[i] <= starts[i + 1]
           /\ \A i \in 1 .. n + 1 : starts[i] <= Length(b)
           /\ t.size <= starts[1]
<1> DEFINE starts == ReadStarts(t, b, n)
           O(i) == ReadOffset(b, HeadPos(t, i))
<1>1. Nests(t) /\ Count(t, n) /\ t.size \in Nat
  BY TypeFacts DEF Nests, Count
<1> HIDE DEF starts, O
<1>2. /\ starts[n + 1] = Length(b)
      /\ \A i \in 1 .. n + 1 : starts[i] \in Nat
      /\ \A i \in 1 .. n : ~ Part(t, i).fix => starts[i] = O(i)
      /\ \A i \in 1 .. n : Part(t, i).fix => starts[i] = starts[i + 1]
      /\ \A i \in 1 .. n + 1 :
           \/ starts[i] = Length(b) /\ \A j \in i .. n : Part(t, j).fix
           \/ \E k \in i .. n : /\ ~ Part(t, k).fix /\ starts[i] = O(k)
                                /\ \A j \in i .. k - 1 : Part(t, j).fix
  <2>1. Begins(t, b, n, starts)
    BY <1>1, ReadStartsAre DEF starts
  <2> QED BY <2>1, Zenon DEF O, Begins
<1>3. \A i \in 1 .. n : Part(t, i) = t.parts[i]
  BY DEF Part
<1> USE DEF O
<1>4. ASSUME NEW i \in 1 .. n, ~ Part(t, i).fix
      PROVE  /\ O(i) \in Nat /\ O(i) <= Length(b)
             /\ \A j \in 1 .. i - 1 :
                  ~ Part(t, j).fix /\ (\A k \in j + 1 .. i - 1 : Part(t, k).fix) => O(j) <= O(i)
             /\ (\A j \in 1 .. i - 1 : Part(t, j).fix) => t.size <= O(i)
  <2>1. \A j \in 1 .. n : O(j) \in Nat
    <3>1. \A j \in 1 .. n + 1 : HeadPos(t, j) \in Nat
      BY <1>1, HeadsAre
    <3>2. \A pos \in Nat : ReadOffset(b, pos) \in Nat
      BY SliceFacts
    <3> SUFFICES ASSUME NEW j \in 1 .. n PROVE ReadOffset(b, HeadPos(t, j)) \in Nat
      OBVIOUS
    <3>3. HeadPos(t, j) \in Nat
      BY <3>1
    <3> QED BY <3>2, <3>3
  <2>2. /\ ~ (O(i) > Length(b))
        /\ ~ \E j \in 1 .. i - 1 : /\ ~ t.parts[j].fix /\ \A k \in j + 1 .. i - 1 : t.parts[k].fix
                                   /\ O(j) > O(i)
        /\ ~ ((\A j \in 1 .. i - 1 : t.parts[j].fix) /\ O(i) < t.size)
    BY <1>4 DEF OffsetRefused
  <2> HIDE DEF O
  <2>3. ASSUME NEW j \in 1 .. i - 1, ~ Part(t, j).fix, \A k \in j + 1 .. i - 1 : Part(t, k).fix
        PROVE  O(j) <= O(i)
    <3>1. ~ t.parts[j].fix /\ \A k \in j + 1 .. i - 1 : t.parts[k].fix
      BY <1>3, <2>3
    <3>2. ~ (O(j) > O(i))
      BY <2>2, <3>1
    <3> QED BY <2>1, <3>2
  <2>4. ASSUME \A j \in 1 .. i - 1 : Part(t, j).fix PROVE t.size <= O(i)
    <3>1. \A j \in 1 .. i - 1 : t.parts[j].fix
      BY <1>3, <2>4
    <3> QED BY <1>1, <2>1, <2>2, <3>1
  <2> QED BY <2>1, <2>2, <2>3, <2>4
<1> HIDE DEF starts, O
<1>5. ASSUME NEW i \in 1 .. n + 1 PROVE starts[i] <= Length(b)
  <2>1. CASE starts[i] = Length(b)
    BY <2>1
  <2>2. CASE \E k \in i .. n : ~ Part(t, k).fix /\ starts[i] = O(k)
    BY <1>4, <2>2
  <2> QED BY <1>2, <2>1, <2>2
<1>6. ASSUME NEW i \in 1 .. n PROVE starts[i] <= starts[i + 1]
  <2>0. starts[i] \in Nat /\ starts[i + 1] \in Nat
    BY <1>2
  <2>1. CASE Part(t, i).fix
    BY <1>2, <2>0, <2>1
  <2>2. CASE ~ Part(t, i).fix
    <3>1. starts[i] = O(i) /\ O(i) <= Length(b)
      BY <1>2, <1>4, <2>2
    <3>2. CASE starts[i + 1] = Length(b)
      BY <3>1, <3>2
    <3>3. CASE \E k \in i + 1 .. n : /\ ~ Part(t, k).fix /\ starts[i + 1] = O(k)
                                     /\ \A j \in i + 1 .. k - 1 : Part(t, j).fix
      <4>1. PICK k \in i + 1 .. n : /\ ~ Part(t, k).fix /\ starts[i + 1] = O(k)
                                    /\ \A j \in i + 1 .. k - 1 : Part(t, j).fix
        BY <3>3
      <4>2. k \in 1 .. n /\ i \in 1 .. k - 1
        BY <4>1
      <4>3. O(i) <= O(k)
        BY <1>4, <2>2, <4>1, <4>2
      <4> QED BY <3>1, <4>1, <4>3
    <3>4. i + 1 \in 1 .. n + 1
      OBVIOUS
    <3> QED BY <1>2, <3>2, <3>3, <3>4
  <2> QED BY <2>1, <2>2
<1>7. t.size <= starts[1]
  <2>1. CASE starts[1] = Length(b)
    BY <2>1
  <2>2. CASE \E k \in 1 .. n : /\ ~ Part(t, k).fix /\ starts[1] = O(k)
                               /\ \A j \in 1 .. k - 1 : Part(t, j).fix
    BY <1>4, <2>2
  <2>3. 1 \in 1 .. n + 1
    OBVIOUS
  <2> QED BY <1>2, <2>1, <2>2, <2>3
<1>8. /\ \A i \in 1 .. n : starts[i] <= starts[i + 1]
      /\ \A i \in 1 .. n + 1 : starts[i] <= Length(b)
      /\ t.size <= starts[1]
  BY <1>5, <1>6, <1>7
<1> QED BY <1>8 DEF starts

(* When no member is refused the tails lie in order and behind the heads;  *)
(* slicing the bytes never panics.                                         *)
LEMMA TailsOrdered ==
    ASSUME NEW t \in Types, Nests(t), NEW b \in Slices, Length(b) \in Nat,
           ~ BytesRefused(t, b), NEW n, n = NumMembers(t, b),
           \A i \in 1 .. n : ~ Part(t, i).fix =>
               ~ (t.t = "struct" /\ OffsetRefused(t, b, i))
    PROVE  LET starts == ReadStarts(t, b, n) IN
           /\ \A i \in 1 .. n : ~ Part(t, i).fix /\ t.t = "struct" =>
                                   starts[i] <= starts[i + 1] /\ starts[i + 1] <= Length(b)
           /\ (\A i \in 1 .. n : ~ Part(t, i).fix /\ t.t = "seq" =>
                  ~ ItemRefused(b, n, i, starts[i], starts[i + 1])) =>
              Ascends(starts, n) /\ FixedSize(t, n) <= starts[1]
<1> DEFINE starts == ReadStarts(t, b, n)
           len == Length(b)
<1>1. /\ n \in Nat /\ Count(t, n)
      /\ t.t = "seq" /\ t.parts[1].fix => FixedSize(t, n) = len
      /\ t.t = "seq" /\ ~ t.parts[1].fix =>
           FixedSize(t, n) = 4 * n /\ (n > 0 => ReadOffset(b, 0) = 4 * n)
      /\ t.t = "struct" => FixedSize(t, n) = t.size /\ t.size <= len
  BY ReadCount
<1>2. /\ starts[n + 1] = len
      /\ \A i \in 1 .. n + 1 : starts[i] \in Nat
      /\ \A i \in 1 .. n : ~ Part(t, i).fix => starts[i] = ReadOffset(b, HeadPos(t, i))
      /\ \A i \in 1 .. n : Part(t, i).fix => starts[i] = starts[i + 1]
      /\ \A i \in 1 .. n + 1 :
           \/ starts[i] = len /\ \A j \in i .. n : Part(t, j).fix
           \/ \E k \in i .. n : ~ Part(t, k).fix
  BY <1>1, ReadStartsAre DEF Begins
<1>3. CASE t.t = "struct"
  <2>1. n = Len(t.parts)
    BY <1>1, <1>3 DEF Count
  <2>2. /\ \A i \in 1 .. n : starts[i] <= starts[i + 1]
        /\ \A i \in 1 .. n + 1 : starts[i] <= len
        /\ t.size <= starts[1]
    BY <1>1, <1>3, <2>1, OffsetsOrdered
  <2> HIDE DEF starts, len
  <2>3. Ascends(starts, n) /\ FixedSize(t, n) <= starts[1]
    BY <1>1, <1>2, <1>3, <2>2 DEF Ascends
  <2>4. \A i \in 1 .. n : starts[i] <= starts[i + 1] /\ starts[i + 1] <= len
    BY <1>1, <2>2
  <2> QED BY <2>3, <2>4 DEF starts, len
<1>4. CASE t.t = "seq"
  <2>1. \A i \in 1 .. n : Part(t, i) = t.parts[1]
    BY <1>4 DEF Part
  <2>2. ASSUME \A i \in 1 .. n : ~ Part(t, i).fix =>
                  ~ ItemRefused(b, n, i, starts[i], starts[i + 1])
        PROVE  Ascends(starts, n) /\ FixedSize(t, n) <= starts[1]
    <3> HIDE DEF starts, len
    <3>1. ASSUME NEW i \in 1 .. n
          PROVE  starts[i] <= starts[i + 1]
      <4>1. starts[i] \in Nat /\ starts[i + 1] \in Nat
        BY <1>1, <1>2
      <4>2. CASE Part(t, i).fix
        BY <1>2, <4>1, <4>2
      <4>3. CASE ~ Part(t, i).fix
        BY <2>2, <4>1, <4>3 DEF ItemRefused
      <4> QED BY <4>2, <4>3
    <3>2. Ascends(starts, n)
      BY <1>1, <1>2, <3>1 DEF Ascends
    <3>3. FixedSize(t, n) <= starts[1]
      <4>1. starts[1] \in Nat /\ 1 \in 1 .. n + 1
        BY <1>1, <1>2
      <4>2. CASE t.parts[1].fix
        <5>1. starts[1] = len
          BY <1>1, <1>2, <2>1, <4>1, <4>2
        <5> QED BY <1>1, <1>4, <4>1, <4>2, <5>1
      <4>3. CASE ~ t.parts[1].fix /\ n > 0
        <5>1. 1 \in 1 .. n /\ HeadPos(t, 1) = 0
          BY <1>1, <4>3, HeadsAre
        <5>2. starts[1] = ReadOffset(b, 0)
          BY <1>2, <2>1, <4>3, <5>1
        <5> QED BY <1>1, <1>4, <4>1, <4>3, <5>2
      <4>4. CASE ~ t.parts[1].fix /\ n = 0
        BY <1>1, <1>4, <4>1, <4>4
      <4> QED BY <1>1, <4>2, <4>3, <4>4
    <3> QED BY <3>2, <3>3
  <2> QED BY <1>4, <2>2
<1> QED BY <1>3, <1>4 DEF Nests

---------------------------------------------------------------------------
(* What UnmarshalSSZ makes of any bytes it accepts marshals to as many     *)
(* bytes as were read, those in gaps aside, and every byte was read once.  *)
Fits(t, b) == /\ b \in Slices /\ Length(b) \in Nat
              /\ t.fix /\ t.t # "struct" => Length(b) = t.size
Yields(t, len, d) ==
    /\ d.v \in Vals(t) /\ WireOf(t, d.v).res = "ok" /\ WireOf(t, d.v).v = d.v
    /\ BitsOf(t, d.v)
    /\ d.gap \in Nat /\ len = WireOf(t, d.v).len + d.gap
    /\ t.fix => d.gap = 0
    /\ Covers(d.at, len)
Reads(t, b) == /\ ReadOf(t, b).res \in {"ok", "error"}
               /\ ReadOf(t, b).res = "ok" => Yields(t, Length(b), ReadOf(t, b))
ReadLaw(t)  == \A b \in Slices : Fits(t, b) => Reads(t, b)

LEMMA ReadLeaf ==
    ASSUME NEW t \in Types, ~ Nests(t), NEW b \in Slices, Fits(t, b)
    PROVE  Reads(t, b)
<1> DEFINE len == Length(b)
           bit == EndBit(b)
           n   == LeafCount(t, b)
           v   == Plain(n)
<1>1. /\ t.t \in {"basic", "vector", "list", "bitlist"} /\ t.fix \in BOOLEAN /\ t.max \in Nat
      /\ t.t \in {"basic", "vector"} => t.fix
      /\ t.t = "list" => ~ t.fix /\ t.unit \in Nat \ {0}
      /\ t.t = "bitlist" => ~ t.fix /\ t.max > 0
  <2>1. t.t \in Kinds /\ t.fix \in BOOLEAN /\ t.max \in Nat /\ t.unit \in Nat /\ WellFormed(t)
    BY TypeFacts
  <2>2. t.t \in {"basic", "vector", "list", "bitlist"}
    BY <2>1 DEF Nests, Kinds
  <2>3. t.t \in {"basic", "vector"} => t.fix
    BY <2>1 DEF WellFormed
  <2>4. t.t = "list" => ~ t.fix /\ t.unit > 0
    BY <2>1 DEF WellFormed
  <2>5. t.t = "bitlist" => ~ t.fix /\ t.max > 0
    BY <2>1 DEF WellFormed
  <2> QED BY <2>1, <2>2, <2>3, <2>4, <2>5
<1>2. len \in Nat /\ bit \in -1 .. 7 /\ (t.fix => len = t.size)
  BY <1>1, SliceFacts DEF Fits
<1>3. ReadOf(t, b) = IF Accepts(t, b) THEN Decoded(v, Alone(t, len, LeafEnd(t, b))) ELSE Fault("error")
  BY LeafRead
<1>4. CASE ~ Accepts(t, b)
  <2>1. ReadOf(t, b) = Fault("error")
    BY <1>3, <1>4
  <2> QED BY <2>1 DEF Fault, Reads
<1>5. CASE Accepts(t, b)
  <2>1. /\ n \in Nat
        /\ t.t = "basic" => n = 0
        /\ t.t = "vector" => n = t.max
        /\ t.t = "list" => n <= t.max /\ n * t.unit = len
        /\ t.t = "bitlist" => n \in 0 .. t.max /\ BitBytes(n) = len /\ len <= t.max
    <3>1. CASE t.t = "basic"
      BY <3>1 DEF LeafCount
    <3>2. CASE t.t = "vector"
      BY <1>1, <3>2 DEF LeafCount
    <3>3. CASE t.t = "list"
      <4> DEFINE s == t.unit
      <4>1. n = len \div s /\ len % s = 0 /\ len \div s <= t.max
        BY <1>5, <3>3 DEF LeafCount, Accepts, Divides
      <4> DEFINE r == len % s
                 q == len \div s
      <4>2. s \in Nat \ {0} /\ len \in Nat
        BY <1>1, <1>2, <3>3
      <4>3. q \in Nat /\ r \in 0 .. s - 1 /\ len = s * q + r
        <5> HIDE DEF s, len
        <5> QED BY <4>2
      <4>4. r = 0 /\ n = q /\ q <= t.max
        BY <4>1
      <4> HIDE DEF q, r, s, len, n
      <4>5. n \in Nat /\ n * s = len
        BY <4>2, <4>3, <4>4
      <4> QED BY <3>3, <4>4, <4>5 DEF s
    <3>4. CASE t.t = "bitlist"
      <4>1. len > 0 /\ len <= t.max \div 8 + 1 /\ bit # -1 /\ 8 * (len - 1) + bit <= t.max
            /\ n = 8 * (len - 1) + bit
        BY <1>5, <3>4 DEF Accepts, ValidateBitlist, LeafCount
      <4> HIDE DEF len, bit, n
      <4>2. bit \in 0 .. 7
        BY <1>2, <4>1
      <4>3. n \in Nat /\ BitBytes(n) = len
        BY <1>2, <4>1, <4>2, BitsInBytes
      <4>4. len <= t.max
        BY <1>1, <1>2, <3>4, <4>1
      <4> QED BY <1>1, <3>4, <4>1, <4>3, <4>4
    <3> QED BY <1>1, <3>1, <3>2, <3>3, <3>4
  <2> HIDE DEF n
  <2>2. v \in Vals(t) /\ v.n = n /\ v.ok = TRUE
    <3>1. v \in Vals(t)
      BY <2>1, PlainVals
    <3> QED BY <3>1 DEF Plain
  <2> HIDE DEF v, len
  <2>3. ~ Invalid(t, v)
    BY <1>1, <1>2, <2>1, <2>2 DEF Invalid
  <2>4. /\ WireOf(t, v) = Wrote(t, v, LeafSize(t, v), LeafSays(t, v))
        /\ BitsOf(t, v) = (t.t = "bitlist" => v.n \in 0 .. t.max)
    BY <2>2, <2>3, LeafIs
  <2>5. LeafSize(t, v) = len
    BY <1>1, <1>2, <2>1, <2>2 DEF LeafSize
  <2>6. BitsOf(t, v)
    BY <2>1, <2>2, <2>4
  <2>7. WireOf(t, v).res = "ok" /\ WireOf(t, v).v = v /\ WireOf(t, v).len = len
    BY <2>4, <2>5 DEF Wrote
  <2>8. ReadOf(t, b) = Decoded(v, Alone(t, len, LeafEnd(t, b)))
    BY <1>3, <1>5
  <2> DEFINE d == ReadOf(t, b)
  <2>9. d.res = "ok" /\ d.v = v /\ d.gap = 0 /\ d.at = Alone(t, len, LeafEnd(t, b))
    BY <2>8 DEF Decoded
  <2> HIDE DEF d
  <2>10. Covers(d.at, len)
    BY <1>2, <2>9, AloneIs
  <2>11. Yields(t, len, d)
    BY <1>2, <2>2, <2>6, <2>7, <2>9, <2>10 DEF Yields
  <2> QED BY <2>9, <2>11 DEF Reads, d, len
<1> QED BY <1>4, <1>5

(* The bytes in the gaps of members, and in the one before their tails.    *)
GapOf(t, n, starts, r) ==
    (starts[1] - FixedSize(t, n)) + SumUpTo([i \in 1 .. n |-> r[i].gap], n)

Drifts(t, n, m, r, starts) ==
    \A i \in 1 .. n :
        /\ m[i].len \in Nat /\ r[i].gap \in Nat
        /\ Part(t, i).fix => starts[i + 1] = starts[i] /\ r[i].gap = 0
        /\ ~ Part(t, i).fix => starts[i + 1] - starts[i] = m[i].len + r[i].gap

LEMMA GapsAdd ==
    ASSUME NEW t \in Types, Nests(t), NEW n \in Nat, Count(t, n), NEW m, NEW r,
           NEW starts, Ascends(starts, n), FixedSize(t, n) <= starts[1],
           Drifts(t, n, m, r, starts)
    PROVE  /\ GapOf(t, n, starts, r) \in Nat
           /\ starts[n + 1] = StartsOf(t, m, n)[n + 1] + GapOf(t, n, starts, r)
<1> DEFINE S == StartsOf(t, m, n)
           g == [i \in 1 .. n |-> r[i].gap]
           F == FixedSize(t, n)
<1>1. /\ Ascends(S, n) /\ S[1] = F
      /\ \A i \in 1 .. n : S[i + 1] = IF Part(t, i).fix THEN S[i] ELSE S[i] + m[i].len
  BY StartsAre DEF Drifts
<1>2. \A i \in 1 .. n : g[i] = r[i].gap /\ g[i] \in Nat /\ m[i].len \in Nat
  BY DEF Drifts
<1> HIDE DEF g, S, F
<1>3. /\ SumUpTo(g, 0) = 0
      /\ \A k \in 0 .. n : SumUpTo(g, k) \in Nat
      /\ \A k \in 1 .. n : SumUpTo(g, k) = SumUpTo(g, k - 1) + g[k]
  BY <1>2, SumSteps
<1>4. /\ \A i \in 1 .. n + 1 : S[i] \in Nat /\ starts[i] \in Nat
      /\ F \in Nat /\ F <= starts[1]
  <2>1. 1 \in 1 .. n + 1
    OBVIOUS
  <2> QED BY <1>1, <2>1 DEF Ascends, F
<1> DEFINE a == [i \in 0 .. n |-> starts[i + 1]]
           c == [i \in 0 .. n |-> S[i + 1] + (starts[1] - F) + SumUpTo(g, i)]
<1>5. a[0] = c[0]
  BY <1>1, <1>3, <1>4
<1>6. ASSUME NEW i \in 1 .. n, a[i - 1] = c[i - 1] PROVE a[i] = c[i]
  <2> DEFINE x == SumUpTo(g, i - 1)
             y == SumUpTo(g, i)
  <2>1. i \in 1 .. n + 1 /\ i + 1 \in 1 .. n + 1 /\ i - 1 \in 0 .. n /\ i \in 0 .. n
        /\ 1 \in 1 .. n + 1
    OBVIOUS
  <2>2. x \in Nat /\ y = x + g[i]
    BY <1>3, <2>1
  <2>3. starts[i] = S[i] + (starts[1] - F) + x
    BY <1>6, <2>1
  <2>4. a[i] = starts[i + 1] /\ c[i] = S[i + 1] + (starts[1] - F) + y
    BY <2>1
  <2> HIDE DEF x, y, a, c
  <2>5. S[i] \in Nat /\ starts[i] \in Nat /\ S[i + 1] \in Nat /\ starts[i + 1] \in Nat
        /\ starts[1] \in Nat
    BY <1>4, <2>1
  <2>6. CASE Part(t, i).fix
    <3>1. S[i + 1] = S[i] /\ starts[i + 1] = starts[i] /\ g[i] = 0
      BY <1>1, <1>2, <2>6 DEF Drifts
    <3> QED BY <1>4, <2>2, <2>3, <2>4, <2>5, <3>1
  <2>7. CASE ~ Part(t, i).fix
    <3>1. S[i + 1] = S[i] + m[i].len /\ starts[i + 1] - starts[i] = m[i].len + g[i]
          /\ m[i].len \in Nat /\ g[i] \in Nat
      BY <1>1, <1>2, <2>7 DEF Drifts
    <3> QED BY <1>4, <2>2, <2>3, <2>4, <2>5, <3>1
  <2> QED BY <2>6, <2>7
<1>7. a[n] = c[n]
  <2> HIDE DEF a, c
  <2>1. \A i \in 0 .. n : a[i] = c[i]
    BY <1>5, <1>6, StepsAgree
  <2> QED BY <2>1
<1>8. starts[n + 1] = S[n + 1] + (starts[1] - F) + SumUpTo(g, n)
  BY <1>7
<1>9. 1 \in 1 .. n + 1 /\ n + 1 \in 1 .. n + 1 /\ n \in 0 .. n
  OBVIOUS
<1>10. SumUpTo(g, n) \in Nat /\ starts[1] \in Nat /\ S[n + 1] \in Nat
  BY <1>3, <1>4, <1>9
<1>11. (starts[1] - F) + SumUpTo(g, n) \in Nat
       /\ starts[n + 1] = S[n + 1] + ((starts[1] - F) + SumUpTo(g, n))
  BY <1>4, <1>8, <1>10
<1> QED BY <1>11 DEF GapOf, g, S, F

(* The two loops over members end with "ok" or "error", and when with "ok" *)
(* every member has been read from bytes of its own.                       *)
LEMMA ReadMembers ==
    ASSUME NEW t \in Types, Nests(t), NEW b \in Slices, Fits(t, b), ~ BytesRefused(t, b),
           NEW n, n = NumMembers(t, b), \A i \in 1 .. n : ReadLaw(Part(t, i))
    PROVE  LET h == FirstRead(t, b, n)
               r == SecondRead(t, b, n)
               starts == ReadStarts(t, b, n)
           IN  /\ Upto(r, n) /\ Outcome(h) \in {"ok", "error"}
               /\ Outcome(h) = "ok" => Outcome(r) \in {"ok", "error"}
               /\ Outcome(h) = "ok" /\ Outcome(r) = "ok" =>
                    /\ Ascends(starts, n) /\ FixedSize(t, n) <= starts[1]
                    /\ starts[n + 1] = Length(b)
                    /\ \A i \in 1 .. n : Part(t, i).fix => starts[i] = starts[i + 1]
                    /\ \A i \in 1 .. n :
                         Yields(Part(t, i), IF Part(t, i).fix THEN Part(t, i).size
                                            ELSE starts[i + 1] - starts[i], r[i])
<1> DEFINE h == FirstRead(t, b, n)
           r == SecondRead(t, b, n)
           starts == ReadStarts(t, b, n)
           len == Length(b)
           Mine(i, s) == IF Part(t, i).fix THEN Part(t, i).size ELSE s[i + 1] - s[i]
<1>1. n \in Nat /\ Count(t, n) /\ len \in Nat
  BY ReadCount DEF Fits
<1>2. \A i \in 1 .. n : Part(t, i) \in Types /\ Part(t, i).fix \in BOOLEAN /\ Part(t, i).size \in Nat
                        /\ HeadPos(t, i) \in Nat
  <2>1. \A i \in 1 .. n : Part(t, i) \in Types
    BY <1>1, MemberTypes
  <2>2. \A i \in 1 .. n + 1 : HeadPos(t, i) \in Nat
    BY <1>1, HeadsAre
  <2> QED BY <1>1, <2>1, <2>2, TypeFacts
<1>3. /\ Begins(t, b, n, starts)
      /\ starts[n + 1] = len
      /\ \A i \in 1 .. n + 1 : starts[i] \in Nat
      /\ \A i \in 1 .. n : Part(t, i).fix => starts[i] = starts[i + 1]
  <2>1. Begins(t, b, n, starts)
    BY <1>1, ReadStartsAre
  <2> HIDE DEF starts
  <2> QED BY <2>1 DEF Begins
<1>4. /\ Upto(h, n) /\ Upto(r, n)
      /\ \A i \in 1 .. n :
           h[i] = IF Part(t, i).fix
                  THEN ReadOf(Part(t, i), Sub(b, HeadPos(t, i), HeadPos(t, i) + Part(t, i).size))
                  ELSE IF t.t = "struct" /\ OffsetRefused(t, b, i) THEN Fault("error")
                  ELSE Decoded(Nil, {})
  BY DEF Upto, FirstRead, SecondRead
<1>5. \A i \in 1 .. n :
         r[i] = IF Part(t, i).fix THEN h[i]
                ELSE IF t.t = "seq" /\ ItemRefused(b, n, i, starts[i], starts[i + 1])
                THEN Fault("error")
                ELSE IF starts[i] > starts[i + 1] \/ starts[i + 1] > len THEN Fault("panic")
                ELSE ReadOf(Part(t, i), Sub(b, starts[i], starts[i + 1]))
  BY DEF SecondRead
<1>6. ASSUME NEW i \in 1 .. n, NEW x \in Nat, NEW y \in Nat, x <= y,
             Part(t, i).fix => y = x + Part(t, i).size
      PROVE  LET d == ReadOf(Part(t, i), Sub(b, x, y)) IN
             d.res \in {"ok", "error"} /\ (d.res = "ok" => Yields(Part(t, i), y - x, d))
  <2>1. /\ Sub(b, x, y) \in Slices /\ Length(Sub(b, x, y)) = y - x
    BY SliceFacts
  <2>2. Fits(Part(t, i), Sub(b, x, y))
    BY <1>2, <1>6, <2>1 DEF Fits
  <2>3. Reads(Part(t, i), Sub(b, x, y))
    BY <2>1, <2>2 DEF ReadLaw
  <2> QED BY <2>1, <2>3 DEF Reads
<1> HIDE DEF h, r, starts, len
<1>7. ASSUME NEW i \in 1 .. n
      PROVE  /\ h[i].res \in {"ok", "error"}
             /\ Part(t, i).fix /\ h[i].res = "ok" => Yields(Part(t, i), Part(t, i).size, h[i])
             /\ ~ Part(t, i).fix /\ h[i].res = "ok" => ~ (t.t = "struct" /\ OffsetRefused(t, b, i))
  <2>1. CASE Part(t, i).fix
    <3> DEFINE x == HeadPos(t, i)
               y == x + Part(t, i).size
               d == ReadOf(Part(t, i), Sub(b, x, y))
    <3>1. x \in Nat /\ y \in Nat /\ x <= y /\ y - x = Part(t, i).size
      BY <1>2
    <3>2. d.res \in {"ok", "error"} /\ (d.res = "ok" => Yields(Part(t, i), y - x, d))
      BY <1>6, <2>1, <3>1
    <3>3. h[i] = d
      BY <1>4, <2>1
    <3> HIDE DEF x, y, d
    <3> QED BY <2>1, <3>1, <3>2, <3>3
  <2>2. CASE ~ Part(t, i).fix
    BY <1>4, <2>2 DEF Fault, Decoded
  <2> QED BY <2>1, <2>2
<1>8. Outcome(h) \in {"ok", "error"} /\ (Outcome(h) = "ok" => \A i \in 1 .. n : h[i].res = "ok")
  BY <1>1, <1>4, <1>7, LoopIs
<1>9. ASSUME Outcome(h) = "ok"
      PROVE  /\ Outcome(r) \in {"ok", "error"}
             /\ Outcome(r) = "ok" => /\ Ascends(starts, n) /\ FixedSize(t, n) <= starts[1]
                                     /\ \A i \in 1 .. n : Yields(Part(t, i), Mine(i, starts), r[i])
  <2>1. \A i \in 1 .. n : ~ Part(t, i).fix => ~ (t.t = "struct" /\ OffsetRefused(t, b, i))
    BY <1>7, <1>8, <1>9
  <2>2. /\ \A i \in 1 .. n : ~ Part(t, i).fix /\ t.t = "struct" =>
                                starts[i] <= starts[i + 1] /\ starts[i + 1] <= len
        /\ (\A i \in 1 .. n : ~ Part(t, i).fix /\ t.t = "seq" =>
               ~ ItemRefused(b, n, i, starts[i], starts[i + 1])) =>
           Ascends(starts, n) /\ FixedSize(t, n) <= starts[1]
    BY <1>1, <2>1, TailsOrdered DEF starts, len
  <2>3. ASSUME NEW i \in 1 .. n
        PROVE  /\ r[i].res \in {"ok", "error"}
               /\ r[i].res = "ok" => Yields(Part(t, i), Mine(i, starts), r[i])
               /\ r[i].res = "ok" /\ ~ Part(t, i).fix /\ t.t = "seq" =>
                    ~ ItemRefused(b, n, i, starts[i], starts[i + 1])
    <3>1. CASE Part(t, i).fix
      BY <1>5, <1>7, <3>1
    <3>2. CASE ~ Part(t, i).fix /\ t.t = "seq" /\ ItemRefused(b, n, i, starts[i], starts[i + 1])
      BY <1>5, <3>2 DEF Fault
    <3>3. CASE ~ Part(t, i).fix /\ ~ (t.t = "seq" /\ ItemRefused(b, n, i, starts[i], starts[i + 1]))
      <4> DEFINE x == starts[i]
                 y == starts[i + 1]
                 d == ReadOf(Part(t, i), Sub(b, x, y))
      <4>1. x \in Nat /\ y \in Nat
        BY <1>1, <1>3
      <4>2. x <= y /\ y <= len
        <5>1. CASE t.t = "struct"
          BY <2>2, <3>3, <5>1
        <5>2. CASE t.t = "seq"
          BY <1>1, <3>3, <4>1, <5>2 DEF ItemRefused, len
        <5> QED BY <5>1, <5>2 DEF Nests
      <4>3. r[i] = d
        BY <1>1, <1>5, <3>3, <4>1, <4>2
      <4>4. d.res \in {"ok", "error"} /\ (d.res = "ok" => Yields(Part(t, i), y - x, d))
        BY <1>6, <3>3, <4>1, <4>2
      <4> HIDE DEF d
      <4> QED BY <3>3, <4>3, <4>4
    <3> QED BY <3>1, <3>2, <3>3
  <2>4. Outcome(r) \in {"ok", "error"} /\ (Outcome(r) = "ok" => \A i \in 1 .. n : r[i].res = "ok")
    BY <1>1, <1>4, <2>3, LoopIs
  <2> HIDE DEF Mine
  <2> QED BY <2>2, <2>3, <2>4
<1> QED BY <1>3, <1>4, <1>8, <1>9 DEF h, r, starts, len

(* What has been read of all the members is an object of them.             *)
LEMMA Assemble ==
    ASSUME NEW t \in Types, Nests(t), NEW b \in Slices, Fits(t, b), ~ BytesRefused(t, b),
           NEW n, n = NumMembers(t, b), NEW r, Upto(r, n), NEW starts, Ascends(starts, n),
           FixedSize(t, n) <= starts[1], starts[n + 1] = Length(b), NEW offsets,
           \A i \in 1 .. n : Part(t, i).fix => starts[i] = starts[i + 1],
           \A i \in 1 .. n :
              Yields(Part(t, i), IF Part(t, i).fix THEN Part(t, i).size
                                 ELSE starts[i + 1] - starts[i], r[i]),
           NEW d, d.v = Made([i \in 1 .. n |-> r[i].v]),
           d.at = Pieces(t, r, starts, offsets),
           d.gap = (starts[1] - FixedSize(t, n)) + SumUpTo([i \in 1 .. n |-> r[i].gap], n)
    PROVE  Yields(t, Length(b), d)
<1> DEFINE of == [i \in 1 .. n |-> r[i].v]
           m == Members(t, of)
           w == Made(of)
           e == Encoding(t, of)
<1>1. /\ n \in Nat /\ Count(t, n) /\ Length(b) \in Nat
      /\ t.t = "seq" => n <= t.max
      /\ t.t = "struct" => (t.fix => t.size = Length(b))
  BY ReadCount DEF Fits
<1>2. \A i \in 1 .. n : /\ Part(t, i) \in Types /\ Part(t, i).fix \in BOOLEAN
                        /\ WireLaw(Part(t, i)) /\ Typed(Part(t, i))
  BY <1>1, MemberTypes, FixBoolean, WireLawHolds, TypedHolds
<1>3. Upto(of, n) /\ Len(of) = n /\ w.of = of /\ \A i \in 1 .. n : of[i] = r[i].v
  BY <1>1 DEF Upto, Made
<1>4. d.v = w /\ e.v = w
  BY DEF Encoding
<1> HIDE DEF of
<1>5. \A i \in 1 .. n : /\ r[i].v \in Vals(Part(t, i)) /\ WireOf(Part(t, i), r[i].v).res = "ok"
                        /\ WireOf(Part(t, i), r[i].v).v = r[i].v /\ BitsOf(Part(t, i), r[i].v)
                        /\ r[i].gap \in Nat /\ (Part(t, i).fix => r[i].gap = 0)
  BY DEF Yields
<1>6. \A i \in 1 .. n :
         IF Part(t, i).fix THEN Covers(r[i].at, Part(t, i).size)
         ELSE /\ Covers(r[i].at, starts[i + 1] - starts[i])
              /\ starts[i + 1] - starts[i] = WireOf(Part(t, i), r[i].v).len + r[i].gap
  BY <1>2 DEF Yields
<1>7. Settled(t, of, n)
  BY <1>3, <1>5 DEF Settled
<1>8. ~ Invalid(t, Made(of))
  <2>1. t.max \in Nat
    BY TypeFacts
  <2> QED BY <1>1, <1>3, <2>1 DEF Invalid, Nests
<1>9. /\ w \in Vals(t) /\ WireOf(t, w) = e /\ (t.fix => e.len = t.size)
  BY <1>1, <1>2, <1>3, <1>7, <1>8, Join
<1>10. \A i \in 1 .. n : m[i] = WireOf(Part(t, i), r[i].v)
  BY <1>3 DEF Members
<1>11. e.res = "ok" /\ e.len = StartsOf(t, m, n)[n + 1]
  BY <1>3 DEF Encoding
<1> HIDE DEF m, e
<1>12. \A i \in 1 .. n : m[i].len \in Nat
  BY <1>2, <1>5, <1>10 DEF Typed
<1>13. d.gap \in Nat /\ starts[n + 1] = StartsOf(t, m, n)[n + 1] + d.gap
  <2>1. Drifts(t, n, m, r, starts)
    BY <1>2, <1>5, <1>6, <1>10, <1>12 DEF Drifts
  <2> DEFINE gap == GapOf(t, n, starts, r)
  <2>3. gap \in Nat /\ starts[n + 1] = StartsOf(t, m, n)[n + 1] + gap
    BY <1>1, <2>1, GapsAdd
  <2>4. d.gap = gap
    BY DEF GapOf
  <2> HIDE DEF gap
  <2> QED BY <2>3, <2>4
<1>14. e.len \in Nat
  <2>1. Ascends(StartsOf(t, m, n), n) /\ StartsOf(t, m, n)[n + 1] \in Nat
    BY <1>1, <1>12, StartsAre
  <2> QED BY <1>11, <2>1
<1>15. BitsOf(t, w)
  <2>1. w # Nil
    BY DEF Made, Nil, Plain
  <2>2. BitsOf(t, w) = \A i \in 1 .. Len(w.of) : BitsOf(Part(t, i), w.of[i])
    BY <1>9, <2>1, NestedIs
  <2>3. \A i \in 1 .. Len(w.of) : BitsOf(Part(t, i), w.of[i])
    BY <1>3, <1>5
  <2> QED BY <2>2, <2>3
<1>16. Covers(d.at, Length(b))
  <2>1. DOMAIN r = 1 .. n /\ Len(r) = n
    BY <1>1 DEF Upto
  <2>2. \A i \in 1 .. n :
           IF Part(t, i).fix
           THEN starts[i + 1] = starts[i] /\ Covers(r[i].at, Part(t, i).size)
           ELSE Covers(r[i].at, starts[i + 1] - starts[i])
    BY <1>6
  <2>3. Covers(Pieces(t, r, starts, offsets), starts[n + 1])
    BY <1>1, <2>1, <2>2, PiecesCover
  <2> QED BY <2>3
<1>17. t.fix => d.gap = 0
  <2>1. ASSUME t.fix PROVE d.gap = 0
    <3>1. t.t = "struct"
      <4>1. WellFormed(t)
        BY TypeFacts
      <4> QED BY <2>1, <4>1 DEF WellFormed, Nests
    <3> QED BY <1>1, <1>9, <1>11, <1>13, <1>14, <2>1, <3>1
  <2> QED BY <2>1
<1> HIDE DEF w
<1>18. Length(b) = e.len + d.gap
  BY <1>1, <1>11, <1>13, <1>14
<1> QED BY <1>4, <1>9, <1>11, <1>13, <1>15, <1>16, <1>17, <1>18 DEF Yields, e

LEMMA ReadLawHolds ==
    \A t \in Types : ReadLaw(t)
<1> DEFINE S == {t \in Types : ReadLaw(t)}
<1>1. ASSUME NEW t \in Types, ~ Nests(t) PROVE t \in S
  BY <1>1, ReadLeaf DEF ReadLaw
<1>2. ASSUME NEW t \in Types, Nests(t),
             \A n : Count(t, n) => \A i \in 1 .. n : Part(t, i) \in S
      PROVE  t \in S
  <2>1. \A n : Count(t, n) => \A i \in 1 .. n : ReadLaw(Part(t, i))
    BY <1>2
  <2> HIDE DEF S
  <2>2. ASSUME NEW b \in Slices, Fits(t, b) PROVE Reads(t, b)
    <3> DEFINE n == NumMembers(t, b)
               h == FirstRead(t, b, n)
               r == SecondRead(t, b, n)
               starts == ReadStarts(t, b, n)
               d == ReadOf(t, b)
    <3>1. d = IF BytesRefused(t, b) THEN Fault("error") ELSE Decode(t, P(t), b)
      <4>1. d = UnmarshalSSZ(t, P(t), b)
        BY MethodsAre DEF ReadOf
      <4> QED BY <1>2, <4>1 DEF UnmarshalSSZ, Nests
    <3>2. CASE BytesRefused(t, b)
      BY <3>1, <3>2 DEF Fault, Reads
    <3>3. CASE ~ BytesRefused(t, b)
      <4>1. Count(t, n) /\ n \in Nat
        BY <1>2, <2>2, <3>3, ReadCount DEF Fits
      <4>2. \A i \in 1 .. n : ReadLaw(Part(t, i))
        BY <2>1, <4>1
      <4>3. /\ Upto(r, n) /\ Outcome(h) \in {"ok", "error"}
            /\ Outcome(h) = "ok" => Outcome(r) \in {"ok", "error"}
            /\ Outcome(h) = "ok" /\ Outcome(r) = "ok" =>
                 /\ Ascends(starts, n) /\ FixedSize(t, n) <= starts[1]
                 /\ starts[n + 1] = Length(b)
                 /\ \A i \in 1 .. n : Part(t, i).fix => starts[i] = starts[i + 1]
                 /\ \A i \in 1 .. n :
                      Yields(Part(t, i), IF Part(t, i).fix THEN Part(t, i).size
                                         ELSE starts[i + 1] - starts[i], r[i])
        BY <1>2, <2>2, <3>3, <4>2, ReadMembers
      <4>4. /\ Outcome(h) # "ok" => d = Fault(Outcome(h))
            /\ Outcome(h) = "ok" /\ Outcome(r) # "ok" => d = Fault(Outcome(r))
            /\ Outcome(h) = "ok" /\ Outcome(r) = "ok" => d = Found(t, b, n)
        <5>1. d = Decode(t, P(t), b)
          BY <3>1, <3>3
        <5> HIDE DEF d
        <5> QED BY <1>2, <4>1, <5>1, DecodeIs
      <4>5. CASE Outcome(h) # "ok"
        <5>1. d = Fault("error")
          BY <4>3, <4>4, <4>5
        <5> QED BY <5>1 DEF Fault, Reads
      <4>6. CASE Outcome(h) = "ok" /\ Outcome(r) # "ok"
        <5>1. d = Fault("error")
          BY <4>3, <4>4, <4>6
        <5> QED BY <5>1 DEF Fault, Reads
      <4>7. CASE Outcome(h) = "ok" /\ Outcome(r) = "ok"
        <5>1. d = Found(t, b, n)
          BY <4>4, <4>7
        <5> HIDE DEF d
        <5>2. /\ d.res = "ok" /\ d.v = Made([i \in 1 .. n |-> r[i].v])
              /\ d.at = Pieces(t, r, starts, ReadOffsets(t, b, n))
              /\ d.gap = (starts[1] - FixedSize(t, n)) + SumUpTo([i \in 1 .. n |-> r[i].gap], n)
          BY <5>1 DEF Found
        <5> HIDE DEF n, h, r, starts
        <5>3. Yields(t, Length(b), d)
          BY <1>2, <2>2, <3>3, <4>3, <4>7, <5>2, Assemble DEF n
        <5> QED BY <5>2, <5>3 DEF Reads, d
      <4> QED BY <4>5, <4>6, <4>7
    <3> QED BY <3>2, <3>3
  <2>3. ReadLaw(t)
    BY <2>2 DEF ReadLaw
  <2> QED BY <2>3 DEF S
<1> HIDE DEF S
<1>3. Types \subseteq S
  BY <1>1, <1>2, MemberInduction
<1> QED BY <1>3 DEF S

---------------------------------------------------------------------------
(* Bytes that say what an encoding's pieces say are decoded to the object  *)
(* that was encoded.                                                       *)
Says(x, b) ==
    /\ x.kind = "offset" => ReadOffset(b, x.from) = x.says
    /\ x.kind = "bits" /\ x.from < x.to =>
         At(b.wire.ends, b.from + x.to, b.wire.junk % 8) = x.says
Agrees(b, e) == Length(b) = e.len /\ \A x \in e.at : Says(x, b)

Stable(t, v) == v \in Vals(t) /\ WireOf(t, v).res = "ok" /\ WireOf(t, v).v = v /\ BitsOf(t, v)
Returned(e)  == [res |-> "ok", v |-> e.v, at |-> e.at, gap |-> 0]
ReturnLaw(t) ==
    \A v \in Vals(t), b \in Slices :
        Stable(t, v) /\ Agrees(b, WireOf(t, v)) => ReadOf(t, b) = Returned(WireOf(t, v))

LEMMA ReturnLeaf ==
    ASSUME NEW t \in Types, ~ Nests(t), NEW v \in Vals(t), Stable(t, v),
           NEW b \in Slices, Agrees(b, WireOf(t, v))
    PROVE  ReadOf(t, b) = Returned(WireOf(t, v))
<1> DEFINE len == LeafSize(t, v)
           says == LeafSays(t, v)
           kind == IF t.t = "bitlist" THEN "bits" ELSE "bytes"
<1>1. /\ t.t \in {"basic", "vector", "list", "bitlist"} /\ v.n \in Int /\ len \in Nat
      /\ t.t \in {"vector", "list"} => v.n \in Nat
      /\ WireOf(t, v) = IF Invalid(t, v) THEN Fails("error", v) ELSE Wrote(t, v, len, says)
      /\ BitsOf(t, v) = (t.t = "bitlist" => v.n \in 0 .. t.max)
  BY LeafIs
<1>2. ~ Invalid(t, v) /\ WireOf(t, v) = Wrote(t, v, len, says)
  BY <1>1 DEF Stable, Fails
<1>3. v = Plain(v.n) /\ (t.t = "basic" => v.n = 0) /\ (t.t = "vector" => v.n = t.max)
  BY <1>2, LeafPlain
<1>4. /\ t.max \in Nat
      /\ t.t = "list" => ~ t.fix /\ t.unit \in Nat \ {0}
      /\ t.t = "bitlist" => ~ t.fix
  <2>1. WellFormed(t) /\ t.max \in Nat /\ t.unit \in Nat
    BY TypeFacts
  <2>2. t.t = "list" => ~ t.fix /\ t.unit > 0
    BY <2>1 DEF WellFormed
  <2>3. t.t = "bitlist" => ~ t.fix
    BY <2>1 DEF WellFormed
  <2> QED BY <2>1, <2>2, <2>3
<1>5. Length(b) = len
  BY <1>2 DEF Agrees, Wrote
<1>6. WireOf(t, v).at = Alone(t, len, says)
  BY <1>2 DEF Wrote
<1>7. ReadOf(t, b) = IF Accepts(t, b)
                     THEN Decoded(Plain(LeafCount(t, b)), Alone(t, Length(b), LeafEnd(t, b)))
                     ELSE Fault("error")
  BY LeafRead
<1>8. Accepts(t, b) /\ LeafCount(t, b) = v.n /\ LeafEnd(t, b) = says
  <2>1. CASE t.t = "basic" \/ t.t = "vector"
    BY <1>3, <2>1 DEF Accepts, LeafCount, LeafEnd, LeafSays
  <2>2. CASE t.t = "list"
    <3> DEFINE s == t.unit
               n == v.n
    <3>1. s \in Nat \ {0} /\ n \in Nat /\ len = n * s /\ n <= t.max
      BY <1>1, <1>2, <1>4, <2>2 DEF LeafSize, Invalid
    <3>2. (n * s) % s = 0 /\ (n * s) \div s = n
      <4> HIDE DEF s, n
      <4> QED BY <3>1, WholeDiv
    <3>3. len % s = 0 /\ len \div s = n
      <4> HIDE DEF s, n, len
      <4> QED BY <3>1, <3>2
    <3> QED BY <1>5, <2>2, <3>1, <3>3 DEF Accepts, Divides, LeafCount, LeafEnd, LeafSays
  <2>3. CASE t.t = "bitlist"
    <3> DEFINE n == v.n
               bit == EndBit(b)
               x == Piece(<< >>, 0, len, "bits", says)
    <3>1. n \in 0 .. t.max /\ says = n % 8
      BY <1>1, <2>3 DEF Stable, LeafSays
    <3>2. len = n \div 8 + 1
      BY <1>4, <2>3, <3>1 DEF LeafSize, BitBytes
    <3>3. x \in WireOf(t, v).at
      BY <1>6, <2>3 DEF Alone
    <3>4. Says(x, b)
      BY <3>3 DEF Agrees
    <3>5. x.kind = "bits" /\ x.from = 0 /\ x.to = len /\ x.says = says
      BY DEF Piece
    <3>6. b.from + len = b.to
      <4>1. b.from \in Nat /\ b.to \in Nat /\ b.to - b.from = len
        BY <1>5, SliceFacts DEF Length
      <4> HIDE DEF len
      <4> QED BY <1>1, <4>1
    <3> HIDE DEF x, len, n, says
    <3>7. 0 < len
      BY <1>4, <3>1, <3>2
    <3>8. bit = says
      BY <3>4, <3>5, <3>6, <3>7 DEF Says, EndBit
    <3> HIDE DEF bit
    <3>9. len > 0 /\ len <= t.max \div 8 + 1 /\ bit # -1 /\ 8 * (len - 1) + bit <= t.max
          /\ 8 * (len - 1) + bit = n
      BY <1>4, <3>1, <3>2, <3>8
    <3>10. Accepts(t, b)
      BY <1>5, <2>3, <3>9 DEF Accepts, ValidateBitlist, bit
    <3>11. LeafCount(t, b) = n
      BY <1>5, <2>3, <3>9 DEF LeafCount, bit
    <3> QED BY <2>3, <3>8, <3>10, <3>11 DEF LeafEnd, bit, n
  <2> QED BY <1>1, <2>1, <2>2, <2>3
<1> HIDE DEF len, says
<1>9. ReadOf(t, b) = Decoded(v, Alone(t, len, says))
  BY <1>3, <1>5, <1>7, <1>8
<1> QED BY <1>2, <1>9 DEF Decoded, Returned, Wrote

(* The bytes of a member of a length are a slice of that length.          *)
LEMMA SubSpan ==
    ASSUME NEW b \in Slices, NEW start \in Nat, NEW len \in Nat
    PROVE  LET c == Sub(b, start, start + len)
           IN /\ c \in Slices /\ Length(c) = len /\ c.from = b.from + start /\ c.wire = b.wire
              /\ b.from \in Nat
<1> DEFINE end == start + len
<1>1. end \in Nat /\ end - start = len
  OBVIOUS
<1> HIDE DEF end
<1>2. /\ Sub(b, start, end) \in Slices /\ Length(Sub(b, start, end)) = end - start
      /\ Sub(b, start, end).from = b.from + start /\ Sub(b, start, end).wire = b.wire
      /\ b.from \in Nat
  BY <1>1, SubIs
<1> QED BY <1>1, <1>2 DEF end

(* A member's bytes agree with its pieces when those of the whole do.      *)
LEMMA SubAgrees ==
    ASSUME NEW b \in Slices, NEW start \in Nat, NEW e, e.len \in Nat, Covers(e.at, e.len), NEW i,
           \A x \in e.at : Says(Moved(x, i, start), b)
    PROVE  Agrees(Sub(b, start, start + e.len), e)
<1> DEFINE c == Sub(b, start, start + e.len)
<1>1. /\ c \in Slices /\ Length(c) = e.len /\ c.from = b.from + start /\ c.wire = b.wire
      /\ b.from \in Nat
  BY SubSpan
<1> HIDE DEF c
<1>2. ASSUME NEW x \in e.at PROVE Says(x, c)
  <2> DEFINE y == Moved(x, i, start)
  <2>1. x.from \in Nat /\ x.to \in Nat
    BY DEF Covers, Within
  <2>2. y.kind = x.kind /\ y.from = x.from + start /\ y.to = x.to + start /\ y.says = x.says
    BY DEF Moved, Piece
  <2>3. Says(y, b)
    OBVIOUS
  <2> HIDE DEF y
  <2>4. c.from + x.from = b.from + y.from /\ c.from + x.to = b.from + y.to
        /\ (x.from < x.to => y.from < y.to)
    BY <1>1, <2>1, <2>2
  <2>5. x.kind = "offset" => ReadOffset(c, x.from) = x.says
    BY <1>1, <2>2, <2>3, <2>4 DEF Says, ReadOffset
  <2>6. x.kind = "bits" /\ x.from < x.to =>
           At(c.wire.ends, c.from + x.to, c.wire.junk % 8) = x.says
    BY <1>1, <2>2, <2>3, <2>4 DEF Says
  <2> QED BY <2>5, <2>6 DEF Says
<1> QED BY <1>1, <1>2 DEF Agrees, c

(* The encodings m of n members side by side, their tails beginning at s.  *)
Laid(t, n, m, s) ==
    /\ n \in Nat /\ Count(t, n) /\ Upto(m, n) /\ Len(m) = n /\ s = [i \in 1 .. n + 1 |-> s[i]]
    /\ Ascends(s, n) /\ s[1] = FixedSize(t, n)
    /\ \A i \in 1 .. n :
         /\ m[i].len \in Nat /\ Covers(m[i].at, m[i].len)
         /\ Part(t, i).fix => m[i].len = Part(t, i).size
         /\ s[i + 1] = IF Part(t, i).fix THEN s[i] ELSE s[i] + m[i].len
    /\ t.fix => s[n + 1] = t.size
    /\ (\A i \in 1 .. n : Part(t, i).fix) => s[n + 1] = s[1]

LEMMA EncodingLaid ==
    ASSUME NEW t \in Types, Nests(t), NEW n \in Nat, Count(t, n), NEW of, Upto(of, n),
           Settled(t, of, n)
    PROVE  /\ Laid(t, n, Members(t, of), StartsOf(t, Members(t, of), n))
           /\ Len(of) = n
           /\ \A i \in 1 .. n : Members(t, of)[i] = WireOf(Part(t, i), of[i])
<1> DEFINE m == Members(t, of)
           s == StartsOf(t, m, n)
<1>1. Len(of) = n
  BY DEF Upto
<1>2. Upto(m, n) /\ Len(m) = n /\ \A i \in 1 .. n : m[i] = WireOf(Part(t, i), of[i])
  BY <1>1 DEF Members, Upto
<1>3. \A i \in 1 .. n : /\ PieceLaw(Part(t, i)) /\ WireLaw(Part(t, i)) /\ Part(t, i) \in Types
                        /\ Typed(Part(t, i)) /\ Part(t, i).fix \in BOOLEAN
  BY MemberTypes, WireLawHolds, PieceLawHolds, TypedHolds, FixBoolean
<1> HIDE DEF m
<1>4. ASSUME NEW i \in 1 .. n
      PROVE  /\ m[i].len \in Nat /\ Covers(m[i].at, m[i].len)
             /\ Part(t, i).fix => m[i].len = Part(t, i).size
  <2> DEFINE x == Part(t, i)
             w == of[i]
  <2>1. x \in Types /\ w \in Vals(x) /\ WireOf(x, w).res = "ok" /\ m[i] = WireOf(x, w)
        /\ PieceLaw(x) /\ WireLaw(x) /\ Typed(x)
    BY <1>2, <1>3 DEF Settled
  <2> HIDE DEF x, w
  <2>2. x.fix => WireOf(x, w).len = x.size
    BY <2>1, Zenon DEF WireLaw
  <2>3. WireOf(x, w).len \in Nat
    BY <2>1 DEF Typed
  <2>4. Covers(WireOf(x, w).at, WireOf(x, w).len)
    BY <2>1 DEF PieceLaw
  <2> QED BY <2>1, <2>2, <2>3, <2>4 DEF x
<1>5. /\ Ascends(s, n) /\ s[1] = FixedSize(t, n)
      /\ \A i \in 1 .. n : s[i + 1] = IF Part(t, i).fix THEN s[i] ELSE s[i] + m[i].len
      /\ t.fix => s[n + 1] = t.size
  BY <1>4, StartsAre
<1>6. s = [i \in 1 .. n + 1 |-> s[i]]
  BY Zenon DEF StartsOf
<1>7. ASSUME \A i \in 1 .. n : Part(t, i).fix PROVE s[n + 1] = s[1]
  <2> DEFINE sizes == [j \in 1 .. n |-> m[j].len]
  <2>1. \A i \in 1 .. n + 1 : s[i] = HeadPos(t, n + 1) + TailSum(t, sizes, i)
    BY DEF StartsOf
  <2>2. DOMAIN sizes = 1 .. n /\ \A i \in 1 .. n : sizes[i] \in Nat
    BY <1>4
  <2>3. 1 \in 1 .. n + 1 /\ n + 1 \in 1 .. n + 1 /\ 1 <= n + 1
    OBVIOUS
  <2> HIDE DEF sizes
  <2>4. TailSum(t, sizes, 1) = TailSum(t, sizes, n + 1)
    BY <1>7, <2>2, <2>3, TailStays
  <2> QED BY <2>1, <2>3, <2>4
<1> HIDE DEF s
<1>8. Laid(t, n, m, s)
  BY <1>2, <1>4, <1>5, <1>6, <1>7 DEF Laid
<1> QED BY <1>1, <1>2, <1>8 DEF m, s

(* What bytes that agree with such an encoding say.                        *)
Told(t, b, n, m, s) ==
    /\ Length(b) = s[n + 1]
    /\ \A i \in 1 .. n : ~ Part(t, i).fix => ReadOffset(b, HeadPos(t, i)) = s[i]
    /\ \A i \in 1 .. n : Agrees(Sub(b, Begin(t, i, s), Begin(t, i, s) + m[i].len), m[i])

LEMMA EncodingTold ==
    ASSUME NEW t \in Types, Nests(t), NEW n, NEW m, NEW s, Laid(t, n, m, s),
           NEW b \in Slices, Length(b) = s[n + 1],
           \A x \in Pieces(t, m, s, s) : Says(x, b)
    PROVE  Told(t, b, n, m, s)
<1>1. n \in Nat /\ Count(t, n) /\ DOMAIN m = 1 .. n /\ Len(m) = n
  BY DEF Laid, Upto
<1>2. \A y : y \in Pieces(t, m, s, s) <=>
                 \/ \E i \in 1 .. n : \E x \in m[i].at : y = Moved(x, i, Begin(t, i, s))
                 \/ \E i \in 1 .. n : ~ Part(t, i).fix /\ y = Offset(t, i, s)
                 \/ y = Gap(t, n, s) /\ HeadPos(t, n + 1) < s[1]
  <2>1. \A y : y \in Pieces(t, m, s, s) <=>
                   \/ \E i \in 1 .. Len(m) : \E x \in m[i].at : y = Moved(x, i, Begin(t, i, s))
                   \/ \E i \in 1 .. Len(m) : ~ Part(t, i).fix /\ y = Offset(t, i, s)
                   \/ y = Gap(t, Len(m), s) /\ HeadPos(t, Len(m) + 1) < s[1]
    BY <1>1, PiecesAre
  <2> QED BY <1>1, <2>1, Zenon
<1>3. ASSUME NEW i \in 1 .. n, ~ Part(t, i).fix PROVE ReadOffset(b, HeadPos(t, i)) = s[i]
  <2> DEFINE y == Offset(t, i, s)
  <2>1. Says(y, b)
    <3> HIDE DEF y
    <3>1. y \in Pieces(t, m, s, s)
      BY <1>2, <1>3 DEF y
    <3> QED BY <3>1
  <2>2. y.kind = "offset" /\ y.from = HeadPos(t, i) /\ y.says = s[i]
    BY DEF Offset, Piece
  <2> HIDE DEF y
  <2> QED BY <2>1, <2>2 DEF Says
<1>4. ASSUME NEW i \in 1 .. n
      PROVE  Agrees(Sub(b, Begin(t, i, s), Begin(t, i, s) + m[i].len), m[i])
  <2> DEFINE start == Begin(t, i, s)
             e == m[i]
  <2>1. \A x \in e.at : Says(Moved(x, i, start), b)
    <3>1. TAKE x \in e.at
    <3>2. Moved(x, i, start) \in Pieces(t, m, s, s)
      BY <1>2
    <3> QED BY <3>2
  <2>2. start \in Nat
    <3>1. HeadPos(t, i) \in Nat
      BY <1>1, HeadsAre
    <3>2. s[i] \in Nat
      BY <1>1 DEF Laid, Ascends
    <3> QED BY <3>1, <3>2 DEF Begin
  <2>3. e.len \in Nat /\ Covers(e.at, e.len)
    BY DEF Laid
  <2> HIDE DEF start, e
  <2>4. Agrees(Sub(b, start, start + e.len), e)
    BY <2>1, <2>2, <2>3, SubAgrees
  <2> QED BY <2>4 DEF start, e
<1> QED BY <1>3, <1>4 DEF Told

(* The bytes are not refused, and the members' number and tails are those  *)
(* of the encoding.                                                        *)
LEMMA CountBack ==
    ASSUME NEW t \in Types, Nests(t), NEW n, NEW m, NEW s, Laid(t, n, m, s),
           t.t = "seq" => n <= t.max, NEW b \in Slices, Told(t, b, n, m, s)
    PROVE  /\ Length(b) \in Nat /\ ~ BytesRefused(t, b) /\ NumMembers(t, b) = n
           /\ t.t = "seq" /\ ~ t.parts[1].fix /\ n > 0 => 4 * n <= Length(b)
<1> DEFINE len == Length(b)
           F == FixedSize(t, n)
<1>1. n \in Nat /\ Count(t, n) /\ t.max \in Nat /\ t.size \in Nat /\ t.fix \in BOOLEAN
  BY TypeFacts DEF Laid
<1>2. len = s[n + 1] /\ len \in Nat /\ s[1] = F /\ F <= len /\ F \in Nat
  <2>1. s[1] <= s[n + 1] /\ s[1] \in Nat /\ s[n + 1] \in Nat
    <3>1. \A i, j \in 1 .. n + 1 : i <= j => s[i] <= s[j]
      BY CutsAscend DEF Laid
    <3>2. \A i \in 1 .. n + 1 : s[i] \in Nat
      BY DEF Laid, Ascends
    <3> QED BY <1>1, <3>1, <3>2
  <2> QED BY <2>1 DEF Laid, Told
<1>3. CASE t.t = "struct"
  <2>1. F = t.size /\ n = Len(t.parts)
    BY <1>1, <1>3 DEF FixedSize, Count
  <2>2. t.fix => len = t.size
    BY <1>2 DEF Laid
  <2> HIDE DEF len, F
  <2>3. ~ (len < t.size) /\ ~ (t.fix /\ len # t.size)
    BY <1>1, <1>2, <2>1, <2>2
  <2>4. ~ BytesRefused(t, b)
    BY <1>3, <2>3 DEF BytesRefused, len
  <2>5. NumMembers(t, b) = n
    BY <1>3, <2>1 DEF NumMembers
  <2> QED BY <1>2, <1>3, <2>4, <2>5 DEF len
<1>4. CASE t.t = "seq"
  <2>1. Len(t.parts) = 1 /\ (t.parts[1].fix => t.parts[1].size > 0) /\ t.parts[1] \in Types
    <3>1. WellFormed(t) /\ t.parts \in Seq(Types)
      BY TypeFacts
    <3>2. Len(t.parts) = 1 /\ (t.parts[1].fix => t.parts[1].size > 0)
      BY <1>4, <3>1 DEF WellFormed
    <3> QED BY <3>1, <3>2
  <2>2. t.parts[1].size \in Nat /\ t.parts[1].fix \in BOOLEAN
    BY <2>1, TypeFacts
  <2>3. F = n * Width(t.parts[1]) /\ \A i \in 1 .. n : Part(t, i) = t.parts[1]
    BY <1>4 DEF FixedSize, Part
  <2>4. CASE t.parts[1].fix
    <3> DEFINE z == t.parts[1].size
    <3>1. len = n * z /\ z \in Nat \ {0}
      BY <1>2, <2>1, <2>2, <2>3, <2>4 DEF Laid, Width
    <3>2. (n * z) % z = 0 /\ (n * z) \div z = n
      <4> HIDE DEF z
      <4> QED BY <1>1, <3>1, WholeDiv
    <3>3. len % z = 0 /\ len \div z = n
      <4> HIDE DEF z, len
      <4> QED BY <3>1, <3>2
    <3>4. NumMembers(t, b) = n /\ ~ BytesRefused(t, b)
      BY <1>4, <2>4, <3>3 DEF NumMembers, BytesRefused, Divides
    <3> QED BY <1>2, <2>4, <3>4
  <2>5. CASE ~ t.parts[1].fix
    <3>1. F = 4 * n
      BY <1>1, <2>3, <2>5 DEF Width
    <3> DEFINE o == ReadOffset(b, 0)
    <3>2. CASE n = 0
      <4>1. len = 0
        <5>1. s[n + 1] = s[1]
          BY <3>2
        <5> QED BY <1>2, <3>1, <3>2, <5>1
      <4> HIDE DEF o, F
      <4>2. NumMembers(t, b) = n
        BY <1>4, <2>5, <3>2, <4>1 DEF NumMembers
      <4>3. ~ LengthRefused(b, t.max)
        BY <4>1 DEF LengthRefused
      <4>4. ~ BytesRefused(t, b)
        BY <1>4, <2>5, <4>3 DEF BytesRefused
      <4> QED BY <1>2, <2>5, <3>2, <4>2, <4>4
    <3>3. CASE n > 0
      <4>1. o = 4 * n
        <5>1. 1 \in 1 .. n /\ HeadPos(t, 1) = 0
          BY <1>1, <3>3, HeadsAre
        <5>2. ReadOffset(b, HeadPos(t, 1)) = s[1]
          BY <2>3, <2>5, <5>1 DEF Told
        <5> QED BY <1>2, <3>1, <5>1, <5>2
      <4>2. o % 4 = 0 /\ o \div 4 = n /\ len >= 4
        <5> HIDE DEF o, len, F
        <5> QED BY <1>1, <1>2, <3>1, <3>3, <4>1
      <4> HIDE DEF F
      <4>3. NumMembers(t, b) = n
        BY <1>4, <2>5, <4>2 DEF NumMembers
      <4>4. ~ LengthRefused(b, t.max)
        <5>1. LengthRefused(b, t.max) <=> len > 0 /\ (len < 4 \/ o % 4 # 0 \/ o \div 4 > t.max)
          BY DEF LengthRefused
        <5> HIDE DEF o, len
        <5> QED BY <1>1, <1>2, <1>4, <4>2, <5>1
      <4>5. ~ BytesRefused(t, b)
        BY <1>4, <2>5, <4>4 DEF BytesRefused
      <4> QED BY <1>2, <3>1, <4>3, <4>5
    <3> QED BY <1>1, <3>2, <3>3
  <2> QED BY <2>2, <2>4, <2>5
<1> QED BY <1>3, <1>4 DEF Nests

(* Two sequences agree when they do at the end, and at a place whenever at *)
(* the next.                                                               *)
LEMMA AgreeBackwards ==
    ASSUME NEW c, NEW s, NEW n \in Nat, c[n + 1] = s[n + 1],
           \A k \in 1 .. n : c[k + 1] = s[k + 1] => c[k] = s[k]
    PROVE  \A k \in 1 .. n + 1 : c[k] = s[k]
<1> DEFINE f == [i \in 0 .. n |-> c[n + 1 - i]]
           g == [i \in 0 .. n |-> s[n + 1 - i]]
<1>1. f[0] = g[0]
  OBVIOUS
<1>2. ASSUME NEW i \in 1 .. n PROVE f[i - 1] = g[i - 1] => f[i] = g[i]
  <2> DEFINE k == n + 1 - i
  <2>1. k \in 1 .. n /\ n + 1 - (i - 1) = k + 1 /\ i \in 0 .. n /\ i - 1 \in 0 .. n
    OBVIOUS
  <2>2. f[i] = c[k] /\ g[i] = s[k] /\ f[i - 1] = c[k + 1] /\ g[i - 1] = s[k + 1]
    BY <2>1
  <2> HIDE DEF k, f, g
  <2> QED BY <2>1, <2>2
<1>3. \A i \in 0 .. n : f[i] = g[i]
  <2> HIDE DEF f, g
  <2> QED BY <1>1, <1>2, StepsAgree
<1>4. TAKE k \in 1 .. n + 1
<1>5. n + 1 - k \in 0 .. n /\ n + 1 - (n + 1 - k) = k
  OBVIOUS
<1> QED BY <1>3, <1>5

LEMMA StartsBack ==
    ASSUME NEW t \in Types, Nests(t), NEW n, NEW m, NEW s, Laid(t, n, m, s),
           NEW b \in Slices, Length(b) \in Nat, Told(t, b, n, m, s)
    PROVE  ReadStarts(t, b, n) = s
<1> DEFINE c == ReadStarts(t, b, n)
<1>1. n \in Nat /\ Count(t, n)
  BY DEF Laid
<1>2. Begins(t, b, n, c)
  BY <1>1, ReadStartsAre
<1> HIDE DEF c
<1>3. c[n + 1] = s[n + 1]
  BY <1>1, <1>2 DEF Begins, Told
<1>4. ASSUME NEW k \in 1 .. n, c[k + 1] = s[k + 1] PROVE c[k] = s[k]
  <2>1. CASE Part(t, k).fix
    BY <1>2, <1>4, <2>1 DEF Begins, Laid
  <2>2. CASE ~ Part(t, k).fix
    BY <1>2, <1>4, <2>2 DEF Begins, Told
  <2> QED BY <2>1, <2>2
<1>6. \A i \in 1 .. n + 1 : c[i] = s[i]
  BY <1>1, <1>3, <1>4, AgreeBackwards
<1>7. c = [i \in 1 .. n + 1 |-> c[i]]
  BY DEF c, ReadStarts
<1>8. s = [i \in 1 .. n + 1 |-> s[i]]
  BY DEF Laid
<1>9. c = s
  BY <1>6, <1>7, <1>8, Zenon
<1> QED BY <1>9 DEF c

(* No offset of such bytes is refused.                                     *)
LEMMA NoneRefused ==
    ASSUME NEW t \in Types, Nests(t), NEW n, NEW m, NEW s, Laid(t, n, m, s),
           NEW b \in Slices, Length(b) \in Nat, Told(t, b, n, m, s),
           t.t = "seq" /\ ~ t.parts[1].fix /\ n > 0 => 4 * n <= Length(b),
           NEW i \in 1 .. n, ~ Part(t, i).fix
    PROVE  /\ ~ (t.t = "struct" /\ OffsetRefused(t, b, i))
           /\ ~ (t.t = "seq" /\ ItemRefused(b, n, i, s[i], s[i + 1]))
           /\ ~ (s[i] > s[i + 1] \/ s[i + 1] > Length(b))
<1> DEFINE len == Length(b)
<1>1. n \in Nat /\ Count(t, n) /\ i \in Nat
  BY DEF Laid
<1>2. len = s[n + 1] /\ (\A j \in 1 .. n + 1 : s[j] \in Nat)
      /\ \A j, k \in 1 .. n + 1 : j <= k => s[j] <= s[k]
  BY CutsAscend DEF Laid, Ascends, Told
<1>3. \A j \in 1 .. n : ~ Part(t, j).fix => ReadOffset(b, HeadPos(t, j)) = s[j]
  BY DEF Told
<1>4. i \in 1 .. n + 1 /\ i + 1 \in 1 .. n + 1 /\ 1 \in 1 .. n + 1 /\ n + 1 \in 1 .. n + 1
  BY <1>1
<1>5. s[i] <= s[i + 1] /\ s[i + 1] <= len /\ s[i] <= len /\ s[1] <= s[i]
      /\ s[i] \in Nat /\ s[i + 1] \in Nat /\ s[1] \in Nat /\ len \in Nat
  BY <1>1, <1>2, <1>4
<1> HIDE DEF len
<1>6. ASSUME t.t = "struct" PROVE ~ OffsetRefused(t, b, i)
  <2> DEFINE o == ReadOffset(b, HeadPos(t, i))
  <2>1. o = s[i]
    BY <1>3
  <2>2. ~ (o > Length(b))
    BY <1>5, <2>1 DEF len
  <2>3. ASSUME NEW j \in 1 .. i - 1, ~ t.parts[j].fix PROVE ~ (ReadOffset(b, HeadPos(t, j)) > o)
    <3>1. j \in 1 .. n /\ ~ Part(t, j).fix /\ j \in 1 .. n + 1 /\ j <= i
      BY <1>1, <1>6, <2>3 DEF Part
    <3>2. s[j] <= s[i] /\ s[j] \in Nat
      BY <1>2, <1>4, <3>1
    <3>3. ReadOffset(b, HeadPos(t, j)) = s[j]
      BY <1>3, <3>1
    <3> HIDE DEF o
    <3> QED BY <1>5, <2>1, <3>2, <3>3
  <2>4. ~ (o < t.size)
    <3>1. s[1] = t.size
      BY <1>6 DEF Laid, FixedSize
    <3> HIDE DEF o
    <3> QED BY <1>5, <2>1, <3>1
  <2> QED BY <2>2, <2>3, <2>4 DEF OffsetRefused
<1>7. ASSUME t.t = "seq" PROVE ~ ItemRefused(b, n, i, s[i], s[i + 1])
  <2>1. 4 * n <= len
    BY <1>1, <1>7 DEF Part, len
  <2>2. ~ (i < n /\ len - 4 * i < 4)
    BY <1>1, <1>5, <2>1
  <2> QED BY <1>5, <2>2 DEF ItemRefused, len
<1> QED BY <1>5, <1>6, <1>7 DEF len

LEMMA ReturnNest ==
    ASSUME NEW t \in Types, Nests(t), NEW n, Count(t, n), NEW of, Upto(of, n), Settled(t, of, n),
           ~ Invalid(t, Made(of)), \A i \in 1 .. n : BitsOf(Part(t, i), of[i]),
           \A i \in 1 .. n : ReturnLaw(Part(t, i)),
           NEW b \in Slices, Agrees(b, Encoding(t, of))
    PROVE  ReadOf(t, b) = Returned(Encoding(t, of))
<1> DEFINE m == Members(t, of)
           s == StartsOf(t, m, n)
           e == Encoding(t, of)
           h == FirstRead(t, b, n)
           r == SecondRead(t, b, n)
           len == Length(b)
<1>1. n \in Nat
  BY DEF Count
<1>2. /\ Laid(t, n, m, s) /\ Len(of) = n
      /\ \A i \in 1 .. n : m[i] = WireOf(Part(t, i), of[i])
  BY <1>1, EncodingLaid
<1>3. e = [res |-> "ok", v |-> Made(of), len |-> s[n + 1], at |-> Pieces(t, m, s, s)]
  BY <1>2 DEF Encoding
<1> HIDE DEF m, s, e
<1>4. Told(t, b, n, m, s)
  <2>1. e.len = s[n + 1] /\ e.at = Pieces(t, m, s, s)
    BY <1>3
  <2>2. Length(b) = s[n + 1] /\ \A x \in Pieces(t, m, s, s) : Says(x, b)
    BY <2>1 DEF Agrees, e
  <2> QED BY <1>2, <2>2, EncodingTold
<1>5. t.t = "seq" => n <= t.max
  <2>1. t.max \in Nat /\ Made(of).of = of
    BY TypeFacts DEF Made
  <2> QED BY <1>1, <1>2, <2>1 DEF Invalid
<1>6. /\ len \in Nat /\ ~ BytesRefused(t, b) /\ NumMembers(t, b) = n
      /\ t.t = "seq" /\ ~ t.parts[1].fix /\ n > 0 => 4 * n <= len
  BY <1>2, <1>4, <1>5, CountBack
<1>7. ReadStarts(t, b, n) = s
  BY <1>2, <1>4, <1>6, StartsBack
<1>8. \A i \in 1 .. n : ~ Part(t, i).fix =>
         /\ ~ (t.t = "struct" /\ OffsetRefused(t, b, i))
         /\ ~ (t.t = "seq" /\ ItemRefused(b, n, i, s[i], s[i + 1]))
         /\ ~ (s[i] > s[i + 1] \/ s[i + 1] > len)
  BY <1>2, <1>4, <1>6, NoneRefused
<1>9. ASSUME NEW i \in 1 .. n
      PROVE  ReadOf(Part(t, i), Sub(b, Begin(t, i, s), Begin(t, i, s) + m[i].len)) = Returned(m[i])
  <2> DEFINE x == Part(t, i)
             w == of[i]
             c == Sub(b, Begin(t, i, s), Begin(t, i, s) + m[i].len)
  <2>1. x \in Types /\ ReturnLaw(x) /\ w \in Vals(x) /\ Stable(x, w) /\ m[i] = WireOf(x, w)
    BY <1>2, MemberTypes DEF Settled, Stable
  <2>2. Begin(t, i, s) \in Nat /\ m[i].len \in Nat
    <3>1. \A j \in 1 .. n + 1 : HeadPos(t, j) \in Nat
      BY <1>1, HeadsAre
    <3>2. m[i].len \in Nat
      BY <1>2 DEF Laid
    <3>3. Ascends(s, n) /\ i \in 1 .. n + 1
      BY <1>1, <1>2 DEF Laid
    <3>4. s[i] \in Nat
      BY <3>3 DEF Ascends
    <3> QED BY <1>1, <3>1, <3>2, <3>4 DEF Begin
  <2>3. c \in Slices
    <3> DEFINE from == Begin(t, i, s)
               to == from + m[i].len
    <3>1. from \in Nat /\ to \in Nat
      BY <2>2
    <3> HIDE DEF from, to
    <3>2. Sub(b, from, to) \in Slices
      BY <3>1, SliceFacts
    <3> QED BY <3>2 DEF from, to
  <2>4. Agrees(c, m[i])
    BY <1>4 DEF Told
  <2> HIDE DEF x, w, c
  <2>5. ReadOf(x, c) = Returned(WireOf(x, w))
    BY <2>1, <2>3, <2>4 DEF ReturnLaw
  <2> QED BY <2>1, <2>5 DEF x, c
<1>10. ASSUME NEW i \in 1 .. n
       PROVE  /\ r[i] = Returned(m[i]) /\ h[i].res = "ok"
              /\ r[i].res = "ok" /\ r[i].v = of[i] /\ r[i].at = m[i].at /\ r[i].gap = 0
  <2>1. m[i].v = of[i]
    BY <1>2 DEF Settled
  <2>2. CASE Part(t, i).fix
    <3>1. Begin(t, i, s) = HeadPos(t, i) /\ m[i].len = Part(t, i).size
      BY <1>2, <2>2 DEF Begin, Laid
    <3>2. h[i] = ReadOf(Part(t, i), Sub(b, HeadPos(t, i), HeadPos(t, i) + Part(t, i).size))
      BY <2>2 DEF FirstRead
    <3>3. h[i] = Returned(m[i])
      BY <1>9, <3>1, <3>2
    <3>4. r[i] = h[i]
      BY <2>2 DEF SecondRead
    <3> HIDE DEF h, r
    <3> QED BY <2>1, <3>3, <3>4 DEF Returned
  <2>3. CASE ~ Part(t, i).fix
    <3>1. Begin(t, i, s) = s[i] /\ s[i + 1] = s[i] + m[i].len
      BY <1>2, <2>3 DEF Begin, Laid
    <3>2. h[i] = Decoded(Nil, {})
      BY <1>8, <2>3 DEF FirstRead
    <3>3. r[i] = ReadOf(Part(t, i), Sub(b, s[i], s[i + 1]))
      <4>1. r[i] = IF Part(t, i).fix THEN h[i]
                   ELSE IF t.t = "seq" /\ ItemRefused(b, n, i, s[i], s[i + 1]) THEN Fault("error")
                   ELSE IF s[i] > s[i + 1] \/ s[i + 1] > Length(b) THEN Fault("panic")
                   ELSE ReadOf(Part(t, i), Sub(b, s[i], s[i + 1]))
        BY <1>7 DEF SecondRead
      <4> HIDE DEF r, h
      <4> QED BY <1>8, <2>3, <4>1
    <3>4. r[i] = Returned(m[i])
      BY <1>9, <3>1, <3>3
    <3> HIDE DEF h, r
    <3> QED BY <2>1, <3>2, <3>4 DEF Returned, Decoded
  <2> QED BY <2>2, <2>3
<1>11. Upto(h, n) /\ Upto(r, n) /\ Upto(m, n)
  BY <1>2 DEF Upto, FirstRead, SecondRead, Laid
<1>12. ReadOf(t, b) = Decode(t, P(t), b)
  <2>1. ReadOf(t, b) = UnmarshalSSZ(t, P(t), b)
    BY MethodsAre DEF ReadOf
  <2> QED BY <1>6, <2>1 DEF UnmarshalSSZ, Nests
<1>13. /\ Outcome(h) # "ok" => Decode(t, P(t), b) = Fault(Outcome(h))
       /\ Outcome(h) = "ok" /\ Outcome(r) # "ok" => Decode(t, P(t), b) = Fault(Outcome(r))
       /\ Outcome(h) = "ok" /\ Outcome(r) = "ok" => Decode(t, P(t), b) = Found(t, b, n)
  BY <1>6, DecodeIs
<1>14. Found(t, b, n) =
         [res |-> "ok", v |-> Made([i \in 1 .. n |-> r[i].v]),
          at |-> Pieces(t, r, s, ReadOffsets(t, b, n)),
          gap |-> (s[1] - FixedSize(t, n)) + SumUpTo([i \in 1 .. n |-> r[i].gap], n)]
  BY <1>7, Zenon DEF Found
<1> HIDE DEF h, r
<1>15. Outcome(h) = "ok" /\ Outcome(r) = "ok"
  BY <1>1, <1>10, <1>11, LoopIs, SMTT(30)
<1>16. [i \in 1 .. n |-> r[i].v] = of
  <2>1. [i \in 1 .. n |-> r[i].v] = [i \in 1 .. n |-> of[i]]
    BY <1>10, Zenon
  <2> QED BY <2>1, Zenon DEF Upto
<1>17. Pieces(t, r, s, ReadOffsets(t, b, n)) = Pieces(t, m, s, s)
  <2>1. \A i \in 1 .. n : ~ Part(t, i).fix => ReadOffsets(t, b, n)[i] = s[i]
    BY <1>4 DEF ReadOffsets, Told
  <2>2. \A i \in 1 .. n : r[i].at = m[i].at
    BY <1>10
  <2> DEFINE o == ReadOffsets(t, b, n)
  <2> HIDE DEF o
  <2>3. \A i \in 1 .. n : ~ Part(t, i).fix => o[i] = s[i]
    BY <2>1 DEF o
  <2>4. Pieces(t, r, s, o) = Pieces(t, m, s, s)
    BY <1>1, <1>11, <2>2, <2>3, PiecesSame
  <2> QED BY <2>4 DEF o
<1>18. (s[1] - FixedSize(t, n)) + SumUpTo([i \in 1 .. n |-> r[i].gap], n) = 0
  <2> DEFINE g == [i \in 1 .. n |-> r[i].gap]
  <2>1. \A i \in 1 .. n : g[i] = 0 /\ g[i] \in Nat
    BY <1>10
  <2> HIDE DEF g
  <2>2. SumUpTo(g, 0) = 0
    BY <1>1, <2>1, SumSteps
  <2>3. 0 \in 0 .. n /\ n \in 0 .. n /\ \A i \in 0 + 1 .. n : g[i] = 0
    BY <1>1, <2>1
  <2>4. SumUpTo(g, 0) = SumUpTo(g, n)
    BY <1>1, <2>1, <2>3, SumStays
  <2>5. s[1] = FixedSize(t, n) /\ s[1] \in Nat
    <3>1. 1 \in 1 .. n + 1
      BY <1>1
    <3> QED BY <1>2, <3>1 DEF Laid, Ascends
  <2> QED BY <2>2, <2>4, <2>5 DEF g
<1>19. ReadOf(t, b) = [res |-> "ok", v |-> Made(of), at |-> Pieces(t, m, s, s), gap |-> 0]
  BY <1>12, <1>13, <1>14, <1>15, <1>16, <1>17, <1>18
<1>20. Returned(e) = [res |-> "ok", v |-> Made(of), at |-> Pieces(t, m, s, s), gap |-> 0]
  BY <1>3 DEF Returned
<1> QED BY <1>19, <1>20 DEF e

LEMMA ReturnLawHolds ==
    \A t \in Types : ReturnLaw(t)
<1> DEFINE S == {t \in Types : ReturnLaw(t)}
<1>1. ASSUME NEW t \in Types, ~ Nests(t) PROVE t \in S
  BY <1>1, ReturnLeaf DEF ReturnLaw
<1>2. ASSUME NEW t \in Types, Nests(t),
             \A n : Count(t, n) => \A i \in 1 .. n : Part(t, i) \in S
      PROVE  t \in S
  <2>1. \A n : Count(t, n) => \A i \in 1 .. n : ReturnLaw(Part(t, i))
    BY <1>2
  <2> HIDE DEF S
  <2>2. ASSUME NEW v \in Vals(t), NEW b \in Slices, Stable(t, v), Agrees(b, WireOf(t, v))
        PROVE  ReadOf(t, b) = Returned(WireOf(t, v))
    <3> DEFINE n == Len(v.of)
    <3>1. v # Nil /\ WireOf(t, v).res = "ok" /\ WireOf(t, v).v = v /\ BitsOf(t, v)
      BY <1>2, <2>2, NotNil DEF Stable
    <3>2. Count(t, n)
      <4>1. v \in Generated[t].values
        BY DEF Vals
      <4> QED BY <1>2, <3>1, <4>1, HeldIs
    <3>3. \A i \in 1 .. n : WireLaw(Part(t, i))
      BY <1>2, <3>2, MemberTypes, WireLawHolds
    <3>4. PICK of : /\ Upto(of, n) /\ Count(t, n) /\ Settled(t, of, n)
                    /\ ~ Invalid(t, Made(of)) /\ WireOf(t, v) = Encoding(t, of)
      BY <1>2, <3>1, <3>3, Split
    <3>5. v = Made(of) /\ v.of = of
      <4>1. Encoding(t, of).v = Made(of)
        BY DEF Encoding
      <4>2. v = Made(of)
        BY <3>1, <3>4, <4>1
      <4> QED BY <4>2 DEF Made
    <3>6. \A i \in 1 .. n : BitsOf(Part(t, i), of[i])
      <4>1. BitsOf(t, v) = \A i \in 1 .. n : BitsOf(Part(t, i), v.of[i])
        BY <1>2, <3>1, NestedIs
      <4> QED BY <3>1, <3>5, <4>1
    <3> HIDE DEF n
    <3>7. Agrees(b, Encoding(t, of)) /\ \A i \in 1 .. n : ReturnLaw(Part(t, i))
      BY <2>1, <2>2, <3>2, <3>4
    <3>8. ReadOf(t, b) = Returned(Encoding(t, of))
      BY <1>2, <3>2, <3>4, <3>6, <3>7, ReturnNest
    <3> QED BY <3>4, <3>8
  <2>3. ReturnLaw(t)
    BY <2>2 DEF ReturnLaw
  <2> QED BY <2>3 DEF S
<1> HIDE DEF S
<1>3. Types \subseteq S
  BY <1>1, <1>2, MemberInduction
<1> QED BY <1>3 DEF S

(* What is sent of an encoding says what its pieces say.                   *)
LEMMA AtIs ==
    ASSUME NEW S, NEW p, NEW v, <<p, v>> \in S, \A z \in S : z[1] = p => z[2] = v, NEW else
    PROVE  At(S, p, else) = v
<1> DEFINE here == {z \in S : z[1] = p}
           c == CHOOSE z \in here : TRUE
<1>1. <<p, v>> \in here
  OBVIOUS
<1>2. c \in here
  BY <1>1
<1>3. At(S, p, else) = c[2]
  BY <1>1 DEF At
<1> HIDE DEF c
<1> QED BY <1>2, <1>3

LEMMA SaidAgrees ==
    ASSUME NEW e, e.len \in Nat, Covers(e.at, e.len), Shaped(e.at), NEW j
    PROVE  Agrees(Whole(Said(e), j), e)
<1> DEFINE b == Whole(Said(e), j)
           offs == {<<x.from, x.says>> : x \in {y \in e.at : y.kind = "offset"}}
           ends == {<<x.to, x.says>> : x \in {y \in e.at : y.kind = "bits" /\ y.from < y.to}}
<1>1. b.wire.offs = offs /\ b.wire.ends = ends /\ b.from = 0 /\ Length(b) = e.len
  BY DEF Whole, Said, Length
<1>2. \A x \in e.at : x.from \in Nat /\ x.to \in Nat /\ x.to <= e.len
  BY DEF Covers, Within
<1>3. ASSUME NEW x \in e.at, NEW y \in e.at, NEW q \in Nat, Has(x, q), Has(y, q)
      PROVE  y = x
  <2>1. q < e.len
    BY <1>2, <1>3 DEF Has
  <2>2. PICK z \in e.at : Has(z, q) /\ \A a \in e.at : Has(a, q) => a = z
    BY <2>1 DEF Covers
  <2> QED BY <1>3, <2>2
<1> HIDE DEF b, offs, ends
<1>4. ASSUME NEW x \in e.at, x.kind = "offset" PROVE ReadOffset(b, x.from) = x.says
  <2>1. <<x.from, x.says>> \in offs
    BY <1>4 DEF offs
  <2>2. ASSUME NEW z \in offs, z[1] = x.from PROVE z[2] = x.says
    <3>1. PICK y \in e.at : y.kind = "offset" /\ z = <<y.from, y.says>>
      BY DEF offs
    <3>2. y.from = x.from /\ x.to = x.from + 4 /\ y.to = y.from + 4
      BY <1>4, <2>2, <3>1 DEF Shaped
    <3>3. Has(x, x.from) /\ Has(y, x.from)
      BY <1>2, <3>2 DEF Has
    <3>4. y = x
      BY <1>2, <1>3, <3>3
    <3> QED BY <3>1, <3>4
  <2>3. \A z \in offs : z[1] = x.from => z[2] = x.says
    BY <2>2
  <2>4. At(offs, x.from, b.wire.junk) = x.says
    BY <2>1, <2>3, AtIs
  <2>5. b.from + x.from = x.from
    BY <1>1, <1>2
  <2> QED BY <1>1, <2>4, <2>5 DEF ReadOffset
<1>5. ASSUME NEW x \in e.at, x.kind = "bits", x.from < x.to
      PROVE  At(b.wire.ends, b.from + x.to, b.wire.junk % 8) = x.says
  <2>1. <<x.to, x.says>> \in ends
    BY <1>5 DEF ends
  <2>2. ASSUME NEW z \in ends, z[1] = x.to PROVE z[2] = x.says
    <3>1. PICK y \in e.at : y.kind = "bits" /\ y.from < y.to /\ z = <<y.to, y.says>>
      BY DEF ends
    <3>2. y.to = x.to
      BY <2>2, <3>1
    <3>3. x.to - 1 \in Nat /\ Has(x, x.to - 1) /\ Has(y, x.to - 1)
      BY <1>2, <1>5, <3>1, <3>2 DEF Has
    <3>4. y = x
      BY <1>3, <3>3
    <3> QED BY <3>1, <3>4
  <2>3. \A z \in ends : z[1] = x.to => z[2] = x.says
    BY <2>2
  <2>4. At(ends, x.to, b.wire.junk % 8) = x.says
    BY <2>1, <2>3, AtIs
  <2>5. b.from + x.to = x.to
    BY <1>1, <1>2
  <2> QED BY <1>1, <2>4, <2>5
<1>6. \A x \in e.at : Says(x, b)
  BY <1>4, <1>5 DEF Says
<1> QED BY <1>1, <1>6 DEF Agrees, b

---------------------------------------------------------------------------
(***************************************************************************)
(* The caller.  Between calls its object is as good as the calls that have *)
(* succeeded on it make it, and what it has sent is still the encoding of  *)
(* the object that it then was.                                            *)
(***************************************************************************)
Sound(t, o, dn, g) ==
    /\ o \in Vals(t)
    /\ "MarshalSSZ" \in dn \/ "MarshalSSZTo" \in dn \/ "UnmarshalSSZ" \in dn =>
         WireOf(t, o).res = "ok" /\ WireOf(t, o).v = o
    /\ "HashTreeRoot" \in dn => RootOf(t, o).res = "ok" /\ RootOf(t, o).v = o
    /\ "UnmarshalSSZ" \in dn => BitsOf(t, o) /\ WireOf(t, o).len = g.len - g.gap

Carried(t, w, s) ==
    w # Nothing =>
        LET e == WireOf(t, s.obj) IN
        /\ s.obj \in Vals(t) /\ e.res = "ok" /\ e.v = s.obj
        /\ e.at = s.at /\ w = Said(e)

Kept == /\ type \in DOMAIN TypeOf
        /\ Sound(TypeOf[type], obj, done, got)
        /\ Carried(TypeOf[type], wire, sent)

(* What the laws say of one object.                                        *)
LEMMA WireFacts ==
    ASSUME NEW t \in Types, NEW v \in Vals(t), WireOf(t, v).res = "ok"
    PROVE  LET w == WireOf(t, v).v IN
           /\ w \in Vals(t) /\ WireOf(t, w) = WireOf(t, v)
           /\ SizeOf(t, w) = Sized(w, WireOf(t, v).len)
           /\ RootOf(t, w).v = w
           /\ BitsOf(t, w) => RootOf(t, w).res = "ok"
           /\ WireOf(t, v).len \in Nat
           /\ Covers(WireOf(t, v).at, WireOf(t, v).len) /\ Shaped(WireOf(t, v).at)
<1>1. WireLaw(t) /\ Typed(t) /\ PieceLaw(t)
  BY WireLawHolds, TypedHolds, PieceLawHolds
<1> DEFINE w == WireOf(t, v).v
<1>2. /\ WireOf(t, w) = WireOf(t, v)
      /\ SizeOf(t, w) = Sized(w, WireOf(t, v).len)
      /\ RootOf(t, w).v = w
      /\ BitsOf(t, w) => RootOf(t, w).res = "ok"
  BY <1>1, Zenon DEF WireLaw
<1>3. w \in Vals(t) /\ WireOf(t, v).len \in Nat
  BY <1>1 DEF Typed
<1>4. Covers(WireOf(t, v).at, WireOf(t, v).len) /\ Shaped(WireOf(t, v).at)
  BY <1>1 DEF PieceLaw
<1> HIDE DEF w
<1>5. /\ w \in Vals(t) /\ WireOf(t, w) = WireOf(t, v)
      /\ SizeOf(t, w) = Sized(w, WireOf(t, v).len)
      /\ RootOf(t, w).v = w
      /\ BitsOf(t, w) => RootOf(t, w).res = "ok"
      /\ WireOf(t, v).len \in Nat
  BY <1>2, <1>3
<1> QED BY <1>4, <1>5, Zenon DEF w

LEMMA RootFacts ==
    ASSUME NEW t \in Types, NEW v \in Vals(t), RootOf(t, v).res = "ok"
    PROVE  LET w == RootOf(t, v).v IN
           /\ w \in Vals(t) /\ RootOf(t, w) = RootOf(t, v)
           /\ SizeOf(t, w).res = "ok" /\ SizeOf(t, w).v = w
           /\ WireOf(t, w).v = w
           /\ BitsOf(t, w) => WireOf(t, w).res = "ok"
<1>1. RootLaw(t) /\ Typed(t)
  BY RootLawHolds, TypedHolds
<1> DEFINE w == RootOf(t, v).v
<1>2. /\ RootOf(t, w) = RootOf(t, v)
      /\ SizeOf(t, w).res = "ok" /\ SizeOf(t, w).v = w
      /\ WireOf(t, w).v = w
      /\ BitsOf(t, w) => WireOf(t, w).res = "ok"
  BY <1>1, Zenon DEF RootLaw
<1>3. w \in Vals(t)
  BY <1>1 DEF Typed
<1> HIDE DEF w
<1>4. /\ w \in Vals(t) /\ RootOf(t, w) = RootOf(t, v)
      /\ SizeOf(t, w).res = "ok" /\ SizeOf(t, w).v = w
      /\ WireOf(t, w).v = w
      /\ BitsOf(t, w) => WireOf(t, w).res = "ok"
  BY <1>2, <1>3
<1> QED BY <1>4, Zenon DEF w

(* SizeSSZ, MarshalSSZTo, HashTreeRoot and UnmarshalSSZ, each called on an *)
(* object that dn has succeeded on.                                        *)
Marshalled(dn) == "MarshalSSZ" \in dn \/ "MarshalSSZTo" \in dn \/ "UnmarshalSSZ" \in dn

LEMMA SizeKeeps ==
    ASSUME NEW t \in Types, NEW o, NEW dn, NEW g, Sound(t, o, dn, g)
    PROVE  LET s == SizeOf(t, o) IN
           /\ Sound(t, s.v, dn, g) /\ Sound(t, s.v, dn \cup {"SizeSSZ"}, g)
           /\ Marshalled(dn) \/ "HashTreeRoot" \in dn => s.res = "ok" /\ s.v = o
<1> DEFINE s == SizeOf(t, o)
<1>1. o \in Vals(t) /\ s.v \in Vals(t)
  BY TypedHolds DEF Typed, Sound
<1>2. Marshalled(dn) \/ "HashTreeRoot" \in dn => s.res = "ok" /\ s.v = o
  <2>1. CASE Marshalled(dn)
    <3>1. WireOf(t, o).res = "ok" /\ WireOf(t, o).v = o
      BY <2>1 DEF Sound, Marshalled
    <3>2. s = Sized(o, WireOf(t, o).len)
      BY <1>1, <3>1, WireFacts
    <3> QED BY <3>2 DEF Sized
  <2>2. CASE "HashTreeRoot" \in dn
    <3>1. RootOf(t, o).res = "ok" /\ RootOf(t, o).v = o
      BY <2>2 DEF Sound
    <3> QED BY <1>1, <3>1, RootFacts
  <2> QED BY <2>1, <2>2
<1> HIDE DEF s
<1>3. Sound(t, s.v, dn, g)
  <2>1. CASE Marshalled(dn) \/ "HashTreeRoot" \in dn
    BY <1>2, <2>1
  <2>2. CASE ~ (Marshalled(dn) \/ "HashTreeRoot" \in dn)
    BY <1>1, <2>2 DEF Sound, Marshalled
  <2> QED BY <2>1, <2>2
<1>4. Sound(t, s.v, dn \cup {"SizeSSZ"}, g)
  BY <1>3 DEF Sound
<1> QED BY <1>2, <1>3, <1>4 DEF s

LEMMA WireKeeps ==
    ASSUME NEW t \in Types, NEW o, NEW dn, NEW g, Sound(t, o, dn, g)
    PROVE  LET e == WireOf(t, o) IN
           /\ Sound(t, e.v, dn, g)
           /\ e.res = "ok" =>
                /\ Sound(t, e.v, dn \cup {"MarshalSSZ"}, g) /\ Sound(t, e.v, dn \cup {"MarshalSSZTo"}, g)
                /\ Carried(t, Said(e), [obj |-> e.v, at |-> e.at])
           /\ "UnmarshalSSZ" \in dn => e.res = "ok" /\ e.len = g.len - g.gap
           /\ "HashTreeRoot" \in dn /\ BitsOf(t, e.v) => e.res = "ok"
<1> DEFINE e == WireOf(t, o)
<1>1. o \in Vals(t) /\ e.v \in Vals(t)
  BY TypedHolds DEF Typed, Sound
<1>2. Marshalled(dn) => e.res = "ok" /\ e.v = o
  BY DEF Sound, Marshalled
<1>3. ASSUME "HashTreeRoot" \in dn PROVE e.v = o /\ (BitsOf(t, e.v) => e.res = "ok")
  <2>1. RootOf(t, o).res = "ok" /\ RootOf(t, o).v = o
    BY <1>3 DEF Sound
  <2>2. WireOf(t, o).v = o /\ (BitsOf(t, o) => WireOf(t, o).res = "ok")
    BY <1>1, <2>1, RootFacts
  <2> QED BY <2>2
<1>4. e.res = "ok" => WireOf(t, e.v) = e
  BY <1>1, WireFacts
<1>5. "UnmarshalSSZ" \in dn => e.res = "ok" /\ e.len = g.len - g.gap
  BY DEF Sound
<1> HIDE DEF e
<1>6. Sound(t, e.v, dn, g)
  <2>1. CASE Marshalled(dn) \/ "HashTreeRoot" \in dn
    BY <1>2, <1>3, <2>1
  <2>2. CASE ~ (Marshalled(dn) \/ "HashTreeRoot" \in dn)
    BY <1>1, <2>2 DEF Sound, Marshalled
  <2> QED BY <2>1, <2>2
<1>7. ASSUME e.res = "ok"
      PROVE  /\ Sound(t, e.v, dn \cup {"MarshalSSZ"}, g) /\ Sound(t, e.v, dn \cup {"MarshalSSZTo"}, g)
             /\ Carried(t, Said(e), [obj |-> e.v, at |-> e.at])
  <2>1. WireOf(t, e.v).res = "ok" /\ WireOf(t, e.v).v = e.v
    BY <1>4, <1>7
  <2>2. Sound(t, e.v, dn \cup {"MarshalSSZ"}, g) /\ Sound(t, e.v, dn \cup {"MarshalSSZTo"}, g)
    BY <1>6, <2>1 DEF Sound
  <2>3. Carried(t, Said(e), [obj |-> e.v, at |-> e.at])
    BY <1>1, <1>4, <1>7, <2>1 DEF Carried
  <2> QED BY <2>2, <2>3
<1> QED BY <1>3, <1>5, <1>6, <1>7 DEF e

LEMMA RootKeeps ==
    ASSUME NEW t \in Types, NEW o, NEW dn, NEW g, Sound(t, o, dn, g)
    PROVE  LET h == RootOf(t, o) IN
           /\ Sound(t, h.v, dn, g)
           /\ h.res = "ok" => Sound(t, h.v, dn \cup {"HashTreeRoot"}, g)
           /\ Marshalled(dn) => h.v = o
           /\ Marshalled(dn) /\ BitsOf(t, h.v) => h.res = "ok"
<1> DEFINE h == RootOf(t, o)
<1>1. o \in Vals(t) /\ h.v \in Vals(t)
  BY TypedHolds DEF Typed, Sound
<1>2. ASSUME Marshalled(dn) PROVE h.v = o /\ (BitsOf(t, h.v) => h.res = "ok")
  <2>1. WireOf(t, o).res = "ok" /\ WireOf(t, o).v = o
    BY <1>2 DEF Sound, Marshalled
  <2>2. RootOf(t, o).v = o /\ (BitsOf(t, o) => RootOf(t, o).res = "ok")
    BY <1>1, <2>1, WireFacts
  <2> QED BY <2>2
<1>3. "HashTreeRoot" \in dn => h.v = o
  BY DEF Sound
<1>4. h.res = "ok" => RootOf(t, h.v) = h
  BY <1>1, RootFacts
<1> HIDE DEF h
<1>5. Sound(t, h.v, dn, g)
  <2>1. CASE Marshalled(dn) \/ "HashTreeRoot" \in dn
    BY <1>2, <1>3, <2>1
  <2>2. CASE ~ (Marshalled(dn) \/ "HashTreeRoot" \in dn)
    BY <1>1, <2>2 DEF Sound, Marshalled
  <2> QED BY <2>1, <2>2
<1>6. ASSUME h.res = "ok" PROVE Sound(t, h.v, dn \cup {"HashTreeRoot"}, g)
  <2>1. RootOf(t, h.v).res = "ok" /\ RootOf(t, h.v).v = h.v
    BY <1>4, <1>6
  <2> QED BY <1>5, <2>1 DEF Sound
<1> QED BY <1>2, <1>5, <1>6 DEF h

LEMMA ReadKeeps ==
    ASSUME NEW t \in Types, t.t = "struct", NEW w, NEW j, Whole(w, j) \in Slices
    PROVE  LET d == ReadOf(t, Whole(w, j)) IN
           /\ d.res \in {"ok", "error"}
           /\ d.res = "ok" =>
                /\ Sound(t, d.v, {"UnmarshalSSZ"}, [at |-> d.at, len |-> w.len, gap |-> d.gap])
                /\ Covers(d.at, w.len)
<1> DEFINE b == Whole(w, j)
           d == ReadOf(t, b)
<1>1. Length(b) = w.len /\ w.len \in Nat
  <2>1. b.from = 0 /\ b.to = w.len
    BY DEF Whole
  <2>2. b.to \in Nat
    BY SliceFacts
  <2> HIDE DEF b
  <2> QED BY <2>1, <2>2 DEF Length
<1> HIDE DEF b
<1>2. b \in Slices
  BY DEF b
<1>3. Reads(t, b)
  BY <1>1, <1>2, ReadLawHolds DEF ReadLaw, Fits
<1>4. d.res \in {"ok", "error"} /\ (d.res = "ok" => Yields(t, w.len, d))
  BY <1>1, <1>3 DEF Reads
<1> HIDE DEF d
<1>5. ASSUME d.res = "ok"
      PROVE  /\ Sound(t, d.v, {"UnmarshalSSZ"}, [at |-> d.at, len |-> w.len, gap |-> d.gap])
             /\ Covers(d.at, w.len)
  <2>1. /\ d.v \in Vals(t) /\ WireOf(t, d.v).res = "ok" /\ WireOf(t, d.v).v = d.v
        /\ BitsOf(t, d.v) /\ d.gap \in Nat /\ w.len = WireOf(t, d.v).len + d.gap
        /\ Covers(d.at, w.len)
    BY <1>4, <1>5 DEF Yields
  <2>2. WireOf(t, d.v).len \in Nat
    BY <2>1, WireFacts
  <2>3. WireOf(t, d.v).len = w.len - d.gap
    BY <2>1, <2>2
  <2> QED BY <2>1, <2>3 DEF Sound
<1> QED BY <1>4, <1>5 DEF d, b

(* What was sent is received as it was.                                    *)
LEMMA SentReturns ==
    ASSUME NEW t \in Types, NEW w, NEW s, w # Nothing, Carried(t, w, s), BitsOf(t, s.obj),
           NEW j, Whole(w, j) \in Slices
    PROVE  /\ ReadOf(t, Whole(w, j)) = [res |-> "ok", v |-> s.obj, at |-> s.at, gap |-> 0]
           /\ w.len = SizeOf(t, s.obj).size
<1> DEFINE e == WireOf(t, s.obj)
<1>1. s.obj \in Vals(t) /\ e.res = "ok" /\ e.v = s.obj /\ e.at = s.at /\ w = Said(e)
  BY DEF Carried
<1>2. /\ SizeOf(t, s.obj) = Sized(s.obj, e.len) /\ e.len \in Nat
      /\ Covers(e.at, e.len) /\ Shaped(e.at)
  BY <1>1, WireFacts
<1>3. Stable(t, s.obj) /\ ReturnLaw(t)
  BY <1>1, ReturnLawHolds DEF Stable
<1> HIDE DEF e
<1>4. Agrees(Whole(Said(e), j), e)
  BY <1>2, SaidAgrees
<1>5. ReadOf(t, Whole(w, j)) = Returned(e)
  BY <1>1, <1>3, <1>4 DEF ReturnLaw, e
<1>6. w.len = e.len
  BY <1>1 DEF Said
<1> QED BY <1>1, <1>2, <1>5, <1>6 DEF Returned, Sized

---------------------------------------------------------------------------
(* The inductive invariant: what is kept between calls, and what the       *)
(* properties say of the last of them.                                     *)
IInv == Kept /\ RoundTrip /\ InputPartitioned /\ DecodedIsUsable /\ HashAgreesWithMarshal

LEMMA CallerIs ==
    ASSUME NEW n \in DOMAIN TypeOf
    PROVE  TypeOf[n] \in Types /\ TypeOf[n].t = "struct" /\ MethodsOf[n] = Generated[TypeOf[n]]
BY CallerAssumption DEF MethodsOf, MethodsFor

LEMMA InitKeeps ==
    ASSUME Init
    PROVE  IInv
<1>1. type \in DOMAIN TypeOf /\ obj \in T.values
  BY CallerAssumption DEF Init
<1>2. T = Generated[TypeOf[type]]
  BY <1>1, CallerIs DEF T
<1>3. done = {} /\ wire = Nothing /\ call = "none" /\ result = "ok"
  BY DEF Init
<1>4. Sound(TypeOf[type], obj, done, got) /\ Carried(TypeOf[type], wire, sent)
  BY <1>1, <1>2, <1>3 DEF Sound, Carried, Vals
<1>5. RoundTrip /\ InputPartitioned /\ DecodedIsUsable /\ HashAgreesWithMarshal
  BY <1>3 DEF RoundTrip, InputPartitioned, DecodedIsUsable, HashAgreesWithMarshal
<1> QED BY <1>1, <1>4, <1>5 DEF IInv, Kept

(* Any call leaves the type; those but UnmarshalSSZ leave what has been    *)
(* decoded.                                                                *)
LEMMA SizeSSZKeeps ==
    ASSUME IInv, CallSizeSSZ
    PROVE  IInv'
<1> DEFINE ty == TypeOf[type]
           s == SizeOf(ty, obj)
<1>1. type \in DOMAIN TypeOf /\ ty \in Types /\ T = Generated[ty]
  BY CallerIs DEF IInv, Kept, T
<1>2. /\ Sound(ty, obj, done, got) /\ Carried(ty, wire, sent)
  BY DEF IInv, Kept
<1>3. /\ type' = type /\ call' = "SizeSSZ" /\ result' = s.res /\ obj' = s.v
      /\ done' = IF s.res = "ok" THEN done \cup {"SizeSSZ"} ELSE done
      /\ wire' = wire /\ sent' = sent /\ input' = input /\ got' = got
  BY <1>1 DEF CallSizeSSZ, Call, Returns, Done, SizeOf
<1>4. /\ Sound(ty, s.v, done, got) /\ Sound(ty, s.v, done \cup {"SizeSSZ"}, got)
      /\ Marshalled(done) => s.res = "ok"
  BY <1>1, <1>2, SizeKeeps
<1> HIDE DEF s, ty
<1>5. Kept'
  <2>1. Sound(ty, obj', done', got')
    BY <1>3, <1>4
  <2>2. Carried(ty, wire', sent')
    BY <1>2, <1>3
  <2> QED BY <1>1, <1>3, <2>1, <2>2 DEF Kept, ty
<1>6. RoundTrip' /\ InputPartitioned' /\ HashAgreesWithMarshal'
  BY <1>3 DEF RoundTrip, InputPartitioned, HashAgreesWithMarshal
<1>7. DecodedIsUsable'
  BY <1>3, <1>4 DEF DecodedIsUsable, Marshalled
<1> QED BY <1>5, <1>6, <1>7 DEF IInv

LEMMA HashTreeRootKeeps ==
    ASSUME IInv, CallHashTreeRoot
    PROVE  IInv'
<1> DEFINE ty == TypeOf[type]
           h == RootOf(ty, obj)
<1>1. type \in DOMAIN TypeOf /\ ty \in Types /\ T = Generated[ty]
  BY CallerIs DEF IInv, Kept, T
<1>2. /\ Sound(ty, obj, done, got) /\ Carried(ty, wire, sent)
  BY DEF IInv, Kept
<1>3. /\ type' = type /\ call' = "HashTreeRoot" /\ result' = h.res /\ obj' = h.v
      /\ done' = IF h.res = "ok" THEN done \cup {"HashTreeRoot"} ELSE done
      /\ wire' = wire /\ sent' = sent /\ input' = input /\ got' = got
  BY <1>1 DEF CallHashTreeRoot, Call, Returns, Done, RootOf
<1>4. /\ Sound(ty, h.v, done, got)
      /\ h.res = "ok" => Sound(ty, h.v, done \cup {"HashTreeRoot"}, got)
      /\ Marshalled(done) /\ BitsOf(ty, h.v) => h.res = "ok"
      /\ Marshalled(done) => h.v = obj
  BY <1>1, <1>2, RootKeeps
<1>5. "UnmarshalSSZ" \in done => h.res = "ok"
  BY <1>2, <1>4 DEF Sound, Marshalled
<1>6. T' = Generated[ty]
  BY <1>1, <1>3, CallerIs DEF T
<1> HIDE DEF h, ty
<1>7. Kept'
  <2>1. Sound(ty, obj', done', got')
    BY <1>3, <1>4
  <2>2. Carried(ty, wire', sent')
    BY <1>2, <1>3
  <2> QED BY <1>1, <1>3, <2>1, <2>2 DEF Kept, ty
<1>8. RoundTrip' /\ InputPartitioned'
  BY <1>3 DEF RoundTrip, InputPartitioned
<1>9. DecodedIsUsable'
  BY <1>3, <1>5 DEF DecodedIsUsable
<1>10. HashAgreesWithMarshal'
  <2>1. ASSUME T'.ValidBitlists[obj'], done' \cap {"MarshalSSZ", "MarshalSSZTo"} # {}
        PROVE  result' = "ok"
    <3>1. BitsOf(ty, h.v)
      BY <1>3, <1>6, <2>1 DEF BitsOf
    <3>2. Marshalled(done)
      BY <1>3, <2>1 DEF Marshalled
    <3> QED BY <1>3, <1>4, <3>1, <3>2
  <2> QED BY <1>3, <2>1 DEF HashAgreesWithMarshal
<1> QED BY <1>7, <1>8, <1>9, <1>10 DEF IInv

(* MarshalSSZTo of an object o as good as the caller's, named name.        *)
LEMMA MarshalKeeps ==
    ASSUME type \in DOMAIN TypeOf, NEW o, Sound(TypeOf[type], o, done, got),
           Carried(TypeOf[type], wire, sent),
           NEW name \in {"MarshalSSZ", "MarshalSSZTo"}, type' = type, call' = name,
           Writes(T.MarshalSSZTo[o])
    PROVE  IInv'
<1> DEFINE ty == TypeOf[type]
           e == WireOf(ty, o)
<1>1. ty \in Types /\ T = Generated[ty]
  BY CallerIs DEF T
<1>2. /\ result' = e.res /\ obj' = e.v
      /\ done' = IF e.res = "ok" THEN done \cup {name} ELSE done
      /\ IF e.res = "ok" THEN wire' = Said(e) /\ sent' = [obj |-> e.v, at |-> e.at]
                         ELSE wire' = wire /\ sent' = sent
      /\ input' = input /\ got' = got
  BY <1>1 DEF Writes, Returns, Done, WireOf
<1>3. /\ Sound(ty, e.v, done, got)
      /\ e.res = "ok" =>
           /\ Sound(ty, e.v, done \cup {"MarshalSSZ"}, got)
           /\ Sound(ty, e.v, done \cup {"MarshalSSZTo"}, got)
           /\ Carried(ty, Said(e), [obj |-> e.v, at |-> e.at])
      /\ "UnmarshalSSZ" \in done => e.res = "ok" /\ e.len = got.len - got.gap
      /\ "HashTreeRoot" \in done /\ BitsOf(ty, e.v) => e.res = "ok"
  BY <1>1, WireKeeps
<1>4. T' = Generated[ty]
  BY <1>1, CallerIs DEF T
<1> HIDE DEF e, ty
<1>5. Kept'
  <2>1. Sound(ty, obj', done', got')
    BY <1>2, <1>3
  <2>2. Carried(ty, wire', sent')
    BY <1>2, <1>3 DEF ty
  <2> QED BY <2>1, <2>2 DEF Kept, ty
<1>6. RoundTrip' /\ InputPartitioned'
  BY DEF RoundTrip, InputPartitioned
<1>7. DecodedIsUsable'
  <2>1. ASSUME "UnmarshalSSZ" \in done'
        PROVE  result' = "ok" /\ wire'.len = got'.len - got'.gap
    <3>1. "UnmarshalSSZ" \in done
      BY <1>2, <2>1
    <3>2. e.res = "ok" /\ e.len = got.len - got.gap
      BY <1>3, <3>1
    <3> QED BY <1>2, <3>2 DEF Said
  <2> QED BY <2>1 DEF DecodedIsUsable
<1>8. HashAgreesWithMarshal'
  <2>1. ASSUME T'.ValidBitlists[obj'], "HashTreeRoot" \in done'
        PROVE  result' = "ok"
    <3>1. BitsOf(ty, e.v)
      BY <1>2, <1>4, <2>1 DEF BitsOf
    <3>2. "HashTreeRoot" \in done
      BY <1>2, <2>1
    <3> QED BY <1>2, <1>3, <3>1, <3>2
  <2> QED BY <2>1 DEF HashAgreesWithMarshal
<1> QED BY <1>5, <1>6, <1>7, <1>8 DEF IInv

LEMMA MarshalSSZToKeeps ==
    ASSUME IInv, CallMarshalSSZTo
    PROVE  IInv'
<1>1. type' = type /\ call' = "MarshalSSZTo" /\ Writes(T.MarshalSSZTo[obj])
  BY DEF CallMarshalSSZTo, Call
<1>2. /\ type \in DOMAIN TypeOf /\ Sound(TypeOf[type], obj, done, got)
      /\ Carried(TypeOf[type], wire, sent)
  BY DEF IInv, Kept
<1> QED BY <1>1, <1>2, MarshalKeeps

LEMMA MarshalSSZKeeps ==
    ASSUME IInv, CallMarshalSSZ
    PROVE  IInv'
<1> DEFINE ty == TypeOf[type]
           s == SizeOf(ty, obj)
<1>1. type \in DOMAIN TypeOf /\ ty \in Types /\ T = Generated[ty]
  BY CallerIs DEF IInv, Kept, T
<1>2. /\ Sound(ty, obj, done, got) /\ Carried(ty, wire, sent)
  BY DEF IInv, Kept
<1>3. /\ type' = type /\ call' = "MarshalSSZ"
      /\ s.res # "ok" => /\ Done(s.res) /\ obj' = s.v
                         /\ wire' = wire /\ sent' = sent /\ input' = input /\ got' = got
      /\ s.res = "ok" => Writes(T.MarshalSSZTo[s.v])
  BY <1>1 DEF CallMarshalSSZ, Call, MarshalSized, Returns, SizeOf
<1>4. /\ Sound(ty, s.v, done, got)
      /\ Marshalled(done) \/ "HashTreeRoot" \in done => s.res = "ok"
  BY <1>1, <1>2, SizeKeeps
<1> HIDE DEF s
<1>5. CASE s.res = "ok"
  BY <1>1, <1>2, <1>3, <1>4, <1>5, MarshalKeeps
<1>6. CASE s.res # "ok"
  <2>1. result' = s.res /\ done' = done /\ ~ Marshalled(done) /\ "HashTreeRoot" \notin done
    BY <1>3, <1>4, <1>6 DEF Done
  <2> HIDE DEF ty
  <2>2. Kept'
    <3>1. Sound(ty, obj', done', got')
      BY <1>3, <1>4, <1>6, <2>1
    <3>2. Carried(ty, wire', sent')
      BY <1>2, <1>3, <1>6
    <3> QED BY <1>1, <1>3, <3>1, <3>2 DEF Kept, ty
  <2>3. RoundTrip' /\ InputPartitioned' /\ DecodedIsUsable' /\ HashAgreesWithMarshal'
    BY <1>3, <2>1 DEF RoundTrip, InputPartitioned, DecodedIsUsable, HashAgreesWithMarshal, Marshalled
  <2> QED BY <2>2, <2>3 DEF IInv
<1> QED BY <1>5, <1>6

(* Pieces that cover the bytes partition them.                             *)
LEMMA CoversHere ==
    ASSUME NEW at, NEW n, Covers(at, n)
    PROVE  /\ \A x \in at : 0 <= x.from /\ x.from <= x.to /\ x.to <= n
           /\ \A p \in Ends(at) \cup {0} : p < n => Cardinality(Here(at, p)) = 1
<1>1. \A x \in at : x.from \in Nat /\ x.to \in Nat /\ x.from <= x.to /\ x.to <= n
  BY DEF Covers, Within
<1>2. Ends(at) \cup {0} \subseteq Nat
  BY <1>1 DEF Ends
<1>3. ASSUME NEW p \in Nat, p < n PROVE Cardinality(Here(at, p)) = 1
  <2>1. PICK x \in at : Has(x, p) /\ \A y \in at : Has(y, p) => y = x
    BY <1>3 DEF Covers
  <2>2. Here(at, p) = {x}
    BY <2>1 DEF Here, Has
  <2> QED BY <2>2, FS_Singleton
<1> QED BY <1>1, <1>2, <1>3

LEMMA UnmarshalSSZKeeps ==
    ASSUME IInv, CallUnmarshalSSZ
    PROVE  IInv'
<1> DEFINE ty == TypeOf[type]
<1>1. /\ type \in DOMAIN TypeOf /\ ty \in Types /\ ty.t = "struct" /\ T = Generated[ty]
      /\ type' = type /\ T' = Generated[ty]
  BY CallerIs DEF IInv, Kept, T, CallUnmarshalSSZ, Call
<1>2. Sound(ty, obj, done, got) /\ Carried(ty, wire, sent)
  BY DEF IInv, Kept
<1>3. PICK w, j :
        LET d == ReadOf(ty, Whole(w, j)) IN
        /\ Whole(w, j) \in Slices /\ result' = d.res /\ input' = w
        /\ IF d.res = "ok" THEN /\ obj' = d.v /\ done' = {"UnmarshalSSZ"}
                                /\ got' = [at |-> d.at, len |-> w.len, gap |-> d.gap]
                           ELSE obj' = obj /\ got' = got /\ done' = done
  BY <1>1 DEF CallUnmarshalSSZ, Receives, ReadOf
<1> DEFINE d == ReadOf(ty, Whole(w, j))
<1>4. /\ Whole(w, j) \in Slices /\ result' = d.res /\ input' = w
      /\ d.res = "ok" => /\ obj' = d.v /\ done' = {"UnmarshalSSZ"}
                         /\ got' = [at |-> d.at, len |-> w.len, gap |-> d.gap]
      /\ d.res # "ok" => obj' = obj /\ got' = got /\ done' = done
  BY <1>3
<1>5. call' = "UnmarshalSSZ" /\ wire # Nothing /\ wire' = wire /\ sent' = sent
  BY DEF CallUnmarshalSSZ, Call
<1>6. /\ d.res \in {"ok", "error"}
      /\ d.res = "ok" => /\ Sound(ty, d.v, {"UnmarshalSSZ"}, [at |-> d.at, len |-> w.len, gap |-> d.gap])
                         /\ Covers(d.at, w.len)
  BY <1>1, <1>4, ReadKeeps
<1>7. ASSUME w = wire, BitsOf(ty, sent.obj)
      PROVE  /\ d = [res |-> "ok", v |-> sent.obj, at |-> sent.at, gap |-> 0]
             /\ wire.len = SizeOf(ty, sent.obj).size
  BY <1>1, <1>2, <1>4, <1>5, <1>7, SentReturns
<1> HIDE DEF d, ty
<1>8. Kept'
  <2>1. Sound(ty, obj', done', got')
    BY <1>2, <1>4, <1>6
  <2>2. Carried(ty, wire', sent')
    BY <1>2, <1>5
  <2> QED BY <1>1, <2>1, <2>2 DEF Kept, ty
<1>9. RoundTrip'
  <2>1. ASSUME w = wire, T'.ValidBitlists[sent.obj]
        PROVE  /\ result' = "ok" /\ obj' = sent.obj /\ got'.at = sent.at /\ got'.gap = 0
               /\ wire.len = T'.SizeSSZ[sent.obj].size
    <3>1. BitsOf(ty, sent.obj)
      BY <1>1, <2>1 DEF BitsOf
    <3>2. /\ d.res = "ok" /\ d.v = sent.obj /\ d.at = sent.at /\ d.gap = 0
          /\ wire.len = SizeOf(ty, sent.obj).size
      BY <1>7, <2>1, <3>1
    <3> QED BY <1>1, <1>4, <3>2 DEF SizeOf
  <2> QED BY <1>4, <1>5, <2>1 DEF RoundTrip
<1>10. InputPartitioned'
  <2>1. result' # "panic"
    BY <1>4, <1>6
  <2>2. ASSUME result' = "ok"
        PROVE  Covers(got'.at, input'.len)
    BY <1>4, <1>6, <2>2
  <2>3. ASSUME result' = "ok"
        PROVE  /\ \A x \in got'.at : 0 <= x.from /\ x.from <= x.to /\ x.to <= input'.len
               /\ \A p \in Ends(got'.at) \cup {0} :
                    p < input'.len => Cardinality(Here(got'.at, p)) = 1
    BY <2>2, <2>3, CoversHere
  <2>4. (Ends(got.at))' = Ends(got'.at) /\ \A p : (Here(got.at, p))' = Here(got'.at, p)
    BY DEF Ends, Here
  <2> QED BY <2>1, <2>3, <2>4 DEF InputPartitioned
<1>11. DecodedIsUsable' /\ HashAgreesWithMarshal'
  BY <1>4, <1>5, <1>6 DEF DecodedIsUsable, HashAgreesWithMarshal
<1> QED BY <1>8, <1>9, <1>10, <1>11 DEF IInv

LEMMA StutterKeeps ==
    ASSUME IInv, UNCHANGED vars
    PROVE  IInv'
BY DEF vars, IInv, Kept, Sound, Carried, RoundTrip, InputPartitioned, DecodedIsUsable,
       HashAgreesWithMarshal, T, Ends, Here

---------------------------------------------------------------------------
(* A caller's object is always as good as the calls that have succeeded on *)
(* it make it, whatever calls it makes of the generated methods and        *)
(* whatever bytes it hands to UnmarshalSSZ.                                *)
THEOREM KeptAlways ==
    Spec => []IInv
<1>1. Init => IInv
  BY InitKeeps
<1>2. IInv /\ [Next]_vars => IInv'
  BY SizeSSZKeeps, HashTreeRootKeeps, MarshalSSZToKeeps, MarshalSSZKeeps, UnmarshalSSZKeeps,
     StutterKeeps DEF Next, Stop
<1> QED BY <1>1, <1>2, PTL DEF Spec

(* The generated SizeSSZ, MarshalSSZTo and UnmarshalSSZ of a type carry    *)
(* its layout separately, and agree about it: what an object was           *)
(* marshalled to has the length SizeSSZ returns, and is read with nothing  *)
(* skipped, every field found where it was written, with its value.        *)
THEOREM RoundTripAlways ==
    Spec => []RoundTrip
<1>1. IInv => RoundTrip
  BY DEF IInv
<1> QED BY <1>1, KeptAlways, PTL

(* Whatever bytes the generated UnmarshalSSZ is given, it does not slice   *)
(* out of their range, reads no byte as part of two fields, and leaves     *)
(* none unread but in the gap before the first offset.                     *)
THEOREM InputPartitionedAlways ==
    Spec => []InputPartitioned
<1>1. IInv => InputPartitioned
  BY DEF IInv
<1> QED BY <1>1, KeptAlways, PTL

(* What the generated UnmarshalSSZ accepts, SizeSSZ, MarshalSSZTo and      *)
(* HashTreeRoot accept, and the object is marshalled to what was read.     *)
THEOREM DecodedIsUsableAlways ==
    Spec => []DecodedIsUsable
<1>1. IInv => DecodedIsUsable
  BY DEF IInv
<1> QED BY <1>1, KeptAlways, PTL

(* The generated MarshalSSZTo and HashTreeRoot check an object separately, *)
(* and refuse the same ones, but for bitlists, whose bits only hashing     *)
(* counts.                                                                 *)
THEOREM HashAgreesWithMarshalAlways ==
    Spec => []HashAgreesWithMarshal
<1>1. IInv => HashAgreesWithMarshal
  BY DEF IInv
<1> QED BY <1>1, KeptAlways, PTL
===========================================================================
