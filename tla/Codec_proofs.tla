---------------------------- MODULE Codec_proofs --------------------------
(***************************************************************************)
(* For every struct type, object and string of bytes:                      *)
(*   - UnmarshalSSZ and UnmarshalDynamic never panic, MarshalSSZ neither,  *)
(*     and MarshalSSZTo only when the last variable field is a nil child;  *)
(*   - SizeSSZ is the length of what is marshalled;                        *)
(*   - what is marshalled is decoded to what it was, into a used object to *)
(*     what it was but for bytes in front of it, as far as an offset of    *)
(*     four bytes reaches;                                                 *)
(*   - what is decoded can be marshalled, if every bitlist may hold a bit, *)
(*     and to the bytes it was decoded from but for three freedoms.        *)
(***************************************************************************)
EXTENDS Codec, Induction

TailsBefore(k) == {i \in Tails(fields) : i < k}

(* The struct is one of the instances', and obj has its fields.            *)
StructInv ==
    /\ fields \in {x.fields : x \in Instances}
    /\ DOMAIN obj = DOMAIN fields
    /\ pc \in 1 .. Len(fields) + 1
    /\ input \in Seq(Byte)

PhaseInv ==
    /\ phase \in {"head", "tail"} => Marshalling
    /\ phase \in {"fields", "dynamic", "items"} => call = "UnmarshalSSZ"
    /\ phase # "idle" => result = "none"

(* The offsets read so far are in order and within the input.              *)
OffsetsInv ==
    /\ offs \in Seq(Nat)
    /\ \A i \in 1 .. Len(offs) : offs[i] <= Len(input)
    /\ \A i \in 1 .. Len(offs) - 1 : offs[i] <= offs[i + 1]
    /\ phase = "fields" => /\ FixedLen(fields) <= Len(input)
                           /\ Len(offs) = Cardinality(TailsBefore(pc))
    /\ phase \in {"dynamic", "items"} => Len(offs) = Cardinality(Tails(fields))

(* Each variable field begun has taken one of them.                        *)
AtInv ==
    /\ phase = "fields"  => at = 0
    /\ phase = "dynamic" => at = Cardinality(TailsBefore(pc))
    /\ phase = "items"   => /\ pc \in Tails(fields)
                            /\ at = Cardinality(TailsBefore(pc)) + 1

ItemsInv ==
    phase = "items" => /\ items.src \in Seq(Byte)
                       /\ items.left \in Nat \ {0}
                       /\ items.start \in Nat
                       /\ items.pos \in Nat

(* Which children have been created.                                       *)
Present(i) == fields[i].kind = "child" => obj[i] # << >>
ChildInv ==
    /\ call = "MarshalSSZ" /\ phase \in {"head", "tail"} =>
         \A i \in DOMAIN fields : Present(i)
    /\ phase = "head" => \A i \in 1 .. pc - 1 : Present(i) \/ IsLastTail(i)
    /\ phase = "tail" => \A i \in DOMAIN fields : Present(i) \/ IsLastTail(i)

IInv == /\ StructInv /\ PhaseInv /\ OffsetsInv /\ AtInv /\ ItemsInv /\ ChildInv
        /\ UnmarshalNeverPanics /\ PanicOnlyAtLastNilChild

---------------------------------------------------------------------------
(* The positions in the fixed part follow one another, and none is beyond  *)
(* its end.                                                                *)
LEMMA LayoutFacts ==
    ASSUME NEW fs \in Seq(Fields)
    PROVE  /\ HeadOffset(fs, 1) = 0
           /\ FixedLen(fs) \in Nat
           /\ \A k \in DOMAIN fs :
                /\ HeadOffset(fs, k) \in Nat
                /\ HeadOffset(fs, k + 1) = HeadOffset(fs, k) + Width(fs[k])
                /\ HeadOffset(fs, k + 1) <= FixedLen(fs)
  <1> DEFINE n == Len(fs)
             g == [i \in DOMAIN fs |-> Width(fs[i])]
  <1>1. n \in Nat /\ DOMAIN fs = 1 .. n
    OBVIOUS
  <1>2. \A i \in 1 .. n : g[i] = Width(fs[i]) /\ g[i] \in Nat
    <2> TAKE i \in 1 .. n
    <2>1. fs[i] \in Fields
      OBVIOUS
    <2>2. fs[i].size \in Nat
      BY <2>1 DEF Fields
    <2> QED BY <1>1, <2>2 DEF Width
  <1>3. \A k : HeadOffset(fs, k) = SumUpTo(g, k - 1)
    BY DEF HeadOffset
  <1>4. FixedLen(fs) = SumUpTo(g, n)
    <2>1. (n + 1) - 1 = n
      BY <1>1
    <2> QED BY <1>3, <2>1 DEF FixedLen
  <1> HIDE DEF g, n
  <1>5. /\ SumUpTo(g, 0) = 0
        /\ \A k \in 0 .. n : SumUpTo(g, k) \in Nat
        /\ \A k \in 1 .. n : SumUpTo(g, k) = SumUpTo(g, k - 1) + g[k]
        /\ \A j, k \in 0 .. n : j <= k => SumUpTo(g, j) <= SumUpTo(g, k)
    BY <1>1, <1>2, SumSteps, SumGrows
  <1>6. ASSUME NEW k \in 1 .. n
        PROVE  /\ HeadOffset(fs, k) \in Nat
               /\ HeadOffset(fs, k + 1) = HeadOffset(fs, k) + Width(fs[k])
               /\ HeadOffset(fs, k + 1) <= FixedLen(fs)
    <2>1. k - 1 \in 0 .. n /\ k \in 0 .. n /\ n \in 0 .. n /\ k <= n /\ (k + 1) - 1 = k
      BY <1>1
    <2>2. HeadOffset(fs, k) = SumUpTo(g, k - 1) /\ HeadOffset(fs, k + 1) = SumUpTo(g, k)
      BY <1>3, <2>1
    <2> QED BY <1>2, <1>4, <1>5, <2>1, <2>2
  <1>7. HeadOffset(fs, 1) = 0 /\ FixedLen(fs) \in Nat
    <2>1. n \in 0 .. n /\ 1 - 1 = 0
      BY <1>1
    <2> QED BY <1>3, <1>4, <1>5, <2>1
  <1> QED BY <1>1, <1>6, <1>7

(* Two offsets of a struct's fixed part hold a number.                     *)
LEMMA ReadOffsetNat ==
    ASSUME NEW b \in Seq(Byte), Len(b) >= 4
    PROVE  ReadOffset(b) \in Nat
  <1>1. Len(b) \in Nat /\ \A i \in 1 .. Len(b) : b[i] \in Byte
    OBVIOUS
  <1>2. 1 \in 1 .. Len(b) /\ 2 \in 1 .. Len(b) /\ 3 \in 1 .. Len(b) /\ 4 \in 1 .. Len(b)
    BY <1>1
  <1>3. Byte \subseteq Nat
    BY DEF Byte
  <1>4. b[1] \in Nat /\ b[2] \in Nat /\ b[3] \in Nat /\ b[4] \in Nat
    BY <1>1, <1>2, <1>3
  <1> DEFINE w == b[1]  x == b[2]  y == b[3]  z == b[4]
  <1>5. ReadOffset(b) = w + 256 * x + 65536 * y + 16777216 * z
    BY DEF ReadOffset
  <1>6. w \in Nat /\ x \in Nat /\ y \in Nat /\ z \in Nat
    BY <1>4
  <1> HIDE DEF w, x, y, z
  <1>7. w + 256 * x + 65536 * y + 16777216 * z \in Nat
    BY <1>6
  <1> QED BY <1>5, <1>7

(* A slice within bounds is a string of bytes of the right length.         *)
LEMMA SliceBytes ==
    ASSUME NEW s \in Seq(Byte), NEW from \in Nat, NEW to \in Nat, CanSlice(s, from, to)
    PROVE  Slice(s, from, to) \in Seq(Byte) /\ Len(Slice(s, from, to)) = to - from
  <1>1. /\ from + 1 \in 1 .. Len(s) + 1 /\ to \in from .. Len(s)
    BY DEF CanSlice
  <1>2. \A i \in from + 1 .. to : s[i] \in Byte
    BY <1>1
  <1> QED BY <1>1, <1>2, SubSeqProperties DEF Slice

(* What a struct of the instances has.                                     *)
LEMMA StructFacts ==
    ASSUME StructInv
    PROVE  /\ fields \in Seq(Fields)
           /\ Len(fields) \in Nat /\ DOMAIN fields = 1 .. Len(fields)
           /\ IsFiniteSet(Tails(fields)) /\ Tails(fields) \subseteq DOMAIN fields
           /\ FixedLen(fields) \in Nat
           /\ \A k \in DOMAIN fields :
                /\ HeadOffset(fields, k) \in Nat
                /\ HeadOffset(fields, k + 1) = HeadOffset(fields, k) + Width(fields[k])
                /\ HeadOffset(fields, k + 1) <= FixedLen(fields)
  <1>1. PICK x \in Instances : fields = x.fields
    BY DEF StructInv
  <1>2. fields \in Seq(Fields)
    BY <1>1, InstancesAssumption
  <1>3. Len(fields) \in Nat /\ DOMAIN fields = 1 .. Len(fields)
    BY <1>2
  <1>4. IsFiniteSet(1 .. Len(fields))
    BY <1>3, FS_Interval
  <1>5. Tails(fields) \subseteq DOMAIN fields
    BY DEF Tails
  <1>6. IsFiniteSet(Tails(fields))
    BY <1>3, <1>4, <1>5, FS_Subset
  <1> QED BY <1>2, <1>3, <1>5, <1>6, LayoutFacts

(* Counting the variable fields before a position.                         *)
LEMMA TailCount ==
    ASSUME StructInv, NEW k \in DOMAIN fields
    PROVE  /\ Cardinality(TailsBefore(k)) \in Nat
           /\ k \notin Tails(fields) => TailsBefore(k + 1) = TailsBefore(k)
           /\ k \in Tails(fields) =>
                /\ Cardinality(TailsBefore(k + 1)) = Cardinality(TailsBefore(k)) + 1
                /\ Cardinality(TailsBefore(k)) + 1 <= Cardinality(Tails(fields))
           /\ TailsBefore(1) = {}
           /\ TailsBefore(Len(fields) + 1) = Tails(fields)
  <1>1. /\ Len(fields) \in Nat /\ DOMAIN fields = 1 .. Len(fields)
        /\ IsFiniteSet(Tails(fields)) /\ Tails(fields) \subseteq 1 .. Len(fields)
    BY StructFacts
  <1>2. \A j : IsFiniteSet(TailsBefore(j)) /\ Cardinality(TailsBefore(j)) \in Nat
    BY <1>1, FS_Subset, FS_CardinalityType DEF TailsBefore
  <1>3. /\ k \notin TailsBefore(k)
        /\ k \notin Tails(fields) => TailsBefore(k + 1) = TailsBefore(k)
        /\ k \in Tails(fields) => TailsBefore(k + 1) = TailsBefore(k) \cup {k}
    BY <1>1 DEF TailsBefore
  <1>4. TailsBefore(1) = {} /\ TailsBefore(Len(fields) + 1) = Tails(fields)
    BY <1>1 DEF TailsBefore
  <1>5. ASSUME k \in Tails(fields)
        PROVE  /\ Cardinality(TailsBefore(k + 1)) = Cardinality(TailsBefore(k)) + 1
               /\ Cardinality(TailsBefore(k)) + 1 <= Cardinality(Tails(fields))
    <2>1. Cardinality(TailsBefore(k + 1)) = Cardinality(TailsBefore(k)) + 1
      BY <1>2, <1>3, <1>5, FS_AddElement
    <2>2. TailsBefore(k + 1) \subseteq Tails(fields)
      BY DEF TailsBefore
    <2>3. Cardinality(TailsBefore(k + 1)) <= Cardinality(Tails(fields))
      BY <1>1, <2>2, FS_Subset
    <2> QED BY <2>1, <2>3
  <1> QED BY <1>2, <1>3, <1>4, <1>5

---------------------------------------------------------------------------
(* The initial states: no call has been made.                              *)
LEMMA InitIInv == Init => IInv
  <1> SUFFICES ASSUME Init PROVE IInv
    OBVIOUS
  <1>1. PICK x \in Instances : fields = x.fields /\ obj = x.obj
    BY DEF Init
  <1>2. Len(fields) \in Nat /\ DOMAIN obj = DOMAIN fields
    <2>1. fields \in Seq(Fields)
      BY <1>1, InstancesAssumption
    <2>2. obj = [i \in DOMAIN fields |-> obj[i]]
      BY <1>1, InstancesAssumption
    <2>3. DOMAIN obj = DOMAIN fields
      BY <2>2, Zenon
    <2> QED BY <2>1, <2>3
  <1>3. StructInv
    BY <1>1, <1>2 DEF Init, StructInv
  <1>4. PhaseInv /\ OffsetsInv /\ AtInv /\ ItemsInv /\ ChildInv
    BY DEF Init, PhaseInv, OffsetsInv, AtInv, ItemsInv, ChildInv
  <1>5. UnmarshalNeverPanics /\ PanicOnlyAtLastNilChild
    BY DEF Init, UnmarshalNeverPanics, PanicOnlyAtLastNilChild, Marshalling
  <1> QED BY <1>3, <1>4, <1>5 DEF IInv

(* A child is a pointer once it has been allocated.                        *)
LEMMA AllocatedPresent ==
    ASSUME NEW f, NEW v
    PROVE  f.kind = "child" => Allocated(f, v) # << >>
  <1>1. Len(<<NoBytes>>) = 1 /\ Len(<< >>) = 0
    OBVIOUS
  <1>2. <<NoBytes>> # << >>
    BY <1>1
  <1> QED BY <1>2 DEF Allocated

(* The three calls that write: nothing is left of an earlier decoding, and *)
(* the two that ask for the size first have created every child.           *)
LEMMA CallStep ==
    ASSUME IInv, CallSizeSSZ \/ CallMarshalSSZ \/ CallMarshalSSZTo
    PROVE  IInv'
  <1> USE DEF IInv
  <1>1. /\ fields' = fields /\ DOMAIN obj' = DOMAIN obj
        /\ pc' = 1 /\ input' = << >> /\ offs' = << >>
        /\ call' \in {"SizeSSZ", "MarshalSSZ", "MarshalSSZTo"}
        /\ call' = "SizeSSZ" => phase' = "idle" /\ result' = "ok"
        /\ call' # "SizeSSZ" => phase' = "head" /\ result' = "none"
    BY DEF CallSizeSSZ, CallMarshalSSZ, CallMarshalSSZTo, Begin, ReadNothing, AllAllocated
  <1>2. call' = "MarshalSSZ" => \A i \in DOMAIN fields : Present(i)'
    <2> SUFFICES ASSUME call' = "MarshalSSZ", NEW i \in DOMAIN fields PROVE Present(i)'
      OBVIOUS
    <2>1. obj' = AllAllocated
      BY DEF CallSizeSSZ, CallMarshalSSZ, CallMarshalSSZTo, Begin
    <2>2. obj'[i] = Allocated(fields[i], obj[i])
      BY <2>1 DEF AllAllocated, StructInv
    <2> QED BY <1>1, <2>2, AllocatedPresent DEF Present
  <1>3. StructInv'
    BY <1>1, StructFacts DEF StructInv
  <1>4. PhaseInv' /\ OffsetsInv' /\ AtInv' /\ ItemsInv'
    BY <1>1 DEF PhaseInv, OffsetsInv, AtInv, ItemsInv, Marshalling
  <1>5. ChildInv'
    BY <1>1, <1>2 DEF ChildInv
  <1>6. UnmarshalNeverPanics' /\ PanicOnlyAtLastNilChild'
    BY <1>1 DEF UnmarshalNeverPanics, PanicOnlyAtLastNilChild
  <1> QED BY <1>3, <1>4, <1>5, <1>6

(* The steps of MarshalSSZTo.                                              *)
MarshalAction == \/ MarshalFixed \/ MarshalOffset \/ EndMarshalHead
                 \/ MarshalTail \/ EndMarshal

(* A step of MarshalSSZTo: nothing is read, and no nil child is met but    *)
(* the last.                                                               *)
LEMMA MarshalStep ==
    ASSUME IInv, MarshalAction
    PROVE  IInv'
  <1> USE DEF IInv
  <1>1. /\ fields' = fields /\ DOMAIN obj' = DOMAIN obj /\ input' = input
        /\ offs' = offs /\ call' = call /\ at' = at
        /\ phase \in {"head", "tail"} /\ phase' \in {"head", "tail", "idle"}
    BY DEF MarshalAction, MarshalFixed, MarshalOffset, EndMarshalHead, MarshalTail,
           EndMarshal, AtTail, AtField, PastLast, Return, caller, reading
  <1>2. Marshalling /\ result = "none" /\ Len(fields) \in Nat
           /\ DOMAIN fields = 1 .. Len(fields) /\ call # "UnmarshalSSZ"
    BY <1>1, StructFacts DEF PhaseInv, Marshalling
  <1>3. pc' \in 1 .. Len(fields) + 1
    BY <1>2 DEF MarshalAction, MarshalFixed, MarshalOffset, EndMarshalHead, MarshalTail,
           EndMarshal, AtTail, AtField, PastLast, StructInv
  <1>4. StructInv'
    BY <1>1, <1>3 DEF StructInv
  <1>5. PhaseInv'
    BY <1>1, <1>2 DEF PhaseInv, MarshalAction, MarshalFixed, MarshalOffset,
           EndMarshalHead, MarshalTail, EndMarshal, Return, Marshalling
  <1>6. OffsetsInv' /\ AtInv' /\ ItemsInv'
    BY <1>1 DEF OffsetsInv, AtInv, ItemsInv
  <1>7. UnmarshalNeverPanics'
    BY <1>1, <1>2 DEF UnmarshalNeverPanics
  <1>8. ChildInv' /\ PanicOnlyAtLastNilChild'
    <2>1. CASE MarshalFixed
      <3>1. /\ obj' = obj /\ phase = "head" /\ pc \in DOMAIN fields
            /\ ~ InTail(fields[pc]) /\ result' # "panic"
            /\ phase' \in {"head", "idle"} /\ (phase' = "head" => pc' = pc + 1)
        BY <2>1, <1>2 DEF MarshalFixed, AtField, Return
      <3>2. Present(pc)
        BY <3>1 DEF InTail, Present
      <3>3. \A i : Present(i)' <=> Present(i)
        BY <3>1, <1>1 DEF Present
      <3>4. \A i : IsLastTail(i)' <=> IsLastTail(i)
        BY <1>1 DEF IsLastTail, Tails
      <3> QED BY <1>1, <1>2, <3>1, <3>2, <3>3, <3>4
              DEF ChildInv, PanicOnlyAtLastNilChild, StructInv
    <2>2. CASE MarshalOffset
      <3>1. /\ phase = "head" /\ phase' = "head" /\ pc \in DOMAIN fields
            /\ pc' = pc + 1 /\ result' = result
        BY <2>2 DEF MarshalOffset, AtTail, AtField
      <3>2. \A i \in DOMAIN fields : Present(i) => Present(i)'
        BY <2>2, <1>1, AllocatedPresent DEF MarshalOffset, Present, StructInv
      <3>3. (fields[pc].kind = "child" => obj'[pc] # << >>) \/ IsLastTail(pc)
        BY <2>2, <1>1, <3>1, AllocatedPresent DEF MarshalOffset, Present, StructInv
      <3>4. \A i : IsLastTail(i)' <=> IsLastTail(i)
        BY <1>1 DEF IsLastTail, Tails
      <3>5. \A i \in 1 .. pc' - 1 : Present(i)' \/ IsLastTail(i)'
        <4> SUFFICES ASSUME NEW i \in 1 .. pc' - 1 PROVE Present(i)' \/ IsLastTail(i)'
          OBVIOUS
        <4>1. CASE i = pc
          BY <4>1, <1>1, <3>3, <3>4 DEF Present
        <4>2. CASE i # pc
          <5>1. i \in 1 .. pc - 1 /\ i \in DOMAIN fields
            BY <4>2, <1>2, <3>1 DEF StructInv
          <5> QED BY <5>1, <3>1, <3>2, <3>4 DEF ChildInv
        <4> QED BY <4>1, <4>2
      <3> QED BY <1>1, <1>2, <3>1, <3>2, <3>5 DEF ChildInv, PanicOnlyAtLastNilChild
    <2>3. CASE EndMarshalHead
      <3>1. /\ obj' = obj /\ phase = "head" /\ phase' = "tail"
            /\ pc \notin DOMAIN fields /\ result' = result
        BY <2>3 DEF EndMarshalHead, PastLast
      <3>2. pc = Len(fields) + 1
        BY <1>2, <3>1 DEF StructInv
      <3>3. \A i : (Present(i)' <=> Present(i)) /\ (IsLastTail(i)' <=> IsLastTail(i))
        BY <3>1, <1>1 DEF Present, IsLastTail, Tails
      <3> QED BY <1>1, <1>2, <3>1, <3>2, <3>3 DEF ChildInv, PanicOnlyAtLastNilChild
    <2>4. CASE MarshalTail
      <3>1. /\ obj' = obj /\ phase = "tail" /\ phase' \in {"tail", "idle"}
            /\ pc \in DOMAIN fields
            /\ result' = "panic" => fields[pc].kind = "child" /\ obj[pc] = << >> /\ pc' = pc
        BY <2>4, <1>2 DEF MarshalTail, AtTail, AtField, Return
      <3>2. result' = "panic" => call = "MarshalSSZTo" /\ IsLastTail(pc)
        BY <3>1, <1>2 DEF ChildInv, Present, Marshalling
      <3>3. \A i : (Present(i)' <=> Present(i)) /\ (IsLastTail(i)' <=> IsLastTail(i))
        BY <3>1, <1>1 DEF Present, IsLastTail, Tails
      <3> QED BY <1>1, <3>1, <3>2, <3>3 DEF ChildInv, PanicOnlyAtLastNilChild
    <2>5. CASE EndMarshal
      BY <2>5, <1>1 DEF EndMarshal, Return, ChildInv, PanicOnlyAtLastNilChild
    <2> QED BY <2>1, <2>2, <2>3, <2>4, <2>5 DEF MarshalAction
  <1> QED BY <1>4, <1>5, <1>6, <1>7, <1>8

---------------------------------------------------------------------------
(* Both loops over the variable fields pass over the others.               *)
LEMMA SkipStep ==
    ASSUME IInv, SkipFixed
    PROVE  IInv'
  <1> USE DEF IInv
  <1>1. /\ fields' = fields /\ obj' = obj /\ input' = input /\ offs' = offs
        /\ at' = at /\ items' = items /\ call' = call /\ phase' = phase
        /\ phase \in {"tail", "dynamic"} /\ result' = result
        /\ pc' = pc + 1 /\ pc \in DOMAIN fields /\ pc \notin Tails(fields)
    BY DEF SkipFixed, AtField, caller, writing, reading, Tails
  <1>2. StructInv'
    BY <1>1, StructFacts DEF StructInv
  <1>3. PhaseInv' /\ ItemsInv' /\ UnmarshalNeverPanics'
    BY <1>1 DEF PhaseInv, ItemsInv, UnmarshalNeverPanics, Marshalling
  <1>4. TailsBefore(pc + 1) = TailsBefore(pc)
    BY <1>1, TailCount
  <1>5. TailsBefore(pc)' = TailsBefore(pc) /\ Tails(fields)' = Tails(fields)
    BY <1>1, <1>4 DEF TailsBefore
  <1>6. OffsetsInv' /\ AtInv'
    BY <1>1, <1>5 DEF OffsetsInv, AtInv
  <1>7. \A i : (Present(i)' <=> Present(i)) /\ (IsLastTail(i)' <=> IsLastTail(i))
    BY <1>1 DEF Present, IsLastTail, Tails
  <1>8. ChildInv'
    BY <1>1, <1>7 DEF ChildInv
  <1>9. PanicOnlyAtLastNilChild'
    BY <1>1 DEF PanicOnlyAtLastNilChild, PhaseInv
  <1> QED BY <1>2, <1>3, <1>6, <1>8, <1>9

(* The size check leaves at least the fixed part to read.                  *)
LEMMA CallUnmarshalStep ==
    ASSUME IInv, CallUnmarshalSSZ
    PROVE  IInv'
  <1> USE DEF IInv
  <1>1. PICK b \in Received(fields, wire) \cap Seq(Byte), fresh \in BOOLEAN :
            /\ call' = "UnmarshalSSZ" /\ pc' = 1 /\ fields' = fields
            /\ phase' = IF \/ Len(b) < FixedLen(fields)
                           \/ Tails(fields) = {} /\ Len(b) # FixedLen(fields)
                         THEN "idle" ELSE "fields"
            /\ result' = IF phase' = "idle" THEN "error" ELSE "none"
            /\ input' = b /\ offs' = << >> /\ at' = 0
            /\ obj' = IF fresh THEN New(fields) ELSE obj
    BY DEF CallUnmarshalSSZ, Begin
  <1>2. Len(fields) \in Nat /\ DOMAIN fields = 1 .. Len(fields) /\ FixedLen(fields) \in Nat
    BY StructFacts
  <1>3. DOMAIN obj' = DOMAIN fields
    BY <1>1 DEF New, StructInv
  <1>4. StructInv'
    BY <1>1, <1>2, <1>3 DEF StructInv
  <1>5. PhaseInv' /\ ItemsInv' /\ UnmarshalNeverPanics' /\ ChildInv' /\ AtInv'
        /\ PanicOnlyAtLastNilChild'
    BY <1>1 DEF PhaseInv, ItemsInv, UnmarshalNeverPanics, Marshalling, ChildInv,
           AtInv, PanicOnlyAtLastNilChild
  <1>6. Cardinality({}) = 0 /\ TailsBefore(pc)' = {}
    BY <1>1, <1>2, FS_EmptySet DEF TailsBefore, Tails
  <1>7. phase' = "fields" => FixedLen(fields)' <= Len(input)'
    BY <1>1, <1>2
  <1>8. OffsetsInv'
    <2>1. offs' = << >> /\ Len(offs') = 0 /\ offs' \in Seq(Nat)
      BY <1>1
    <2>2. Cardinality(TailsBefore(pc)') = 0
      BY <1>6
    <2>3. phase' \in {"idle", "fields"}
      BY <1>1
    <2> QED BY <2>1, <2>2, <2>3, <1>7 DEF OffsetsInv
  <1> QED BY <1>4, <1>5, <1>8

(* What every step of UnmarshalSSZ leaves alone, and what follows for the  *)
(* marshalling side.                                                       *)
UnmarshalAction == \/ UnmarshalFixed \/ UnmarshalOffset \/ EndUnmarshalFields
                   \/ UnmarshalTail \/ BeginItems \/ UnmarshalItem \/ EndUnmarshal

(* The struct, the input and the call stay what they are.                  *)
LEMMA UnmarshalFrame ==
    ASSUME IInv, UnmarshalAction
    PROVE  /\ fields' = fields /\ DOMAIN obj' = DOMAIN obj /\ input' = input
           /\ call' = call /\ call = "UnmarshalSSZ" /\ result = "none"
           /\ phase \in {"fields", "dynamic", "items"}
           /\ phase' \in {"fields", "dynamic", "items", "idle"}
           /\ phase' = "idle" \/ result' = result
           /\ Tails(fields)' = Tails(fields)
           /\ \A k : TailsBefore(k)' = TailsBefore(k)
           /\ PhaseInv' /\ ChildInv' /\ PanicOnlyAtLastNilChild'
  <1>1. /\ fields' = fields /\ DOMAIN obj' = DOMAIN obj /\ input' = input
        /\ call' = call /\ phase \in {"fields", "dynamic", "items"}
        /\ phase' \in {"fields", "dynamic", "items", "idle"}
        /\ phase' = "idle" \/ result' = result
    <2>1. CASE UnmarshalFixed
      BY <2>1 DEF UnmarshalFixed, AtField, caller, reading
    <2>2. CASE UnmarshalOffset
      BY <2>2 DEF UnmarshalOffset, AtTail, AtField, Return, caller
    <2>3. CASE EndUnmarshalFields
      BY <2>3 DEF EndUnmarshalFields, PastLast, caller, reading
    <2>4. CASE UnmarshalTail
      BY <2>4 DEF UnmarshalTail, AtTail, AtField, Return, caller
    <2>5. CASE BeginItems
      BY <2>5 DEF BeginItems, AtTail, AtField, Return, caller
    <2>6. CASE UnmarshalItem
      BY <2>6 DEF UnmarshalItem, Return, caller
    <2>7. CASE EndUnmarshal
      BY <2>7 DEF EndUnmarshal, PastLast, Return, reading
    <2> QED BY <2>1, <2>2, <2>3, <2>4, <2>5, <2>6, <2>7 DEF UnmarshalAction
  <1>2. call = "UnmarshalSSZ" /\ result = "none"
    BY <1>1 DEF IInv, PhaseInv
  <1>3. Tails(fields)' = Tails(fields) /\ \A k : TailsBefore(k)' = TailsBefore(k)
    BY <1>1 DEF TailsBefore, Tails
  <1>4. PhaseInv' /\ ChildInv' /\ PanicOnlyAtLastNilChild'
    BY <1>1, <1>2 DEF PhaseInv, ChildInv, PanicOnlyAtLastNilChild, Marshalling
  <1> QED BY <1>1, <1>2, <1>3, <1>4

(* A fixed field moves on; its place in the order of offsets is untouched. *)
LEMMA UnmarshalFixedStep ==
    ASSUME IInv, UnmarshalFixed
    PROVE  IInv'
  <1> USE DEF IInv
  <1>1. UnmarshalAction
    BY DEF UnmarshalAction
  <1>2. /\ phase = "fields" /\ phase' = "fields" /\ pc \in DOMAIN fields
        /\ pc \notin Tails(fields) /\ pc' = pc + 1
        /\ offs' = offs /\ at' = at /\ items' = items
    BY DEF UnmarshalFixed, AtField, Tails, reading
  <1>3. StructInv'
    BY <1>1, <1>2, UnmarshalFrame, StructFacts DEF StructInv
  <1>4. TailsBefore(pc)' = TailsBefore(pc)
    <2>1. TailsBefore(pc + 1) = TailsBefore(pc)
      BY <1>2, TailCount
    <2> QED BY <1>1, <1>2, <2>1, UnmarshalFrame DEF TailsBefore
  <1>5. OffsetsInv' /\ AtInv' /\ ItemsInv' /\ UnmarshalNeverPanics'
    BY <1>1, <1>2, <1>4, UnmarshalFrame
       DEF OffsetsInv, AtInv, ItemsInv, UnmarshalNeverPanics
  <1> QED BY <1>1, <1>3, <1>5, UnmarshalFrame

(* An offset is kept when it is within the input and not before the last.  *)
LEMMA UnmarshalOffsetStep ==
    ASSUME IInv, UnmarshalOffset
    PROVE  IInv'
  <1> USE DEF IInv
  <1> DEFINE o == ReadOffset(FieldBytes)
  <1>1. UnmarshalAction
    BY DEF UnmarshalAction
  <1>2. /\ phase = "fields" /\ pc \in DOMAIN fields /\ pc \in Tails(fields)
        /\ at' = at /\ items' = items
        /\ \/ phase' = "idle" /\ offs' = offs /\ pc' = pc /\ result' = "error"
           \/ /\ ~ OffsetRefused(o) /\ phase' = "fields" /\ result' = result
              /\ offs' = Append(offs, o) /\ pc' = pc + 1
    BY DEF UnmarshalOffset, AtTail, AtField, Tails, Return
  <1>3. o \in Nat
    <2>1. /\ HeadOffset(fields, pc) \in Nat /\ FixedLen(fields) \in Nat
          /\ HeadOffset(fields, pc + 1) = HeadOffset(fields, pc) + 4
          /\ HeadOffset(fields, pc + 1) <= FixedLen(fields)
      BY <1>2, StructFacts DEF Width, Tails
    <2>2. input \in Seq(Byte) /\ FixedLen(fields) <= Len(input) /\ Len(input) \in Nat
      BY <1>2 DEF OffsetsInv, StructInv
    <2>3. CanSlice(input, HeadOffset(fields, pc), HeadOffset(fields, pc + 1))
      BY <2>1, <2>2 DEF CanSlice
    <2>4. HeadOffset(fields, pc + 1) \in Nat
          /\ HeadOffset(fields, pc + 1) - HeadOffset(fields, pc) = 4
      BY <2>1
    <2>5. /\ FieldBytes \in Seq(Byte)
          /\ Len(FieldBytes) = HeadOffset(fields, pc + 1) - HeadOffset(fields, pc)
      BY <2>1, <2>2, <2>3, <2>4, SliceBytes DEF FieldBytes
    <2>6. Len(FieldBytes) >= 4
      BY <2>4, <2>5
    <2> QED BY <2>5, <2>6, ReadOffsetNat
  <1>4. StructInv'
    BY <1>1, <1>2, UnmarshalFrame, StructFacts DEF StructInv
  <1>5. AtInv' /\ ItemsInv' /\ UnmarshalNeverPanics'
    BY <1>1, <1>2, UnmarshalFrame DEF AtInv, ItemsInv, UnmarshalNeverPanics
  <1>6. OffsetsInv'
    <2>1. CASE phase' = "idle"
      BY <1>1, <1>2, <2>1, UnmarshalFrame DEF OffsetsInv
    <2>2. CASE phase' = "fields"
      <3> HIDE DEF o
      <3>1. ~ OffsetRefused(o) /\ offs' = Append(offs, o) /\ pc' = pc + 1
        BY <1>2, <2>2
      <3>2. /\ offs \in Seq(Nat) /\ Len(offs) \in Nat /\ Len(input) \in Nat
            /\ \A i \in 1 .. Len(offs) : offs[i] \in Nat
        BY DEF OffsetsInv, StructInv
      <3>3. o <= Len(input) /\ (Len(offs) > 0 => offs[Len(offs)] <= o)
        BY <1>3, <3>1, <3>2 DEF OffsetRefused
      <3>4. /\ offs' \in Seq(Nat) /\ Len(offs') = Len(offs) + 1
            /\ offs'[Len(offs) + 1] = o
            /\ \A i \in 1 .. Len(offs) : offs'[i] = offs[i]
        BY <1>3, <3>1, <3>2
      <3>5. \A i \in 1 .. Len(offs') : offs'[i] <= Len(input)
        <4> SUFFICES ASSUME NEW i \in 1 .. Len(offs') PROVE offs'[i] <= Len(input)
          OBVIOUS
        <4>1. CASE i = Len(offs) + 1
          BY <4>1, <3>3, <3>4
        <4>2. CASE i # Len(offs) + 1
          <5>1. i \in 1 .. Len(offs)
            BY <4>2, <3>2, <3>4
          <5> QED BY <5>1, <3>4 DEF OffsetsInv
        <4> QED BY <4>1, <4>2
      <3>6. \A i \in 1 .. Len(offs') - 1 : offs'[i] <= offs'[i + 1]
        <4> SUFFICES ASSUME NEW i \in 1 .. Len(offs') - 1 PROVE offs'[i] <= offs'[i + 1]
          OBVIOUS
        <4>1. CASE i = Len(offs)
          BY <4>1, <3>2, <3>3, <3>4
        <4>2. CASE i # Len(offs)
          <5>1. i \in 1 .. Len(offs) - 1 /\ i \in 1 .. Len(offs) /\ i + 1 \in 1 .. Len(offs)
            BY <4>2, <3>2, <3>4
          <5> QED BY <5>1, <3>4 DEF OffsetsInv
        <4> QED BY <4>1, <4>2
      <3>7. Cardinality(TailsBefore(pc)') = Cardinality(TailsBefore(pc)) + 1
        <4>1. Cardinality(TailsBefore(pc + 1)) = Cardinality(TailsBefore(pc)) + 1
          BY <1>2, TailCount
        <4>2. TailsBefore(pc)' = TailsBefore(pc + 1)
          BY <1>1, <3>1, UnmarshalFrame DEF TailsBefore
        <4> QED BY <4>1, <4>2
      <3>8. Len(offs') = Cardinality(TailsBefore(pc)')
        BY <3>4, <3>7, <1>2 DEF OffsetsInv
      <3>9. FixedLen(fields)' <= Len(input)'
        BY <1>1, <1>2, UnmarshalFrame DEF OffsetsInv
      <3> QED BY <1>1, <2>2, <3>4, <3>5, <3>6, <3>8, <3>9, UnmarshalFrame DEF OffsetsInv
    <2> QED BY <1>2, <2>1, <2>2
  <1> QED BY <1>1, <1>4, <1>5, <1>6, UnmarshalFrame

(* All offsets read: as many as there are variable fields.                 *)
LEMMA EndFieldsStep ==
    ASSUME IInv, EndUnmarshalFields
    PROVE  IInv'
  <1> USE DEF IInv
  <1>1. UnmarshalAction
    BY DEF UnmarshalAction
  <1>2. /\ phase = "fields" /\ phase' = "dynamic" /\ pc \notin DOMAIN fields
        /\ pc' = 1 /\ offs' = offs /\ at' = at /\ items' = items /\ result' = result
    BY DEF EndUnmarshalFields, PastLast, reading
  <1>3. Len(fields) \in Nat /\ DOMAIN fields = 1 .. Len(fields)
        /\ Tails(fields) \subseteq DOMAIN fields
    BY StructFacts
  <1>4. pc = Len(fields) + 1
    BY <1>2, <1>3 DEF StructInv
  <1>5. TailsBefore(pc) = Tails(fields) /\ TailsBefore(pc)' = {}
    BY <1>1, <1>2, <1>3, <1>4, UnmarshalFrame DEF TailsBefore
  <1>6. Cardinality({}) = 0
    BY FS_EmptySet
  <1>7. StructInv'
    BY <1>1, <1>2, <1>3, UnmarshalFrame DEF StructInv
  <1>8. OffsetsInv' /\ AtInv' /\ ItemsInv' /\ UnmarshalNeverPanics'
    BY <1>1, <1>2, <1>5, <1>6, UnmarshalFrame
       DEF OffsetsInv, AtInv, ItemsInv, UnmarshalNeverPanics
  <1> QED BY <1>1, <1>7, <1>8, UnmarshalFrame

(* The bytes between two offsets, or after the last, can be sliced.        *)
LEMMA BufFacts ==
    ASSUME IInv, phase = "dynamic", pc \in Tails(fields)
    PROVE  /\ CanSlice(input, From, To) /\ Buf \in Seq(Byte)
           /\ Cardinality(TailsBefore(pc)) \in Nat /\ pc \in DOMAIN fields
  <1> USE DEF IInv
  <1>1. /\ pc \in DOMAIN fields
        /\ Cardinality(TailsBefore(pc)) \in Nat
        /\ Cardinality(TailsBefore(pc)) + 1 <= Cardinality(Tails(fields))
    BY TailCount, StructFacts
  <1>2. at \in Nat /\ at + 1 <= Len(offs)
    BY <1>1 DEF OffsetsInv, AtInv
  <1>3. Len(offs) \in Nat /\ Len(input) \in Nat /\ \A i \in 1 .. Len(offs) : offs[i] \in Nat
    BY DEF OffsetsInv, StructInv
  <1>4. From \in Nat /\ From <= Len(input)
    BY <1>2, <1>3 DEF From, OffsetsInv
  <1>5. To \in Nat /\ From <= To /\ To <= Len(input)
    <2>1. CASE at + 1 = Len(offs)
      BY <2>1, <1>3, <1>4 DEF To
    <2>2. CASE at + 1 # Len(offs)
      <3>1. at + 1 \in 1 .. Len(offs) - 1 /\ at + 2 \in 1 .. Len(offs) /\ (at + 1) + 1 = at + 2
        BY <2>2, <1>2, <1>3
      <3>2. To = offs[at + 2] /\ offs[at + 1] <= offs[at + 2]
        BY <2>2, <3>1 DEF To, OffsetsInv
      <3> QED BY <3>1, <3>2, <1>3 DEF From, OffsetsInv
    <2> QED BY <2>1, <2>2
  <1>6. CanSlice(input, From, To)
    BY <1>5 DEF CanSlice
  <1> QED BY <1>1, <1>4, <1>5, <1>6, SliceBytes DEF Buf, StructInv

(* The other variable fields.                                              *)
LEMMA UnmarshalTailStep ==
    ASSUME IInv, UnmarshalTail
    PROVE  IInv'
  <1> USE DEF IInv
  <1>1. UnmarshalAction
    BY DEF UnmarshalAction
  <1>2. phase = "dynamic" /\ pc \in Tails(fields)
    BY DEF UnmarshalTail, AtTail, AtField, Tails
  <1>3. /\ offs' = offs /\ items' = items /\ at' = at + 1
        /\ \/ phase' = "idle" /\ pc' = pc /\ result' # "panic"
           \/ phase' = phase /\ pc' = pc + 1 /\ result' = result
    BY <1>2, BufFacts DEF UnmarshalTail, Return
  <1>4. StructInv'
    BY <1>1, <1>2, <1>3, BufFacts, UnmarshalFrame, StructFacts DEF StructInv
  <1>5. phase' = "dynamic" =>
          Cardinality(TailsBefore(pc)') = Cardinality(TailsBefore(pc)) + 1
    <2>1. Cardinality(TailsBefore(pc + 1)) = Cardinality(TailsBefore(pc)) + 1
      BY <1>2, BufFacts, TailCount
    <2>2. phase' = "dynamic" => TailsBefore(pc)' = TailsBefore(pc + 1)
      BY <1>1, <1>3, UnmarshalFrame DEF TailsBefore
    <2> QED BY <2>1, <2>2
  <1>6. OffsetsInv' /\ AtInv' /\ ItemsInv' /\ UnmarshalNeverPanics'
    BY <1>1, <1>2, <1>3, <1>5, UnmarshalFrame
       DEF OffsetsInv, AtInv, ItemsInv, UnmarshalNeverPanics
  <1> QED BY <1>1, <1>4, <1>6, UnmarshalFrame

(* A list of items is entered with the bytes and the first offset it has.  *)
LEMMA BeginItemsStep ==
    ASSUME IInv, BeginItems
    PROVE  IInv'
  <1> USE DEF IInv
  <1>1. UnmarshalAction
    BY DEF UnmarshalAction
  <1>2. phase = "dynamic" /\ pc \in Tails(fields)
    BY DEF BeginItems, AtTail, AtField, Tails
  <1>3. CanSlice(input, From, To) /\ Buf \in Seq(Byte)
    BY <1>2, BufFacts
  <1>4. /\ offs' = offs /\ at' = at + 1
        /\ \/ phase' = "idle" /\ pc' = pc /\ result' # "panic"
           \/ phase' = phase /\ pc' = pc + 1 /\ result' = result
           \/ /\ phase' = "items" /\ pc' = pc /\ result' = result
              /\ ~ LengthRefused(fields[pc], Buf) /\ DynamicLength(Buf) # 0
              /\ items' = [src |-> Buf, left |-> DynamicLength(Buf),
                           start |-> ReadOffset(Buf), pos |-> 4, indx |-> 1]
    BY <1>2, <1>3 DEF BeginItems, Return
  <1>5. StructInv'
    BY <1>1, <1>2, <1>4, BufFacts, UnmarshalFrame, StructFacts DEF StructInv
  <1>6. ItemsInv'
    <2> SUFFICES ASSUME phase' = "items"
                 PROVE  /\ items'.src \in Seq(Byte) /\ items'.left \in Nat \ {0}
                        /\ items'.start \in Nat /\ items'.pos \in Nat
      BY DEF ItemsInv
    <2>1. /\ ~ LengthRefused(fields[pc], Buf) /\ DynamicLength(Buf) # 0
          /\ items'.src = Buf /\ items'.left = DynamicLength(Buf)
          /\ items'.start = ReadOffset(Buf) /\ items'.pos = 4
      BY <1>2, <1>4
    <2>2. Len(Buf) \in Nat
      BY <1>3
    <2>3. Buf # << >> /\ Len(Buf) >= 4
      BY <2>1, <2>2 DEF LengthRefused, DynamicLength
    <2>4. ReadOffset(Buf) \in Nat
      BY <1>3, <2>3, ReadOffsetNat
    <2>5. DynamicLength(Buf) = ReadOffset(Buf) \div 4
      BY <2>3 DEF DynamicLength
    <2>6. \A n \in Nat : n \div 4 \in Nat
      OBVIOUS
    <2>7. DynamicLength(Buf) \in Nat
      BY <2>4, <2>5, <2>6
    <2> QED BY <1>3, <2>1, <2>4, <2>7
  <1>7. phase' = "dynamic" =>
          Cardinality(TailsBefore(pc)') = Cardinality(TailsBefore(pc)) + 1
    <2>1. Cardinality(TailsBefore(pc + 1)) = Cardinality(TailsBefore(pc)) + 1
      BY <1>2, BufFacts, TailCount
    <2>2. phase' = "dynamic" => TailsBefore(pc)' = TailsBefore(pc + 1)
      BY <1>1, <1>2, <1>4, UnmarshalFrame DEF TailsBefore
    <2> QED BY <2>1, <2>2
  <1>8. phase' = "items" => pc' = pc /\ TailsBefore(pc)' = TailsBefore(pc)
    BY <1>1, <1>2, <1>4, UnmarshalFrame DEF TailsBefore
  <1>9. OffsetsInv' /\ AtInv' /\ UnmarshalNeverPanics'
    BY <1>1, <1>2, <1>4, <1>7, <1>8, UnmarshalFrame
       DEF OffsetsInv, AtInv, UnmarshalNeverPanics
  <1> QED BY <1>1, <1>5, <1>6, <1>9, UnmarshalFrame

(* Every offset of UnmarshalDynamic but the last item's end is read from   *)
(* the bytes after those read before.                                      *)
LEMMA ItemEndNat ==
    ASSUME IInv, phase = "items", ~ ItemRefused
    PROVE  ItemEnd \in Nat /\ CanSlice(items.src, items.start, ItemEnd)
  <1>1. /\ items.src \in Seq(Byte) /\ Len(items.src) \in Nat
        /\ items.start \in Nat /\ items.pos \in Nat
    BY DEF IInv, ItemsInv
  <1>2. ItemEnd \in Nat
    <2>1. CASE items.left = 1
      BY <1>1, <2>1 DEF ItemEnd
    <2>2. CASE items.left # 1
      <3>1. items.pos + 4 \in Nat /\ items.pos + 4 <= Len(items.src)
            /\ (items.pos + 4) - items.pos = 4
        BY <1>1, <2>2 DEF ItemRefused
      <3>2. CanSlice(items.src, items.pos, items.pos + 4)
        BY <1>1, <3>1 DEF CanSlice
      <3> DEFINE b == Slice(items.src, items.pos, items.pos + 4)
      <3>3. b \in Seq(Byte) /\ Len(b) = (items.pos + 4) - items.pos
        BY <1>1, <3>1, <3>2, SliceBytes
      <3>4. Len(b) >= 4
        BY <3>1, <3>3
      <3>5. ReadOffset(b) \in Nat
        BY <3>3, <3>4, ReadOffsetNat
      <3> QED BY <2>2, <3>5 DEF ItemEnd
    <2> QED BY <2>1, <2>2
  <1>3. items.start <= ItemEnd /\ ItemEnd <= Len(items.src)
    BY <1>1, <1>2 DEF ItemRefused
  <1> QED BY <1>2, <1>3 DEF CanSlice

(* A round of UnmarshalDynamic.                                            *)
LEMMA UnmarshalItemStep ==
    ASSUME IInv, UnmarshalItem
    PROVE  IInv'
  <1> USE DEF IInv
  <1>1. UnmarshalAction
    BY DEF UnmarshalAction
  <1>2. phase = "items" /\ pc \in Tails(fields) /\ pc \in DOMAIN fields
    BY StructFacts DEF UnmarshalItem, AtInv
  <1>3. /\ offs' = offs /\ at' = at
        /\ \/ phase' = "idle" /\ pc' = pc /\ result' # "panic"
           \/ phase' = "dynamic" /\ pc' = pc + 1 /\ result' = result
           \/ /\ phase' = "items" /\ pc' = pc /\ result' = result
              /\ ~ ItemRefused /\ items.left # 1
              /\ items' = [items EXCEPT !.left = @ - 1, !.start = ItemEnd,
                                        !.pos = @ + 4, !.indx = @ + 1]
    BY <1>2, ItemEndNat DEF UnmarshalItem, Return
  <1>4. StructInv'
    BY <1>1, <1>2, <1>3, UnmarshalFrame, StructFacts DEF StructInv
  <1>5. ItemsInv'
    <2> SUFFICES ASSUME phase' = "items"
                 PROVE  /\ items'.src \in Seq(Byte) /\ items'.left \in Nat \ {0}
                        /\ items'.start \in Nat /\ items'.pos \in Nat
      BY DEF ItemsInv
    <2>1. /\ ~ ItemRefused /\ items.left # 1
          /\ items' = [items EXCEPT !.left = @ - 1, !.start = ItemEnd,
                                    !.pos = @ + 4, !.indx = @ + 1]
      BY <1>3
    <2>2. ItemEnd \in Nat
      BY <1>2, <2>1, ItemEndNat
    <2>3. /\ items.src \in Seq(Byte) /\ items.left \in Nat \ {0}
          /\ items.start \in Nat /\ items.pos \in Nat
      BY <1>2 DEF ItemsInv
    <2> QED BY <2>1, <2>2, <2>3
  <1>6. phase' = "dynamic" =>
          Cardinality(TailsBefore(pc)') = Cardinality(TailsBefore(pc)) + 1
    <2>1. Cardinality(TailsBefore(pc + 1)) = Cardinality(TailsBefore(pc)) + 1
      BY <1>2, TailCount
    <2>2. phase' = "dynamic" => TailsBefore(pc)' = TailsBefore(pc + 1)
      BY <1>1, <1>3, UnmarshalFrame DEF TailsBefore
    <2> QED BY <2>1, <2>2
  <1>7. phase' = "items" => pc' = pc /\ TailsBefore(pc)' = TailsBefore(pc)
    BY <1>1, <1>3, UnmarshalFrame DEF TailsBefore
  <1>8. OffsetsInv' /\ AtInv' /\ UnmarshalNeverPanics'
    BY <1>1, <1>2, <1>3, <1>6, <1>7, UnmarshalFrame
       DEF OffsetsInv, AtInv, UnmarshalNeverPanics
  <1> QED BY <1>1, <1>4, <1>5, <1>8, UnmarshalFrame

(* The call returns.                                                       *)
LEMMA EndUnmarshalStep ==
    ASSUME IInv, EndUnmarshal
    PROVE  IInv'
  <1> USE DEF IInv
  <1>1. UnmarshalAction
    BY DEF UnmarshalAction
  <1>2. phase' = "idle" /\ result' = "ok" /\ pc' = pc /\ offs' = offs /\ obj' = obj
    BY DEF EndUnmarshal, Return, reading
  <1>3. StructInv' /\ OffsetsInv' /\ AtInv' /\ ItemsInv' /\ UnmarshalNeverPanics'
    BY <1>1, <1>2, UnmarshalFrame
       DEF StructInv, OffsetsInv, AtInv, ItemsInv, UnmarshalNeverPanics
  <1> QED BY <1>1, <1>3, UnmarshalFrame

---------------------------------------------------------------------------
(* The invariant is inductive.                                             *)
THEOREM Invariance == Spec => []IInv
  <1>1. IInv /\ [Next]_vars => IInv'
    <2> SUFFICES ASSUME IInv, [Next]_vars PROVE IInv'
      OBVIOUS
    <2>1. CASE CallSizeSSZ \/ CallMarshalSSZ \/ CallMarshalSSZTo
      BY <2>1, CallStep
    <2>2. CASE MarshalAction
      BY <2>2, MarshalStep
    <2>3. CASE SkipFixed
      BY <2>3, SkipStep
    <2>4. CASE CallUnmarshalSSZ
      BY <2>4, CallUnmarshalStep
    <2>5. CASE UnmarshalFixed
      BY <2>5, UnmarshalFixedStep
    <2>6. CASE UnmarshalOffset
      BY <2>6, UnmarshalOffsetStep
    <2>7. CASE EndUnmarshalFields
      BY <2>7, EndFieldsStep
    <2>8. CASE UnmarshalTail
      BY <2>8, UnmarshalTailStep
    <2>9. CASE BeginItems
      BY <2>9, BeginItemsStep
    <2>10. CASE UnmarshalItem
      BY <2>10, UnmarshalItemStep
    <2>11. CASE EndUnmarshal
      BY <2>11, EndUnmarshalStep
    <2>12. CASE Stop \/ UNCHANGED vars
      <3>1. UNCHANGED vars
        BY <2>12 DEF Stop
      <3> QED BY <3>1 DEF vars, caller, writing, reading, IInv, StructInv, PhaseInv,
              OffsetsInv, AtInv, ItemsInv, ChildInv, UnmarshalNeverPanics,
              PanicOnlyAtLastNilChild, TailsBefore, Tails, Present, IsLastTail,
              Marshalling
    <2> QED BY <2>1, <2>2, <2>3, <2>4, <2>5, <2>6, <2>7, <2>8, <2>9, <2>10, <2>11,
            <2>12 DEF Next, MarshalAction
  <1> QED BY InitIInv, <1>1, PTL DEF Spec

(* UnmarshalSSZ returns, with or without an error, whatever it is given:   *)
(* the offset checks are enough for every slice it takes, for every struct *)
(* type, object and string of bytes.                                       *)
THEOREM UnmarshalIsSafe == Spec => []UnmarshalNeverPanics
  <1>1. IInv => UnmarshalNeverPanics
    BY DEF IInv
  <1> QED BY <1>1, Invariance, PTL

(* Of the two ways to marshal, ssz.MarshalSSZ never meets a nil child, and *)
(* MarshalSSZTo only as the last variable field.                           *)
THEOREM MarshalIsSafe == Spec => []PanicOnlyAtLastNilChild
  <1>1. IInv => PanicOnlyAtLastNilChild
    BY DEF IInv
  <1> QED BY <1>1, Invariance, PTL

---------------------------------------------------------------------------
(* What the templates do with a single field.                              *)
LEMMA ConcatBytes ==
    ASSUME NEW x \in Seq(Byte), NEW y \in Seq(Byte)
    PROVE  x \o y \in Seq(Byte) /\ Len(x \o y) = Len(x) + Len(y) /\ Len(x) \in Nat
OBVIOUS

(* An offset is written as four bytes.                                     *)
LEMMA WriteOffsetBytes ==
    ASSUME NEW n \in Nat
    PROVE  WriteOffset(n) \in Seq(Byte) /\ Len(WriteOffset(n)) = 4
  <1>1. \A m \in Nat : m % 256 \in Byte
    BY DEF Byte
  <1>2. n \div 256 \in Nat /\ n \div 65536 \in Nat /\ n \div 16777216 \in Nat
    OBVIOUS
  <1> QED BY <1>1, <1>2 DEF WriteOffset

(* A child created for a nil pointer has the type of the field.            *)
LEMMA AllocatedType ==
    ASSUME NEW f, NEW v, HasType(f, v)
    PROVE  HasType(f, Allocated(f, v)) /\ TailSize(f, Allocated(f, v)) = TailSize(f, v)
  <1> DEFINE a == <<NoBytes>>
  <1>1. NoBytes \in Seq(Byte)
    BY DEF NoBytes
  <1>2. a \in Seq(Seq(Byte)) /\ Len(a) = 1
    BY <1>1
  <1>3. a # << >>
    BY <1>2
  <1>4. CASE f.kind = "child" /\ v = << >>
    <2>1. Allocated(f, v) = a
      BY <1>4 DEF Allocated
    <2>2. HasType(f, a)
      <3> HIDE DEF a
      <3> QED BY <1>2, <1>4 DEF HasType
    <2>3. Allocated(f, a) = a
      BY <1>3 DEF Allocated
    <2>4. TailSize(f, a) = TailSize(f, v)
      <3> HIDE DEF a
      <3> QED BY <1>4, <2>1, <2>3 DEF TailSize
    <2> QED BY <2>1, <2>2, <2>4
  <1>5. CASE ~ (f.kind = "child" /\ v = << >>)
    BY <1>5 DEF Allocated
  <1> QED BY <1>4, <1>5

(* The size template counts a number of bytes.                             *)
LEMMA TailSizeNat ==
    ASSUME NEW f \in Fields, NEW v, HasType(f, v), InTail(f)
    PROVE  TailSize(f, v) \in Nat
  <1>1. f.size \in Nat /\ f.kind \in {"bytes", "bitlist", "list", "dynlist", "child"}
    BY DEF Fields, Kinds, InTail
  <1>2. CASE f.kind \in {"bytes", "bitlist"}
    BY <1>2 DEF TailSize, HasType
  <1>3. CASE f.kind = "list"
    <2>1. v \in Seq(Seq(Byte)) /\ TailSize(f, v) = Len(v) * f.size
      BY <1>3 DEF TailSize, HasType
    <2>2. Len(v) \in Nat
      BY <2>1
    <2> QED BY <1>1, <2>1, <2>2
  <1>4. CASE f.kind = "dynlist"
    <2>1. v \in Seq(Seq(Byte)) /\ TailSize(f, v) = 4 * Len(v) + Len(FlattenSeq(v))
      BY <1>4 DEF TailSize, HasType
    <2>2. FlattenSeq(v) \in Seq(Byte)
      BY <2>1, FlattenPieces
    <2>3. Len(FlattenSeq(v)) \in Nat /\ Len(v) \in Nat
      BY <2>1, <2>2
    <2> QED BY <2>1, <2>3
  <1>5. CASE f.kind = "child"
    <2> DEFINE a == Allocated(f, v)
    <2>1. TailSize(f, v) = 4 + Len(a[1])
      BY <1>5 DEF TailSize
    <2>2. HasType(f, a) /\ a # << >>
      BY <1>5, AllocatedType, AllocatedPresent
    <2> HIDE DEF a
    <2>3. a \in Seq(Seq(Byte)) /\ Len(a) = 1
      BY <1>5, <2>2 DEF HasType
    <2>4. a[1] \in Seq(Byte)
      BY <2>3
    <2>5. Len(a[1]) \in Nat
      BY <2>4
    <2> QED BY <2>1, <2>5
  <1> QED BY <1>1, <1>2, <1>3, <1>4, <1>5

(* Where each item begins, then the items.                                 *)
LEMMA EncodeItemsBytes ==
    ASSUME NEW v \in Seq(Seq(Byte))
    PROVE  /\ EncodeItems(v) \in Seq(Byte)
           /\ Len(EncodeItems(v)) = 4 * Len(v) + Len(FlattenSeq(v))
  <1> DEFINE n == Len(v)
             start(i) == 4 * n + Len(FlattenSeq(SubSeq(v, 1, i - 1)))
             heads == [i \in DOMAIN v |-> WriteOffset(start(i))]
             hs == FlattenSeq(heads)
             vs == FlattenSeq(v)
  <1>1. n \in Nat /\ DOMAIN v = 1 .. n
    OBVIOUS
  <1>2. vs \in Seq(Byte) /\ \A i \in 0 .. n : FlattenSeq(SubSeq(v, 1, i)) \in Seq(Byte)
    BY FlattenPieces
  <1>3. ASSUME NEW i \in 1 .. n PROVE start(i) \in Nat
    <2>1. i - 1 \in 0 .. n
      BY <1>1
    <2>2. FlattenSeq(SubSeq(v, 1, i - 1)) \in Seq(Byte)
      BY <1>2, <2>1
    <2>3. Len(FlattenSeq(SubSeq(v, 1, i - 1))) \in Nat
      BY <2>2
    <2> QED BY <1>1, <2>3
  <1> HIDE DEF start
  <1>4. \A i \in 1 .. n : heads[i] \in Seq(Byte) /\ Len(heads[i]) = 4
    BY <1>1, <1>3, WriteOffsetBytes
  <1>5. heads \in Seq(Seq(Byte)) /\ Len(heads) = n
    <2> DEFINE D == Seq(Byte)
    <2>1. heads \in [1 .. n -> D]
      BY <1>1, <1>4
    <2> HIDE DEF heads, D, n
    <2>2. heads \in Seq(D) /\ Len(heads) = n
      BY <1>1, <2>1
    <2> QED BY <2>2 DEF D
  <1> HIDE DEF heads
  <1>6. hs \in Seq(Byte) /\ Len(hs) = n * 4
    <2>1. hs \in Seq(Byte)
      BY <1>5, FlattenPieces
    <2>2. 4 \in Nat /\ \A i \in 1 .. Len(heads) : Len(heads[i]) = 4
      BY <1>4, <1>5
    <2>3. Len(hs) = Len(heads) * 4
      BY <1>5, <2>2, FlattenEven
    <2> QED BY <1>5, <2>1, <2>3
  <1>7. EncodeItems(v) = hs \o vs
    BY DEF EncodeItems, heads, start
  <1> HIDE DEF hs, vs, n
  <1>8. hs \o vs \in Seq(Byte) /\ Len(hs \o vs) = Len(hs) + Len(vs) /\ Len(vs) \in Nat
    BY <1>2, <1>6
  <1> QED BY <1>1, <1>6, <1>7, <1>8 DEF n, vs

(* What a valid variable field is marshalled to has the length that the    *)
(* size template counts.                                                   *)
LEMMA EncodeTailBytes ==
    ASSUME NEW f \in Fields, IsField(f), InTail(f),
           NEW v, HasType(f, v), ~ Invalid(f, v), f.kind = "child" => v # << >>
    PROVE  EncodeTail(f, v) \in Seq(Byte) /\ Len(EncodeTail(f, v)) = TailSize(f, v)
  <1>1. f.size \in Nat /\ f.kind \in {"bytes", "bitlist", "list", "dynlist", "child"}
    BY DEF Fields, Kinds, InTail
  <1>2. CASE f.kind \in {"bytes", "bitlist"}
    BY <1>2 DEF TailSize, HasType, EncodeTail
  <1>3. CASE f.kind = "list"
    <2>1. /\ v \in Seq(Seq(Byte)) /\ TailSize(f, v) = Len(v) * f.size
          /\ EncodeTail(f, v) = FlattenSeq(v)
          /\ \A i \in DOMAIN v : Len(v[i]) = f.size
      BY <1>3 DEF TailSize, HasType, EncodeTail, Invalid
    <2>2. DOMAIN v = 1 .. Len(v)
      BY <2>1
    <2>3. Len(FlattenSeq(v)) = Len(v) * f.size
      <3>1. \A i \in 1 .. Len(v) : Len(v[i]) = f.size
        BY <2>1, <2>2
      <3> QED BY <1>1, <2>1, <3>1, FlattenEven
    <2>4. FlattenSeq(v) \in Seq(Byte)
      BY <2>1, FlattenPieces
    <2> QED BY <2>1, <2>3, <2>4
  <1>4. CASE f.kind = "dynlist"
    BY <1>4, EncodeItemsBytes DEF TailSize, HasType, EncodeTail
  <1>5. CASE f.kind = "child"
    <2>1. /\ v \in Seq(Seq(Byte)) /\ Len(v) = 1 /\ v # << >>
          /\ Allocated(f, v) = v
          /\ EncodeTail(f, v) = WriteOffset(4) \o v[1] /\ TailSize(f, v) = 4 + Len(v[1])
      BY <1>5 DEF HasType, Allocated, EncodeTail, TailSize
    <2>2. v[1] \in Seq(Byte)
      BY <2>1
    <2>3. WriteOffset(4) \in Seq(Byte) /\ Len(WriteOffset(4)) = 4
      BY WriteOffsetBytes
    <2> DEFINE w == WriteOffset(4)
               x == v[1]
    <2>4. w \in Seq(Byte) /\ x \in Seq(Byte) /\ Len(w) = 4
      BY <2>2, <2>3
    <2> HIDE DEF w, x
    <2>5. w \o x \in Seq(Byte) /\ Len(w \o x) = 4 + Len(x)
      BY <2>4, ConcatBytes
    <2> QED BY <2>1, <2>5 DEF w, x
  <1> QED BY <1>1, <1>2, <1>3, <1>4, <1>5

(* The fields of the instances' structs.                                   *)
LEMMA FieldFacts ==
    ASSUME StructInv, NEW i \in DOMAIN fields
    PROVE  /\ fields[i] \in Fields /\ IsField(fields[i])
           /\ fields[i].kind \in Kinds /\ Width(fields[i]) \in Nat
           /\ fields[i].size \in Nat /\ fields[i].max \in Nat /\ fields[i].each \in Nat
  <1>1. PICK x \in Instances : fields = x.fields
    BY DEF StructInv
  <1>2. fields \in Seq(Fields) /\ IsField(fields[i])
    BY <1>1, InstancesAssumption
  <1>3. fields[i] \in Fields
    BY <1>2
  <1>4. /\ fields[i].kind \in Kinds
        /\ fields[i].size \in Nat /\ fields[i].max \in Nat /\ fields[i].each \in Nat
    BY <1>3 DEF Fields
  <1> QED BY <1>2, <1>3, <1>4 DEF Width

(* What is behind field k grows by what field k takes.                     *)
LEMMA TailSumFacts ==
    ASSUME NEW fs \in Seq(Fields), NEW o, \A i \in DOMAIN fs : HasType(fs[i], o[i])
    PROVE  /\ TailSum(fs, o, 1) = 0
           /\ \A k \in 1 .. Len(fs) + 1 : TailSum(fs, o, k) \in Nat
           /\ \A k \in DOMAIN fs :
                TailSum(fs, o, k + 1) =
                  TailSum(fs, o, k) + IF InTail(fs[k]) THEN TailSize(fs[k], o[k]) ELSE 0
           /\ SizeSSZ(fs, o) \in Nat
           /\ \A p : (\A i \in DOMAIN fs : TailSize(fs[i], p[i]) = TailSize(fs[i], o[i]))
                       => /\ SizeSSZ(fs, p) = SizeSSZ(fs, o)
                          /\ \A k \in 1 .. Len(fs) + 1 : TailSum(fs, p, k) = TailSum(fs, o, k)
  <1> DEFINE n == Len(fs)
             Takes(q, i) == IF InTail(fs[i]) THEN TailSize(fs[i], q[i]) ELSE 0
             g == [i \in DOMAIN fs |-> Takes(o, i)]
  <1>1. n \in Nat /\ DOMAIN fs = 1 .. n /\ \A i \in 1 .. n : fs[i] \in Fields
    OBVIOUS
  <1>2. \A i \in 1 .. n : g[i] = Takes(o, i) /\ g[i] \in Nat
    BY <1>1, TailSizeNat
  <1>3. \A k : TailSum(fs, o, k) = SumUpTo(g, k - 1)
    BY DEF TailSum
  <1> HIDE DEF g, n
  <1>4. /\ SumUpTo(g, 0) = 0
        /\ \A k \in 0 .. n : SumUpTo(g, k) \in Nat
        /\ \A k \in 1 .. n : SumUpTo(g, k) = SumUpTo(g, k - 1) + g[k]
    BY <1>1, <1>2, SumSteps
  <1>5. TailSum(fs, o, 1) = 0
    <2>1. 1 - 1 = 0
      OBVIOUS
    <2> QED BY <1>3, <1>4, <2>1
  <1>6. ASSUME NEW k \in 1 .. n + 1 PROVE TailSum(fs, o, k) \in Nat
    <2>1. k - 1 \in 0 .. n
      BY <1>1
    <2> QED BY <1>3, <1>4, <2>1
  <1>7. ASSUME NEW k \in 1 .. n
        PROVE  TailSum(fs, o, k + 1) = TailSum(fs, o, k) + Takes(o, k)
    <2>1. (k + 1) - 1 = k
      BY <1>1
    <2> HIDE DEF Takes
    <2> QED BY <1>2, <1>3, <1>4, <2>1
  <1>8. SizeSSZ(fs, o) \in Nat
    <2>1. n + 1 \in 1 .. n + 1
      BY <1>1
    <2>2. FixedLen(fs) \in Nat
      BY LayoutFacts
    <2>3. TailSum(fs, o, n + 1) \in Nat
      BY <1>6, <2>1
    <2> QED BY <2>2, <2>3 DEF SizeSSZ, n
  <1>9. ASSUME NEW p, \A i \in DOMAIN fs : TailSize(fs[i], p[i]) = TailSize(fs[i], o[i])
        PROVE  /\ SizeSSZ(fs, p) = SizeSSZ(fs, o)
               /\ \A k \in 1 .. n + 1 : TailSum(fs, p, k) = TailSum(fs, o, k)
    <2> DEFINE h == [i \in DOMAIN fs |-> Takes(p, i)]
    <2>1. h = g
      BY <1>9 DEF g
    <2>2. \A k : TailSum(fs, p, k) = TailSum(fs, o, k)
      BY <1>3, <2>1 DEF TailSum
    <2> QED BY <2>2 DEF SizeSSZ
  <1> QED BY <1>1, <1>5, <1>6, <1>7, <1>8, <1>9 DEF n

---------------------------------------------------------------------------
(* Every field holds a value of its Go type, whatever is made or decoded.  *)
LEMMA FirstOfSeq ==
    ASSUME NEW T, NEW s \in Seq(T), Len(s) = 1
    PROVE  s[1] \in T
OBVIOUS

(* A new object has the types of its fields.                               *)
LEMMA ZeroType ==
    ASSUME NEW f \in Fields, IsField(f)
    PROVE  HasType(f, Zero(f))
  <1>1. f.size \in Nat /\ f.kind \in Kinds /\ (f.kind = "bool" => f.size = 1)
    BY DEF Fields, IsField
  <1>2. CASE f.kind \in {"uint", "bool"}
    <2> DEFINE z == [i \in 1 .. f.size |-> 0]
    <2>1. Zero(f) = z
      BY <1>2 DEF Zero
    <2>2. z \in [1 .. f.size -> Byte]
      BY DEF Byte
    <2>3. z \in Seq(Byte) /\ Len(z) = f.size
      <3> HIDE DEF z
      <3> QED BY <1>1, <2>2, FunctionIsSeq
    <2>4. f.kind = "bool" => z = <<0>>
      BY <1>1
    <2> HIDE DEF z
    <2> QED BY <1>2, <2>1, <2>3, <2>4 DEF HasType
  <1>3. CASE f.kind \notin {"uint", "bool"}
    <2>1. Zero(f) = << >>
      BY <1>3 DEF Zero
    <2> DEFINE z == << >>
    <2>2. z \in Seq(Byte) /\ z \in Seq(Seq(Byte)) /\ z = << >>
      OBVIOUS
    <2> HIDE DEF z
    <2>3. HasType(f, z)
      BY <1>1, <1>3, <2>2 DEF HasType, Kinds
    <2> QED BY <2>1, <2>3 DEF z
  <1> QED BY <1>2, <1>3

(* A field of the fixed part is decoded to a value of its type.            *)
LEMMA DecodeFixedType ==
    ASSUME NEW f \in Fields, ~ InTail(f), NEW v, HasType(f, v),
           NEW b \in Seq(Byte), Len(b) = Width(f)
    PROVE  HasType(f, DecodeFixed(f, v, b))
  <1>1. f.kind \in {"uint", "bool", "fixedBytes"}
    BY DEF InTail
  <1>2. CASE f.kind = "uint"
    BY <1>2 DEF HasType, DecodeFixed, Width, InTail
  <1>3. CASE f.kind = "bool"
    BY <1>3 DEF HasType, DecodeFixed
  <1>4. CASE f.kind = "fixedBytes"
    <2>1. v \in Seq(Byte) /\ DecodeFixed(f, v, b) = v \o b
      BY <1>4 DEF HasType, DecodeFixed
    <2>2. v \o b \in Seq(Byte)
      BY <2>1
    <2> QED BY <1>4, <2>1, <2>2 DEF HasType
  <1> QED BY <1>1, <1>2, <1>3, <1>4

(* A list's elements are slices of the size one after another.             *)
LEMMA ElementBytes ==
    ASSUME NEW b \in Seq(Byte), NEW s \in Nat \ {0}, NEW k \in 1 .. Len(b) \div s
    PROVE  Slice(b, (k - 1) * s, k * s) \in Seq(Byte) /\ Len(Slice(b, (k - 1) * s, k * s)) = s
  <1> DEFINE n == Len(b)
             q == n \div s
  <1>1. n \in Nat
    OBVIOUS
  <1>2. q \in Nat /\ q * s <= n
    <2> HIDE DEF n
    <2> QED BY <1>1
  <1> DEFINE lo == (k - 1) * s
             hi == k * s
  <1>3. hi <= q * s
    <2>1. k <= q /\ k \in Nat
      BY <1>2
    <2> HIDE DEF q, n
    <2> QED BY <1>2, <2>1
  <1>4. lo \in Nat /\ hi \in Nat /\ hi = lo + s
    <2>1. k \in Nat \ {0}
      OBVIOUS
    <2>2. k - 1 \in Nat /\ k * s = (k - 1) * s + s
      BY <2>1
    <2> QED BY <2>1, <2>2
  <1> HIDE DEF lo, hi, n, q
  <1>5. lo <= hi /\ hi <= n /\ hi - lo = s
    BY <1>1, <1>2, <1>3, <1>4
  <1>6. CanSlice(b, lo, hi)
    BY <1>5 DEF CanSlice, n
  <1>7. Slice(b, lo, hi) \in Seq(Byte) /\ Len(Slice(b, lo, hi)) = s
    BY <1>4, <1>5, <1>6, SliceBytes
  <1> QED BY <1>7 DEF lo, hi

(* A list is decoded to elements of bytes.                                 *)
LEMMA DecodeListType ==
    ASSUME NEW f \in Fields, IsField(f), f.kind = "list", NEW v, NEW b \in Seq(Byte)
    PROVE  LET d == DecodeTail(f, v, b)
           IN  /\ d \in Seq(Seq(Byte)) /\ Len(d) = Len(b) \div f.size
               /\ \A k \in 1 .. Len(d) : Len(d[k]) = f.size
  <1> DEFINE n == Len(b) \div f.size
             d == [k \in 1 .. n |-> Slice(b, (k - 1) * f.size, k * f.size)]
  <1>1. f.size \in Nat \ {0}
    BY DEF Fields, IsField
  <1>2. n \in Nat
    <2> DEFINE s == f.size
               l == Len(b)
    <2>1. s \in Nat \ {0} /\ l \in Nat
      BY <1>1
    <2> HIDE DEF s, l
    <2>2. l \div s \in Nat
      BY <2>1
    <2> QED BY <2>2 DEF s, l
  <1>3. \A k \in 1 .. n : d[k] \in Seq(Byte) /\ Len(d[k]) = f.size
    BY <1>1, ElementBytes
  <1>4. DecodeTail(f, v, b) = d
    BY DEF DecodeTail
  <1>5. d \in Seq(Seq(Byte)) /\ Len(d) = n
    <2> DEFINE D == Seq(Byte)
    <2>1. d \in [1 .. n -> D]
      BY <1>3
    <2> HIDE DEF d, D, n
    <2> QED BY <1>2, <2>1, FunctionIsSeq DEF D
  <1> HIDE DEF d, n
  <1> QED BY <1>3, <1>4, <1>5 DEF n

(* A child is decoded to one slice of bytes, of the length its offset      *)
(* leaves.                                                                 *)
LEMMA DecodeChild ==
    ASSUME NEW f \in Fields, f.kind = "child", NEW v, HasType(f, v),
           NEW b \in Seq(Byte), ~ ChildRefuses(f, b)
    PROVE  LET d == DecodeTail(f, v, b)
           IN  /\ HasType(f, d) /\ d # << >>
               /\ Len(d[1]) = Len(Allocated(f, v)[1]) + (Len(b) - ReadOffset(b))
               /\ Len(b) - ReadOffset(b) \in 0 .. f.each
  <1> DEFINE a == Allocated(f, v)
             o == ReadOffset(b)
             s == Slice(b, o, Len(b))
             x == a[1]
             d == <<x \o s>>
  <1>1. Len(b) \in Nat /\ Len(b) >= 4 /\ o <= Len(b) /\ o >= 4 /\ Len(b) - o <= f.each
        /\ f.each \in Nat /\ o \in Nat
    <2>1. Len(b) \in Nat /\ f.each \in Nat
      BY DEF Fields
    <2>2. ~ (Len(b) < 4)
      BY DEF ChildRefuses
    <2>3. o \in Nat
      BY <2>1, <2>2, ReadOffsetNat
    <2> HIDE DEF o
    <2>4. ~ (o > Len(b)) /\ ~ (o < 4) /\ ~ (Len(b) - o > f.each)
      BY DEF ChildRefuses, o
    <2> QED BY <2>1, <2>2, <2>3, <2>4
  <1>2. s \in Seq(Byte) /\ Len(s) = Len(b) - o
    <2> HIDE DEF o
    <2>1. CanSlice(b, o, Len(b))
      BY <1>1 DEF CanSlice
    <2> QED BY <1>1, <2>1, SliceBytes
  <1>3. x \in Seq(Byte)
    <2>1. HasType(f, a) /\ a # << >>
      BY AllocatedType, AllocatedPresent
    <2> HIDE DEF a
    <2>2. a \in Seq(Seq(Byte)) /\ Len(a) = 1
      BY <2>1 DEF HasType
    <2>3. a[1] \in Seq(Byte)
      BY <2>2, FirstOfSeq
    <2> QED BY <2>3
  <1> HIDE DEF x, s
  <1>4. x \o s \in Seq(Byte) /\ Len(x \o s) = Len(x) + Len(s)
    BY <1>2, <1>3, ConcatBytes
  <1>5. d \in Seq(Seq(Byte)) /\ Len(d) = 1 /\ d[1] = x \o s /\ d # << >>
    BY <1>4
  <1>6. DecodeTail(f, v, b) = d
    BY DEF DecodeTail, x, s
  <1>7. HasType(f, d)
    <2> HIDE DEF d
    <2> QED BY <1>5 DEF HasType
  <1>8. Len(b) - o \in 0 .. f.each
    <2> HIDE DEF o
    <2> QED BY <1>1
  <1> HIDE DEF d, o, a
  <1> QED BY <1>2, <1>4, <1>5, <1>6, <1>7, <1>8 DEF x, a, o

(* A variable field is decoded to a value of its type.                     *)
LEMMA DecodeTailType ==
    ASSUME NEW f \in Fields, IsField(f), InTail(f), f.kind # "dynlist",
           NEW v, HasType(f, v), NEW b \in Seq(Byte), ~ Refuses(f, b)
    PROVE  HasType(f, DecodeTail(f, v, b))
  <1>1. f.kind \in {"bytes", "bitlist", "list", "child"}
    BY DEF InTail, Fields, Kinds
  <1>2. CASE f.kind \in {"bytes", "bitlist"}
    <2>1. v \in Seq(Byte) /\ DecodeTail(f, v, b) = v \o b
      BY <1>2 DEF HasType, DecodeTail
    <2>2. v \o b \in Seq(Byte)
      BY <2>1
    <2> QED BY <1>2, <2>1, <2>2 DEF HasType
  <1>3. CASE f.kind = "list"
    BY <1>3, DecodeListType DEF HasType
  <1>4. CASE f.kind = "child"
    BY <1>4, DecodeChild DEF Refuses
  <1> QED BY <1>1, <1>2, <1>3, <1>4

---------------------------------------------------------------------------
(* Types, and with them what the sizes of the parts add up to.             *)
HasTypes == \A i \in DOMAIN fields : HasType(fields[i], obj[i])

TypedInv ==
    /\ HasTypes
    /\ out \in Seq(Byte)
    /\ phase = "items" => fields[pc].kind = "dynlist"
    /\ TypeOK

(* The caller starts with an object of the types of its fields.            *)
LEMMA InitTyped == Init => TypedInv
  <1> SUFFICES ASSUME Init PROVE TypedInv
    OBVIOUS
  <1>1. PICK x \in Instances : fields = x.fields /\ obj = x.obj
    BY DEF Init
  <1>2. HasTypes /\ DOMAIN obj = DOMAIN fields /\ fields \in Seq(Fields)
    BY <1>1, InstancesAssumption DEF HasTypes
  <1>3. 1 \in 1 .. Len(fields) + 1
    BY <1>2
  <1>4. TypeOK
    <2>1. 0 \in 0 .. MaxCalls
      BY CallsAssumption
    <2>2. offs = << >> /\ offs \in Seq(Nat) /\ Len(offs) = 0 /\ at = 0
      BY DEF Init
    <2>3. at \in 0 .. Len(offs)
      BY <2>2
    <2> QED BY <1>2, <1>3, <2>1, <2>2, <2>3 DEF Init, TypeOK
  <1>5. out \in Seq(Byte) /\ phase = "idle"
    BY DEF Init
  <1> QED BY <1>2, <1>4, <1>5 DEF TypedInv

(* SizeSSZ and the beginning of MarshalSSZ only create children.           *)
LEMMA TypedCalls ==
    ASSUME IInv, IInv', TypedInv, CallSizeSSZ \/ CallMarshalSSZ \/ CallMarshalSSZTo
    PROVE  TypedInv'
  <1>1. /\ fields' = fields /\ origin' = origin /\ offs' = << >> /\ at' = 0 /\ out' = << >>
        /\ calls < MaxCalls /\ calls' = calls + 1
        /\ call' \in Calls /\ phase' \in {"idle", "head"} /\ result' \in {"ok", "none"}
        /\ offset' \in {0, FixedLen(fields)}
        /\ size' \in {size, SizeSSZ(fields, obj)}
        /\ obj' = obj \/ obj' = AllAllocated
    BY DEF CallSizeSSZ, CallMarshalSSZ, CallMarshalSSZTo, Begin, Idle, WriteNothing,
           ReadNothing, Calls
  <1>2. HasTypes'
    BY <1>1, AllocatedType DEF TypedInv, HasTypes, AllAllocated, TypeOK
  <1>3. offset' \in Nat /\ size' \in Nat
    <2>1. fields \in Seq(Fields) /\ FixedLen(fields) \in Nat
      BY StructFacts DEF IInv
    <2>2. SizeSSZ(fields, obj) \in Nat
      BY <2>1, TailSumFacts DEF TypedInv, HasTypes
    <2> QED BY <1>1, <2>1, <2>2 DEF TypedInv, TypeOK
  <1>4. calls' \in 0 .. MaxCalls
    BY <1>1, CallsAssumption DEF TypedInv, TypeOK
  <1>5. at' \in 0 .. Len(offs')
    <2>1. Len(offs') = 0
      BY <1>1
    <2> QED BY <1>1, <2>1
  <1>6. (DOMAIN obj = DOMAIN fields /\ pc \in 1 .. Len(fields) + 1 /\ offs \in Seq(Nat))'
    BY DEF IInv, StructInv, OffsetsInv
  <1>7. TypeOK'
    BY <1>1, <1>3, <1>4, <1>5, <1>6 DEF TypeOK, TypedInv
  <1>8. out' \in Seq(Byte) /\ phase' # "items"
    BY <1>1
  <1> QED BY <1>2, <1>7, <1>8 DEF TypedInv

(* Marshalling appends bytes.                                              *)
LEMMA FixedIsBytes ==
    ASSUME NEW f \in Fields, NEW v, ~ InTail(f), HasType(f, v)
    PROVE  v \in Seq(Byte)
  <1>1. f.kind \in {"uint", "bool", "fixedBytes"}
    BY DEF InTail
  <1>2. 0 \in Byte /\ 1 \in Byte
    BY DEF Byte
  <1>3. <<0>> \in Seq(Byte) /\ <<1>> \in Seq(Byte)
    BY <1>2
  <1> QED BY <1>1, <1>3 DEF HasType

(* Marshalling appends bytes.                                              *)
LEMMA TypedMarshal ==
    ASSUME IInv, IInv', TypedInv, MarshalAction
    PROVE  TypedInv'
  <1>1. /\ fields' = fields /\ origin' = origin /\ offs' = offs /\ at' = at
        /\ calls' = calls /\ call' = call /\ size' = size
        /\ phase' \in {"idle", "head", "tail"}
        /\ result' \in {"none", "ok", "error", "panic"}
    <2>1. result \in {"none", "ok", "error", "panic"}
      BY DEF TypedInv, TypeOK
    <2>2. CASE MarshalFixed
      BY <2>1, <2>2 DEF MarshalFixed, caller, reading, Return, AtField
    <2>3. CASE MarshalOffset
      BY <2>1, <2>3 DEF MarshalOffset, caller, reading, AtTail, AtField
    <2>4. CASE EndMarshalHead
      BY <2>1, <2>4 DEF EndMarshalHead, caller, reading, writing
    <2>5. CASE MarshalTail
      BY <2>1, <2>5 DEF MarshalTail, caller, reading, Return, AtTail, AtField
    <2>6. CASE EndMarshal
      BY <2>1, <2>6 DEF EndMarshal, reading, writing, Return
    <2> QED BY <2>2, <2>3, <2>4, <2>5, <2>6 DEF MarshalAction
  <1>2. (DOMAIN obj = DOMAIN fields /\ pc \in 1 .. Len(fields) + 1 /\ offs \in Seq(Nat))'
    BY DEF IInv, StructInv, OffsetsInv
  <1>3. HasTypes' /\ out' \in Seq(Byte) /\ offset' \in Nat
    <2>1. CASE MarshalFixed
      <3>1. pc \in DOMAIN fields /\ ~ InTail(fields[pc]) /\ obj' = obj /\ offset' = offset
            /\ (out' = out \/ out' = out \o obj[pc])
        BY <2>1 DEF MarshalFixed, AtField
      <3>2. obj[pc] \in Seq(Byte)
        BY <3>1, FieldFacts, FixedIsBytes DEF IInv, TypedInv, HasTypes
      <3>3. out' \in Seq(Byte)
        BY <3>1, <3>2, ConcatBytes DEF TypedInv
      <3> QED BY <1>1, <3>1, <3>3 DEF TypedInv, TypeOK, HasTypes
    <2>2. CASE MarshalOffset
      <3>1. /\ pc \in DOMAIN fields /\ InTail(fields[pc])
            /\ out' = out \o WriteOffset(offset)
            /\ \/ offset' = offset /\ obj' = obj
               \/ /\ offset' = offset + TailSize(fields[pc], obj[pc])
                  /\ obj' = [obj EXCEPT ![pc] = Allocated(fields[pc], @)]
        BY <2>2 DEF MarshalOffset, AtTail, AtField
      <3>2. offset \in Nat /\ out \in Seq(Byte) /\ HasType(fields[pc], obj[pc])
        BY <3>1 DEF TypedInv, TypeOK, HasTypes
      <3>3. out' \in Seq(Byte)
        BY <3>1, <3>2, ConcatBytes, WriteOffsetBytes
      <3>4. TailSize(fields[pc], obj[pc]) \in Nat
        BY <3>1, <3>2, TailSizeNat, FieldFacts DEF IInv
      <3>5. HasTypes'
        <4> SUFFICES ASSUME NEW i \in DOMAIN fields PROVE HasType(fields[i], obj'[i])
          BY <1>1 DEF HasTypes
        <4>1. obj'[i] = obj[i] \/ (i = pc /\ obj'[i] = Allocated(fields[pc], obj[pc]))
          BY <3>1 DEF TypedInv, TypeOK
        <4> QED BY <3>2, <4>1, AllocatedType DEF TypedInv, HasTypes
      <3> QED BY <3>1, <3>2, <3>3, <3>4, <3>5
    <2>3. CASE EndMarshalHead
      BY <1>1, <2>3 DEF EndMarshalHead, writing, TypedInv, TypeOK, HasTypes
    <2>4. CASE MarshalTail
      <3>1. /\ pc \in DOMAIN fields /\ InTail(fields[pc]) /\ obj' = obj /\ offset' = offset
            /\ \/ out' = out
               \/ /\ out' = out \o EncodeTail(fields[pc], obj[pc])
                  /\ ~ Invalid(fields[pc], obj[pc])
                  /\ fields[pc].kind = "child" => obj[pc] # << >>
        BY <2>4 DEF MarshalTail, AtTail, AtField
      <3>2. out' = out \/ EncodeTail(fields[pc], obj[pc]) \in Seq(Byte)
        BY <3>1, FieldFacts, EncodeTailBytes DEF IInv, TypedInv, HasTypes
      <3>3. out' \in Seq(Byte)
        BY <3>1, <3>2, ConcatBytes DEF TypedInv
      <3> QED BY <1>1, <3>1, <3>3 DEF TypedInv, TypeOK, HasTypes
    <2>5. CASE EndMarshal
      BY <1>1, <2>5 DEF EndMarshal, writing, TypedInv, TypeOK, HasTypes
    <2> QED BY <2>1, <2>2, <2>3, <2>4, <2>5 DEF MarshalAction
  <1>4. TypeOK'
    BY <1>1, <1>2, <1>3 DEF TypeOK, TypedInv
  <1> QED BY <1>1, <1>3, <1>4 DEF TypedInv

(* How many items the first offset announces.                              *)
LEMMA DynamicLengthNat ==
    ASSUME NEW f, NEW b \in Seq(Byte), ~ LengthRefused(f, b)
    PROVE  DynamicLength(b) \in Nat
  <1>1. CASE b = << >>
    BY <1>1 DEF DynamicLength
  <1>2. CASE b # << >>
    <2>1. Len(b) \in Nat /\ Len(b) >= 4
      BY <1>2 DEF LengthRefused
    <2> DEFINE o == ReadOffset(b)
    <2>2. o \in Nat
      BY <2>1, ReadOffsetNat
    <2> HIDE DEF o
    <2>3. o \div 4 \in Nat
      BY <2>2
    <2> QED BY <1>2, <2>3 DEF DynamicLength, o
  <1> QED BY <1>1, <1>2

(* A skipped field changes nothing but the place.                          *)
LEMMA TypedSkip ==
    ASSUME IInv, IInv', TypedInv, SkipFixed
    PROVE  TypedInv'
  <1>1. /\ caller' = caller /\ obj' = obj /\ writing' = writing /\ reading' = reading
        /\ phase' = phase /\ result' = result /\ phase \in {"tail", "dynamic"}
    BY DEF SkipFixed, AtField
  <1>2. pc' \in 1 .. Len(fields') + 1
    BY DEF IInv, StructInv
  <1> QED BY <1>1, <1>2
          DEF TypedInv, TypeOK, HasTypes, caller, writing, reading

(* Decoding starts with the object at hand, or with a new one.             *)
LEMMA TypedCallUnmarshal ==
    ASSUME IInv, IInv', TypedInv, CallUnmarshalSSZ
    PROVE  TypedInv'
  <1>1. /\ fields' = fields /\ origin' \in {"new", "used"} /\ offs' = << >> /\ at' = 0
        /\ out' = << >> /\ offset' = 0 /\ size' = size
        /\ calls < MaxCalls /\ calls' = calls + 1 /\ call' \in Calls
        /\ phase' \in {"idle", "fields"} /\ result' \in {"error", "none"}
        /\ obj' = obj \/ obj' = New(fields)
    BY DEF CallUnmarshalSSZ, Begin, Idle, WriteNothing, Calls
  <1>2. HasTypes'
    BY <1>1, ZeroType, FieldFacts DEF IInv, TypedInv, HasTypes, New
  <1>3. calls' \in 0 .. MaxCalls
    BY <1>1, CallsAssumption DEF TypedInv, TypeOK
  <1>4. at' \in 0 .. Len(offs')
    <2>1. Len(offs') = 0
      BY <1>1
    <2> QED BY <1>1, <2>1
  <1>5. (DOMAIN obj = DOMAIN fields /\ pc \in 1 .. Len(fields) + 1 /\ offs \in Seq(Nat))'
    BY DEF IInv, StructInv, OffsetsInv
  <1>6. TypeOK'
    BY <1>1, <1>3, <1>4, <1>5 DEF TypeOK, TypedInv
  <1> QED BY <1>1, <1>2, <1>6 DEF TypedInv

(* Where a fixed field's bytes are.                                        *)
LEMMA FieldBytesFacts ==
    ASSUME IInv, phase = "fields", pc \in DOMAIN fields
    PROVE  FieldBytes \in Seq(Byte) /\ Len(FieldBytes) = Width(fields[pc])
  <1> DEFINE lo == HeadOffset(fields, pc)
             hi == HeadOffset(fields, pc + 1)
             w  == Width(fields[pc])
  <1>1. lo \in Nat /\ hi = lo + w /\ hi <= FixedLen(fields) /\ FixedLen(fields) \in Nat
    BY StructFacts DEF IInv
  <1>2. w \in Nat /\ FixedLen(fields) <= Len(input) /\ input \in Seq(Byte)
    BY FieldFacts DEF IInv, OffsetsInv, StructInv
  <1> HIDE DEF lo, hi, w
  <1>3. hi \in Nat /\ hi - lo = w /\ lo <= hi /\ hi <= Len(input)
    BY <1>1, <1>2
  <1>4. CanSlice(input, lo, hi)
    BY <1>3 DEF CanSlice
  <1>5. Slice(input, lo, hi) \in Seq(Byte) /\ Len(Slice(input, lo, hi)) = w
    BY <1>1, <1>2, <1>3, <1>4, SliceBytes
  <1> QED BY <1>5 DEF FieldBytes, lo, hi, w

(* What decoding does to the object: at most the field at hand.            *)
LEMMA UnmarshalObj ==
    ASSUME IInv, TypedInv, UnmarshalAction
    PROVE  /\ \A i \in DOMAIN fields : i # pc => obj'[i] = obj[i]
           /\ HasTypes'
  <1>1. fields' = fields /\ DOMAIN obj = DOMAIN fields
    BY UnmarshalFrame DEF IInv, StructInv
  <1>2. SUFFICES ASSUME NEW i \in DOMAIN fields
                 PROVE  (i # pc => obj'[i] = obj[i]) /\ HasType(fields[i], obj'[i])
    BY <1>1 DEF HasTypes
  <1>3. HasType(fields[i], obj[i]) /\ fields[i] \in Fields /\ IsField(fields[i])
    BY FieldFacts DEF TypedInv, HasTypes, IInv
  <1>4. CASE UnmarshalFixed
    <2>1. /\ pc \in DOMAIN fields /\ ~ InTail(fields[pc]) /\ phase = "fields"
          /\ obj' = [obj EXCEPT ![pc] = DecodeFixed(fields[pc], @, FieldBytes)]
      BY <1>4 DEF UnmarshalFixed, AtField
    <2>2. FieldBytes \in Seq(Byte) /\ Len(FieldBytes) = Width(fields[pc])
      BY <2>1, FieldBytesFacts
    <2>3. obj'[i] = IF i = pc THEN DecodeFixed(fields[i], obj[i], FieldBytes) ELSE obj[i]
      BY <1>1, <2>1
    <2> QED BY <1>3, <2>1, <2>2, <2>3, DecodeFixedType
  <1>5. CASE UnmarshalOffset \/ EndUnmarshalFields \/ EndUnmarshal
    <2>1. obj' = obj
      BY <1>5 DEF UnmarshalOffset, EndUnmarshalFields, EndUnmarshal
    <2> QED BY <1>3, <2>1
  <1>6. CASE UnmarshalTail
    <2>1. /\ phase = "dynamic" /\ pc \in Tails(fields) /\ InTail(fields[pc])
          /\ fields[pc].kind # "dynlist"
          /\ \/ obj' = obj
             \/ obj' = [obj EXCEPT ![pc] = Allocated(fields[pc], @)]
             \/ /\ obj' = [obj EXCEPT ![pc] = DecodeTail(fields[pc], @, Buf)]
                /\ ~ Refuses(fields[pc], Buf)
      BY <1>6 DEF UnmarshalTail, AtTail, AtField, Tails
    <2>2. Buf \in Seq(Byte)
      BY <2>1, BufFacts
    <2>3. CASE obj' = obj
      BY <1>3, <2>3
    <2>4. CASE obj' = [obj EXCEPT ![pc] = Allocated(fields[pc], @)]
      <3>1. obj'[i] = IF i = pc THEN Allocated(fields[i], obj[i]) ELSE obj[i]
        BY <1>1, <2>4
      <3> QED BY <1>3, <3>1, AllocatedType
    <2>5. CASE /\ obj' = [obj EXCEPT ![pc] = DecodeTail(fields[pc], @, Buf)]
               /\ ~ Refuses(fields[pc], Buf)
      <3>1. obj'[i] = IF i = pc THEN DecodeTail(fields[i], obj[i], Buf) ELSE obj[i]
        BY <1>1, <2>5
      <3>2. i = pc => HasType(fields[i], DecodeTail(fields[i], obj[i], Buf))
        BY <1>3, <2>1, <2>2, <2>5, DecodeTailType
      <3> QED BY <1>3, <3>1, <3>2
    <2> QED BY <2>1, <2>3, <2>4, <2>5
  <1>7. CASE BeginItems
    <2>1. /\ phase = "dynamic" /\ pc \in Tails(fields) /\ fields[pc].kind = "dynlist"
          /\ CanSlice(input, From, To)
      BY <1>7, BufFacts DEF BeginItems, AtTail, AtField, Tails
    <2> DEFINE num == DynamicLength(Buf)
               new == [k \in 1 .. num |-> NoBytes]
    <2>2. obj' = obj \/ (obj' = [obj EXCEPT ![pc] = new] /\ ~ LengthRefused(fields[pc], Buf))
      BY <1>7, <2>1 DEF BeginItems
    <2>3. ASSUME ~ LengthRefused(fields[pc], Buf) PROVE new \in Seq(Seq(Byte))
      <3>1. num \in Nat
        BY <2>1, <2>3, DynamicLengthNat, BufFacts
      <3> DEFINE D == Seq(Byte)
      <3>2. NoBytes \in D
        BY DEF NoBytes
      <3> HIDE DEF D, num
      <3>3. new \in [1 .. num -> D]
        BY <3>2
      <3> HIDE DEF new
      <3>4. new \in Seq(D)
        BY <3>1, <3>3, FunctionIsSeq
      <3> QED BY <3>4 DEF D
    <2>4. obj'[i] = obj[i] \/ (i = pc /\ obj'[i] = new /\ ~ LengthRefused(fields[pc], Buf))
      <3> HIDE DEF new
      <3> QED BY <1>1, <2>2
    <2> HIDE DEF new
    <2>5. i = pc => fields[i].kind = "dynlist"
      BY <2>1
    <2>6. (i = pc /\ obj'[i] = new /\ ~ LengthRefused(fields[pc], Buf))
             => HasType(fields[i], obj'[i])
      BY <2>3, <2>5 DEF HasType
    <2>7. i # pc => obj'[i] = obj[i]
      BY <2>4
    <2> QED BY <1>3, <2>4, <2>6, <2>7
  <1>8. CASE UnmarshalItem
    <2>1. /\ phase = "items" /\ fields[pc].kind = "dynlist"
      BY <1>8 DEF UnmarshalItem, TypedInv
    <2> DEFINE s == Slice(items.src, items.start, ItemEnd)
               old == obj[pc]
               new == [old EXCEPT ![items.indx] = @ \o s]
    <2>2. obj' = obj \/ (obj' = [obj EXCEPT ![pc] = new] /\ ~ ItemRefused)
      BY <1>8 DEF UnmarshalItem
    <2>3. ASSUME i = pc, ~ ItemRefused PROVE new \in Seq(Seq(Byte))
      <3>1. /\ items.src \in Seq(Byte) /\ items.start \in Nat /\ ItemEnd \in Nat
            /\ CanSlice(items.src, items.start, ItemEnd)
        BY <2>1, <2>3, ItemEndNat DEF IInv, ItemsInv
      <3>2. s \in Seq(Byte)
        BY <3>1, SliceBytes
      <3>3. old \in Seq(Seq(Byte))
        BY <1>3, <2>1, <2>3 DEF HasType
      <3> HIDE DEF old, s
      <3>4. \A k \in DOMAIN old : old[k] \in Seq(Byte) /\ old[k] \o s \in Seq(Byte)
        BY <3>2, <3>3, ConcatBytes
      <3> DEFINE D == Seq(Byte)
                 n == Len(old)
      <3>5. n \in Nat /\ DOMAIN old = 1 .. n /\ old \in [1 .. n -> D]
        BY <3>3
      <3>6. new \in [1 .. n -> D]
        BY <3>4, <3>5
      <3> HIDE DEF new, D, n
      <3>7. new \in Seq(D)
        BY <3>5, <3>6, FunctionIsSeq
      <3> QED BY <3>7 DEF D
    <2> HIDE DEF new
    <2>4. obj'[i] = obj[i] \/ (i = pc /\ obj'[i] = new /\ ~ ItemRefused)
      BY <1>1, <2>2
    <2>5. (i = pc /\ obj'[i] = new /\ ~ ItemRefused) => HasType(fields[i], obj'[i])
      BY <2>1, <2>3 DEF HasType
    <2> QED BY <1>3, <2>4, <2>5
  <1> QED BY <1>4, <1>5, <1>6, <1>7, <1>8 DEF UnmarshalAction

(* Each step of decoding keeps the types.                                  *)
LEMMA TypedUnmarshal ==
    ASSUME IInv, IInv', TypedInv, UnmarshalAction
    PROVE  TypedInv'
  <1>1. /\ fields' = fields /\ call' = call /\ call = "UnmarshalSSZ"
        /\ phase' \in {"fields", "dynamic", "items", "idle"} /\ offs \in Seq(Nat)
    BY UnmarshalFrame DEF IInv, OffsetsInv
  <1>2. HasTypes'
    BY UnmarshalObj
  <1>3. calls' = calls /\ writing' = writing /\ origin' \in {origin, "decoded"}
    BY DEF UnmarshalAction, UnmarshalFixed, UnmarshalOffset, EndUnmarshalFields,
           UnmarshalTail, BeginItems, UnmarshalItem, EndUnmarshal, caller
  <1>4. result' \in {"none", "ok", "error", "panic"}
    BY DEF UnmarshalAction, UnmarshalFixed, UnmarshalOffset, EndUnmarshalFields,
           UnmarshalTail, BeginItems, UnmarshalItem, EndUnmarshal, Return, TypedInv, TypeOK
  <1>5. phase' = "items" => fields'[pc'].kind = "dynlist"
    <2>1. CASE UnmarshalFixed
      BY <2>1 DEF UnmarshalFixed, AtField
    <2>2. CASE UnmarshalOffset
      BY <2>2 DEF UnmarshalOffset, AtTail, AtField, Return
    <2>3. CASE EndUnmarshalFields
      BY <2>3 DEF EndUnmarshalFields
    <2>4. CASE UnmarshalTail
      BY <2>4 DEF UnmarshalTail, AtTail, AtField, Return
    <2>5. CASE BeginItems
      BY <1>1, <2>5 DEF BeginItems, AtTail, AtField, Return
    <2>6. CASE UnmarshalItem
      BY <1>1, <2>6 DEF UnmarshalItem, Return, TypedInv
    <2>7. CASE EndUnmarshal
      BY <2>7 DEF EndUnmarshal, Return
    <2> QED BY <2>1, <2>2, <2>3, <2>4, <2>5, <2>6, <2>7 DEF UnmarshalAction
  <1>6. at' \in 0 .. Len(offs')
    <2>1. at \in 0 .. Len(offs) /\ Len(offs) \in Nat
      BY <1>1 DEF TypedInv, TypeOK
    <2>2. CASE UnmarshalFixed \/ EndUnmarshalFields \/ UnmarshalItem \/ EndUnmarshal
      BY <2>1, <2>2 DEF UnmarshalFixed, EndUnmarshalFields, UnmarshalItem, EndUnmarshal, reading
    <2>3. CASE UnmarshalOffset
      <3>1. at' = at /\ (offs' = offs \/ Len(offs') = Len(offs) + 1)
        BY <1>1, <2>3 DEF UnmarshalOffset
      <3> QED BY <2>1, <3>1
    <2>4. CASE UnmarshalTail \/ BeginItems
      <3>1. at' = at + 1 /\ offs' = offs /\ phase = "dynamic" /\ pc \in Tails(fields)
        BY <2>4 DEF UnmarshalTail, BeginItems, AtTail, AtField, Tails
      <3>2. /\ at = Cardinality(TailsBefore(pc)) /\ Len(offs) = Cardinality(Tails(fields))
        BY <3>1 DEF IInv, AtInv, OffsetsInv
      <3>3. pc \in DOMAIN fields
        BY <3>1, StructFacts DEF IInv
      <3>4. Cardinality(TailsBefore(pc)) + 1 <= Cardinality(Tails(fields))
        BY <3>1, <3>3, TailCount DEF IInv
      <3> QED BY <2>1, <3>1, <3>2, <3>4
    <2> QED BY <2>2, <2>3, <2>4 DEF UnmarshalAction
  <1>7. (DOMAIN obj = DOMAIN fields /\ pc \in 1 .. Len(fields) + 1 /\ offs \in Seq(Nat))'
    BY DEF IInv, StructInv, OffsetsInv
  <1>8. TypeOK'
    BY <1>1, <1>3, <1>4, <1>6, <1>7 DEF TypeOK, TypedInv, writing
  <1> QED BY <1>2, <1>3, <1>5, <1>8 DEF TypedInv, writing

(* Types are invariant.                                                    *)
THEOREM Typing == Spec => []TypedInv
  <1>1. TypedInv /\ IInv /\ IInv' /\ [Next]_vars => TypedInv'
    <2> SUFFICES ASSUME TypedInv, IInv, IInv', [Next]_vars PROVE TypedInv'
      OBVIOUS
    <2>1. CASE CallSizeSSZ \/ CallMarshalSSZ \/ CallMarshalSSZTo
      BY <2>1, TypedCalls
    <2>2. CASE MarshalAction
      BY <2>2, TypedMarshal
    <2>3. CASE SkipFixed
      BY <2>3, TypedSkip
    <2>4. CASE CallUnmarshalSSZ
      BY <2>4, TypedCallUnmarshal
    <2>5. CASE UnmarshalAction
      BY <2>5, TypedUnmarshal
    <2>6. CASE Stop \/ UNCHANGED vars
      <3>1. UNCHANGED vars
        BY <2>6 DEF Stop
      <3> QED BY <3>1 DEF vars, caller, writing, reading, TypedInv, HasTypes, TypeOK
    <2> QED BY <2>1, <2>2, <2>3, <2>4, <2>5, <2>6 DEF Next, MarshalAction, UnmarshalAction
  <1> QED BY InitTyped, Invariance, <1>1, PTL DEF Spec

(* The variables have their types, in every state of every call.           *)
THEOREM TypeCorrect == Spec => []TypeOK
  <1>1. TypedInv => TypeOK
    BY DEF TypedInv
  <1> QED BY <1>1, Typing, PTL

---------------------------------------------------------------------------
(* What has been written is as long as the fields behind it take.          *)
SizeInv ==
    /\ phase = "head" => Len(out) = HeadOffset(fields, pc)
    /\ phase = "tail" => Len(out) = FixedLen(fields) + TailSum(fields, obj, pc)
    /\ phase \in {"head", "tail"} /\ call = "MarshalSSZ" => size = SizeSSZ(fields, obj)
    /\ SizeIsExact

(* A valid field of the fixed part takes its width.                        *)
LEMMA FixedLength ==
    ASSUME NEW f \in Fields, IsField(f), ~ InTail(f), NEW v, HasType(f, v), ~ Invalid(f, v)
    PROVE  Len(v) = Width(f)
  <1>1. f.kind \in {"uint", "bool", "fixedBytes"} /\ Width(f) = f.size
    BY DEF InTail, Width
  <1>2. f.kind = "uint" => Len(v) = f.size
    BY DEF HasType
  <1>3. f.kind = "bool" => Len(v) = f.size
    <2>1. Len(<<0>>) = 1 /\ Len(<<1>>) = 1
      OBVIOUS
    <2> QED BY <2>1 DEF HasType, IsField
  <1>4. f.kind = "fixedBytes" => Len(v) = f.size
    BY DEF Invalid
  <1> QED BY <1>1, <1>2, <1>3, <1>4

(* Creating the nil children changes no size.                              *)
LEMMA SizeOfAllocated ==
    ASSUME IInv, TypedInv, NEW p,
           \A i \in DOMAIN fields : p[i] \in {obj[i], Allocated(fields[i], obj[i])}
    PROVE  /\ SizeSSZ(fields, p) = SizeSSZ(fields, obj)
           /\ \A k \in 1 .. Len(fields) + 1 : TailSum(fields, p, k) = TailSum(fields, obj, k)
  <1>1. fields \in Seq(Fields)
    BY StructFacts DEF IInv
  <1>2. \A i \in DOMAIN fields : HasType(fields[i], obj[i])
    BY DEF TypedInv, HasTypes
  <1>3. \A i \in DOMAIN fields : TailSize(fields[i], p[i]) = TailSize(fields[i], obj[i])
    BY <1>2, AllocatedType
  <1> QED BY <1>1, <1>2, <1>3, TailSumFacts

(* The size asked for at the beginning is that of the object.              *)
LEMMA SizeCalls ==
    ASSUME IInv, TypedInv, CallSizeSSZ \/ CallMarshalSSZ \/ CallMarshalSSZTo
    PROVE  SizeInv'
  <1>1. /\ fields' = fields /\ pc' = 1 /\ out' = << >>
        /\ phase' = "idle" => call' = "SizeSSZ"
        /\ phase' \in {"idle", "head"} /\ (phase' = "head" => result' = "none")
        /\ call' = "MarshalSSZ" => obj' = AllAllocated /\ size' = SizeSSZ(fields, obj)
    BY DEF CallSizeSSZ, CallMarshalSSZ, CallMarshalSSZTo, Begin, WriteNothing
  <1>2. Len(out') = 0 /\ HeadOffset(fields, 1) = 0
    <2>1. fields \in Seq(Fields)
      BY StructFacts DEF IInv
    <2> QED BY <1>1, <2>1, LayoutFacts
  <1>3. call' = "MarshalSSZ" => size' = SizeSSZ(fields', obj')
    <2> SUFFICES ASSUME call' = "MarshalSSZ" PROVE size' = SizeSSZ(fields, obj')
      BY <1>1
    <2>1. \A i \in DOMAIN fields : obj'[i] = Allocated(fields[i], obj[i])
      BY <1>1 DEF AllAllocated, TypedInv, TypeOK
    <2> QED BY <1>1, <2>1, SizeOfAllocated
  <1> QED BY <1>1, <1>2, <1>3 DEF SizeInv, SizeIsExact, Marshalling

(* Each step of marshalling appends what the size template counts for it.  *)
LEMMA SizeMarshal ==
    ASSUME IInv, TypedInv, SizeInv, MarshalAction
    PROVE  SizeInv'
  <1>1. /\ fields \in Seq(Fields) /\ Len(fields) \in Nat /\ DOMAIN fields = 1 .. Len(fields)
        /\ FixedLen(fields) \in Nat /\ out \in Seq(Byte) /\ Len(out) \in Nat
        /\ \A k \in DOMAIN fields :
             /\ HeadOffset(fields, k) \in Nat
             /\ HeadOffset(fields, k + 1) = HeadOffset(fields, k) + Width(fields[k])
    BY StructFacts DEF IInv, TypedInv
  <1>2. /\ TailSum(fields, obj, 1) = 0
        /\ \A k \in DOMAIN fields : TailSum(fields, obj, k) \in Nat
        /\ \A k \in DOMAIN fields :
             InTail(fields[k]) => TailSum(fields, obj, k + 1)
                                    = TailSum(fields, obj, k) + TailSize(fields[k], obj[k])
    <2>1. \A i \in DOMAIN fields : HasType(fields[i], obj[i])
      BY DEF TypedInv, HasTypes
    <2>2. /\ TailSum(fields, obj, 1) = 0
          /\ \A k \in 1 .. Len(fields) + 1 : TailSum(fields, obj, k) \in Nat
          /\ \A k \in DOMAIN fields :
               TailSum(fields, obj, k + 1) = TailSum(fields, obj, k)
                 + IF InTail(fields[k]) THEN TailSize(fields[k], obj[k]) ELSE 0
      BY <1>1, <2>1, TailSumFacts
    <2>3. DOMAIN fields \subseteq 1 .. Len(fields) + 1
      BY <1>1
    <2> QED BY <2>2, <2>3
  <1>3. CASE MarshalFixed
    <2>1. /\ pc \in DOMAIN fields /\ ~ InTail(fields[pc]) /\ phase = "head"
          /\ fields' = fields /\ obj' = obj /\ size' = size /\ call' = call
          /\ \/ phase' = "idle" /\ result' = "error"
             \/ /\ ~ Invalid(fields[pc], obj[pc]) /\ out' = out \o obj[pc] /\ pc' = pc + 1
                /\ phase' = "head" /\ result' = result
      BY <1>3 DEF MarshalFixed, AtField, Return, caller
    <2>2. result = "none"
      BY <2>1 DEF IInv, PhaseInv
    <2>3. /\ fields[pc] \in Fields /\ IsField(fields[pc]) /\ HasType(fields[pc], obj[pc])
          /\ obj[pc] \in Seq(Byte)
      BY <2>1, FieldFacts, FixedIsBytes DEF IInv, TypedInv, HasTypes
    <2>4. phase' = "head" => Len(out') = Len(out) + Width(fields[pc])
      BY <1>1, <2>1, <2>3, ConcatBytes, FixedLength
    <2>5. phase' = "head" => Len(out') = HeadOffset(fields', pc')
      BY <1>1, <2>1, <2>4 DEF SizeInv
    <2> QED BY <2>1, <2>2, <2>5 DEF SizeInv, SizeIsExact
  <1>4. CASE MarshalOffset
    <2>1. /\ pc \in DOMAIN fields /\ InTail(fields[pc]) /\ phase = "head" /\ phase' = "head"
          /\ fields' = fields /\ size' = size /\ call' = call /\ result' = result
          /\ out' = out \o WriteOffset(offset) /\ pc' = pc + 1
          /\ obj' = obj \/ obj' = [obj EXCEPT ![pc] = Allocated(fields[pc], @)]
      BY <1>4 DEF MarshalOffset, AtTail, AtField, caller
    <2>2. offset \in Nat /\ Width(fields[pc]) = 4 /\ result = "none"
      BY <2>1 DEF TypedInv, TypeOK, Width, IInv, PhaseInv
    <2>3. Len(out') = Len(out) + 4
      BY <1>1, <2>1, <2>2, ConcatBytes, WriteOffsetBytes
    <2>4. Len(out') = HeadOffset(fields', pc')
      BY <1>1, <2>1, <2>2, <2>3 DEF SizeInv
    <2>5. \A i \in DOMAIN fields : obj'[i] \in {obj[i], Allocated(fields[i], obj[i])}
      BY <2>1 DEF TypedInv, TypeOK
    <2>6. SizeSSZ(fields, obj') = SizeSSZ(fields, obj)
      BY <2>5, SizeOfAllocated
    <2> QED BY <2>1, <2>2, <2>4, <2>6 DEF SizeInv, SizeIsExact
  <1>5. CASE EndMarshalHead
    <2>1. /\ pc \notin DOMAIN fields /\ phase = "head" /\ phase' = "tail" /\ pc' = 1
          /\ fields' = fields /\ obj' = obj /\ size' = size /\ call' = call
          /\ result' = result /\ out' = out
      BY <1>5 DEF EndMarshalHead, PastLast, caller, writing
    <2>2. pc = Len(fields) + 1 /\ result = "none"
      BY <1>1, <2>1 DEF IInv, StructInv, PhaseInv
    <2>3. Len(out') = FixedLen(fields') + TailSum(fields', obj', pc')
      BY <1>1, <1>2, <2>1, <2>2 DEF SizeInv, FixedLen
    <2> QED BY <2>1, <2>2, <2>3 DEF SizeInv, SizeIsExact
  <1>6. CASE MarshalTail
    <2>1. /\ pc \in DOMAIN fields /\ InTail(fields[pc]) /\ phase = "tail"
          /\ fields' = fields /\ obj' = obj /\ size' = size /\ call' = call
          /\ \/ phase' = "idle" /\ result' \in {"error", "panic"}
             \/ /\ ~ Invalid(fields[pc], obj[pc]) /\ pc' = pc + 1
                /\ fields[pc].kind = "child" => obj[pc] # << >>
                /\ out' = out \o EncodeTail(fields[pc], obj[pc])
                /\ phase' = "tail" /\ result' = result
      BY <1>6 DEF MarshalTail, AtTail, AtField, Return, caller
    <2>2. result = "none"
      BY <2>1 DEF IInv, PhaseInv
    <2>3. fields[pc] \in Fields /\ IsField(fields[pc]) /\ HasType(fields[pc], obj[pc])
      BY <2>1, FieldFacts DEF IInv, TypedInv, HasTypes
    <2>4. TailSize(fields[pc], obj[pc]) \in Nat
      BY <2>1, <2>3, TailSizeNat
    <2>5. phase' = "tail" => Len(out') = Len(out) + TailSize(fields[pc], obj[pc])
      BY <1>1, <2>1, <2>3, ConcatBytes, EncodeTailBytes
    <2>6. phase' = "tail" => Len(out') = FixedLen(fields') + TailSum(fields', obj', pc')
      BY <1>1, <1>2, <2>1, <2>4, <2>5 DEF SizeInv
    <2> QED BY <2>1, <2>2, <2>6 DEF SizeInv, SizeIsExact
  <1>7. CASE EndMarshal
    <2>1. /\ pc \notin DOMAIN fields /\ phase = "tail" /\ phase' = "idle"
          /\ fields' = fields /\ obj' = obj /\ size' = size /\ call' = call /\ out' = out
      BY <1>7 DEF EndMarshal, PastLast, Return, writing
    <2>2. pc = Len(fields) + 1
      BY <1>1, <2>1 DEF IInv, StructInv
    <2>3. Len(out') = SizeSSZ(fields', obj')
      BY <2>1, <2>2 DEF SizeInv, SizeSSZ
    <2> QED BY <2>1, <2>3 DEF SizeInv, SizeIsExact
  <1> QED BY <1>3, <1>4, <1>5, <1>6, <1>7 DEF MarshalAction

(* A fixed field that the second loop skips has no bytes there.            *)
LEMMA SizeSkip ==
    ASSUME IInv, TypedInv, SizeInv, SkipFixed
    PROVE  SizeInv'
  <1>1. /\ caller' = caller /\ obj' = obj /\ writing' = writing /\ phase' = phase
        /\ result' = result /\ pc' = pc + 1 /\ pc \in DOMAIN fields
        /\ ~ InTail(fields[pc]) /\ phase \in {"tail", "dynamic"}
    BY DEF SkipFixed, AtField
  <1>2. fields \in Seq(Fields)
    BY StructFacts DEF IInv
  <1>3. TailSum(fields, obj, pc + 1) = TailSum(fields, obj, pc) + 0
        /\ TailSum(fields, obj, pc) \in Nat
    BY <1>1, <1>2, TailSumFacts DEF TypedInv, HasTypes
  <1>4. TailSum(fields, obj, pc + 1) = TailSum(fields, obj, pc)
    BY <1>3
  <1>5. result = "none"
    BY <1>1 DEF IInv, PhaseInv
  <1> QED BY <1>1, <1>4, <1>5 DEF SizeInv, SizeIsExact, caller, writing

(* The sizes are invariant.                                                *)
THEOREM Sizing == Spec => []SizeInv
  <1>1. Init => SizeInv
    BY DEF Init, SizeInv, SizeIsExact, Marshalling
  <1>2. SizeInv /\ IInv /\ TypedInv /\ [Next]_vars => SizeInv'
    <2> SUFFICES ASSUME SizeInv, IInv, TypedInv, [Next]_vars PROVE SizeInv'
      OBVIOUS
    <2>1. CASE CallSizeSSZ \/ CallMarshalSSZ \/ CallMarshalSSZTo
      BY <2>1, SizeCalls
    <2>2. CASE MarshalAction
      BY <2>2, SizeMarshal
    <2>3. CASE SkipFixed
      BY <2>3, SizeSkip
    <2>4. CASE CallUnmarshalSSZ
      <3>1. call' = "UnmarshalSSZ" /\ phase' \in {"idle", "fields"}
        BY <2>4 DEF CallUnmarshalSSZ, Begin
      <3> QED BY <3>1 DEF SizeInv, SizeIsExact, Marshalling
    <2>5. CASE UnmarshalAction
      <3>1. call' = "UnmarshalSSZ" /\ phase' \in {"fields", "dynamic", "items", "idle"}
        BY <2>5, UnmarshalFrame
      <3> QED BY <3>1 DEF SizeInv, SizeIsExact, Marshalling
    <2>6. CASE Stop \/ UNCHANGED vars
      <3>1. UNCHANGED vars
        BY <2>6 DEF Stop
      <3> QED BY <3>1 DEF vars, caller, writing, SizeInv, SizeIsExact, Marshalling
    <2> QED BY <2>1, <2>2, <2>3, <2>4, <2>5, <2>6 DEF Next, MarshalAction, UnmarshalAction
  <1> QED BY <1>1, <1>2, Invariance, Typing, PTL DEF Spec

(* SizeSSZ and MarshalSSZTo count the same bytes, for every struct type    *)
(* and every object: MarshalSSZ fills the buffer it made and no more.      *)
THEOREM SizeIsRight == Spec => []SizeIsExact
  <1>1. SizeInv => SizeIsExact
    BY DEF SizeInv
  <1> QED BY <1>1, Sizing, PTL

---------------------------------------------------------------------------
(* A value that marshalling accepts.                                       *)
Fits(f, v) == ~ Invalid(f, v) /\ (f.kind = "child" => v # << >>)

(* A bitlist's bytes are held against its bits when it is marshalled, and  *)
(* against one byte more than an eighth of them when it is decoded: the    *)
(* first is the weaker check unless the maximum is 0.                      *)
BitlistsHaveRoom ==
    \A x \in Instances : \A i \in DOMAIN x.fields :
        x.fields[i].kind = "bitlist" => x.fields[i].max > 0

(* What is decoded of the fixed part can be marshalled.                    *)
LEMMA FixedFits ==
    ASSUME NEW f \in Fields, ~ InTail(f), NEW b \in Seq(Byte), Len(b) = Width(f)
    PROVE  Fits(f, DecodeFixed(f, Zero(f), b))
  <1>1. f.kind \in {"uint", "bool", "fixedBytes"} /\ Width(f) = f.size
    BY DEF InTail, Width
  <1>2. CASE f.kind \in {"uint", "bool"}
    BY <1>2 DEF Fits, Invalid
  <1>3. CASE f.kind = "fixedBytes"
    <2>1. Zero(f) = << >> /\ DecodeFixed(f, Zero(f), b) = << >> \o b
      BY <1>3 DEF Zero, DecodeFixed
    <2>2. << >> \o b = b
      OBVIOUS
    <2> QED BY <1>1, <1>3, <2>1, <2>2 DEF Fits, Invalid
  <1> QED BY <1>1, <1>2, <1>3

(* What is decoded of a variable field can be marshalled.                  *)
LEMMA TailFits ==
    ASSUME NEW f \in Fields, IsField(f), InTail(f), f.kind # "dynlist",
           f.kind = "bitlist" => f.max > 0,
           NEW b \in Seq(Byte), ~ Refuses(f, b)
    PROVE  Fits(f, DecodeTail(f, Zero(f), b))
  <1>1. f.kind \in {"bytes", "bitlist", "list", "child"} /\ Zero(f) = << >>
        /\ f.max \in Nat /\ f.each \in Nat /\ Len(b) \in Nat
    BY DEF InTail, Fields, Kinds, Zero
  <1>2. CASE f.kind \in {"bytes", "bitlist"}
    <2>1. DecodeTail(f, Zero(f), b) = << >> \o b
      BY <1>1, <1>2 DEF DecodeTail
    <2>2. << >> \o b = b
      OBVIOUS
    <2>3. Len(b) <= f.max
      <3>1. CASE f.kind = "bytes"
        BY <1>1, <3>1 DEF Refuses
      <3>2. CASE f.kind = "bitlist"
        <4> DEFINE m == f.max
                   n == Len(b)
        <4>1. n <= m \div 8 + 1 /\ m \in Nat /\ m > 0 /\ n \in Nat
          BY <1>1, <3>2 DEF Refuses, ValidateBitlist
        <4> HIDE DEF m, n
        <4>2. n <= m
          BY <4>1
        <4> QED BY <4>2 DEF m, n
      <3> QED BY <1>2, <3>1, <3>2
    <2>4. ~ (Len(b) > f.max)
      BY <1>1, <2>3
    <2> QED BY <1>2, <2>1, <2>2, <2>4 DEF Fits, Invalid
  <1>3. CASE f.kind = "list"
    <2> DEFINE d == DecodeTail(f, Zero(f), b)
               q == Len(b) \div f.size
    <2>1. /\ d \in Seq(Seq(Byte)) /\ Len(d) = q
          /\ \A k \in 1 .. Len(d) : Len(d[k]) = f.size
      BY <1>3, DecodeListType
    <2>2. ~ (q > f.max)
      BY <1>3 DEF Refuses
    <2> HIDE DEF d, q
    <2>3. DOMAIN d = 1 .. Len(d)
      BY <2>1
    <2>4. ~ Invalid(f, d)
      BY <1>3, <2>1, <2>2, <2>3 DEF Invalid
    <2> QED BY <1>3, <2>4 DEF Fits, d
  <1>4. CASE f.kind = "child"
    <2> DEFINE d == DecodeTail(f, Zero(f), b)
               l == Len(b) - ReadOffset(b)
    <2>1. HasType(f, Zero(f))
      BY ZeroType
    <2>2. /\ d # << >> /\ Len(d[1]) = Len(Allocated(f, Zero(f))[1]) + l
          /\ l \in 0 .. f.each
      BY <1>4, <2>1, DecodeChild DEF Refuses
    <2>3. Len(Allocated(f, Zero(f))[1]) = 0
      <3>1. <<NoBytes>>[1] = << >> /\ Len(<< >>) = 0
        BY DEF NoBytes
      <3>2. Allocated(f, Zero(f)) = <<NoBytes>>
        BY <1>1, <1>4 DEF Allocated
      <3> QED BY <3>1, <3>2
    <2> HIDE DEF d, l
    <2>4. ~ (Len(d[1]) > f.each)
      BY <1>1, <2>2, <2>3
    <2> QED BY <1>4, <2>2, <2>4 DEF Fits, Invalid, d
  <1> QED BY <1>1, <1>2, <1>3, <1>4

(* What has been created already fits as before.                           *)
LEMMA AllocatedFits ==
    ASSUME NEW f, NEW v, Fits(f, v)
    PROVE  Allocated(f, v) = v
  BY DEF Fits, Allocated

---------------------------------------------------------------------------
(* Of an object decoded from scratch, the fields behind the reader are as  *)
(* marshalling wants them, and those ahead are as new made them.           *)
Decoded(i) ==
    IF phase = "fields" THEN ~ InTail(fields[i]) /\ i < pc ELSE ~ InTail(fields[i]) \/ i < pc
DecodingInv ==
    phase \in {"fields", "dynamic", "items"} /\ origin = "new" =>
        \A i \in DOMAIN fields :
            \/ Decoded(i) /\ Fits(fields[i], obj[i])
            \/ ~ Decoded(i) /\ phase = "items" /\ i = pc
            \/ ~ Decoded(i) /\ obj[i] = Zero(fields[i])

(* A list of items is filled from the front; what is ahead is empty.       *)
RoomInv ==
    phase = "items" =>
        /\ items.indx \in Nat \ {0}
        /\ Len(obj[pc]) = items.indx + items.left - 1
        /\ origin = "new" =>
             /\ Len(obj[pc]) <= fields[pc].max
             /\ \A k \in DOMAIN obj[pc] :
                  Len(obj[pc][k]) <= IF k < items.indx THEN fields[pc].each ELSE 0

(* What has been decoded is marshalled without an error.                   *)
DecodedInv ==
    origin = "decoded" => /\ phase \in {"idle", "head", "tail"}
                          /\ \A i \in DOMAIN fields : Fits(fields[i], obj[i])
                          /\ Marshalling => result \in {"none", "ok"}

FitInv == DecodingInv /\ RoomInv /\ DecodedInv

(* Creating the children makes no field invalid.                           *)
LEMMA FitCalls ==
    ASSUME IInv, TypedInv, FitInv, CallSizeSSZ \/ CallMarshalSSZ \/ CallMarshalSSZTo
    PROVE  FitInv'
  <1>1. /\ fields' = fields /\ origin' = origin /\ phase = "idle"
        /\ phase' \in {"idle", "head"} /\ result' \in {"ok", "none"}
        /\ obj' = obj \/ obj' = AllAllocated
    BY DEF CallSizeSSZ, CallMarshalSSZ, CallMarshalSSZTo, Begin, Idle
  <1>2. ASSUME origin = "decoded", NEW i \in DOMAIN fields PROVE Fits(fields[i], obj'[i])
    <2>1. Fits(fields[i], obj[i])
      BY <1>2 DEF FitInv, DecodedInv
    <2>2. obj'[i] \in {obj[i], Allocated(fields[i], obj[i])}
      BY <1>1, <1>2 DEF AllAllocated, TypedInv, TypeOK
    <2> QED BY <2>1, <2>2, AllocatedFits
  <1> QED BY <1>1, <1>2 DEF FitInv, DecodingInv, RoomInv, DecodedInv

(* A decoded object is marshalled without an error.                        *)
LEMMA FitMarshal ==
    ASSUME IInv, TypedInv, FitInv, MarshalAction
    PROVE  FitInv'
  <1>1. /\ fields' = fields /\ origin' = origin /\ call' = call
        /\ phase \in {"head", "tail"} /\ phase' \in {"idle", "head", "tail"}
    BY DEF MarshalAction, MarshalFixed, MarshalOffset, EndMarshalHead, MarshalTail,
           EndMarshal, AtTail, AtField, PastLast, Return, caller
  <1>2. result = "none" /\ DOMAIN obj = DOMAIN fields
    BY <1>1 DEF IInv, PhaseInv, StructInv
  <1>3. ASSUME origin = "decoded"
        PROVE  /\ result' \in {"none", "ok"}
               /\ \A i \in DOMAIN fields : Fits(fields[i], obj'[i])
    <2>1. \A i \in DOMAIN fields : Fits(fields[i], obj[i])
      BY <1>3 DEF FitInv, DecodedInv
    <2>2. CASE MarshalFixed
      BY <1>2, <2>1, <2>2 DEF MarshalFixed, AtField, Fits
    <2>3. CASE MarshalOffset
      <3>1. result' = result /\ pc \in DOMAIN fields
            /\ (obj' = obj \/ obj' = [obj EXCEPT ![pc] = Allocated(fields[pc], @)])
        BY <2>3 DEF MarshalOffset, AtTail, AtField
      <3>2. \A i \in DOMAIN fields : obj'[i] \in {obj[i], Allocated(fields[i], obj[i])}
        BY <1>2, <3>1
      <3> QED BY <1>2, <2>1, <3>1, <3>2, AllocatedFits
    <2>4. CASE EndMarshalHead
      BY <1>2, <2>1, <2>4 DEF EndMarshalHead
    <2>5. CASE MarshalTail
      BY <1>2, <2>1, <2>5 DEF MarshalTail, AtTail, AtField, Fits
    <2>6. CASE EndMarshal
      BY <2>1, <2>6 DEF EndMarshal, Return
    <2> QED BY <2>2, <2>3, <2>4, <2>5, <2>6 DEF MarshalAction
  <1> QED BY <1>1, <1>3 DEF FitInv, DecodingInv, RoomInv, DecodedInv

(* A skipped field was decoded by the first loop.                          *)
LEMMA FitSkip ==
    ASSUME IInv, TypedInv, FitInv, SkipFixed
    PROVE  FitInv'
  <1>1. /\ caller' = caller /\ obj' = obj /\ items' = items /\ phase' = phase
        /\ result' = result /\ pc' = pc + 1 /\ pc \in DOMAIN fields
        /\ ~ InTail(fields[pc]) /\ phase \in {"tail", "dynamic"}
    BY DEF SkipFixed, AtField, reading
  <1>2. DOMAIN fields = 1 .. Len(fields) /\ Len(fields) \in Nat
    BY StructFacts DEF IInv
  <1>3. phase = "dynamic" => \A i \in DOMAIN fields : Decoded(i)' <=> Decoded(i)
    BY <1>1, <1>2 DEF Decoded, caller
  <1> QED BY <1>1, <1>3 DEF FitInv, DecodingInv, RoomInv, DecodedInv, caller, Marshalling

(* No field of a new object has been decoded.                              *)
LEMMA FitCallUnmarshal ==
    ASSUME IInv, CallUnmarshalSSZ
    PROVE  FitInv'
  <1>1. /\ fields' = fields /\ pc' = 1 /\ phase' \in {"idle", "fields"}
        /\ origin' \in {"new", "used"} /\ (origin' = "new" => obj' = New(fields))
    BY DEF CallUnmarshalSSZ, Begin
  <1>2. DOMAIN fields = 1 .. Len(fields) /\ Len(fields) \in Nat
    BY StructFacts DEF IInv
  <1>3. phase' = "fields" => \A i \in DOMAIN fields : ~ Decoded(i)'
    BY <1>1, <1>2 DEF Decoded
  <1>4. origin' = "new" => \A i \in DOMAIN fields : obj'[i] = Zero(fields[i])
    BY <1>1 DEF New
  <1> QED BY <1>1, <1>3, <1>4 DEF FitInv, DecodingInv, RoomInv, DecodedInv

(* What is ahead stays as it was when only the field at hand changes.      *)
LEMMA FitStep ==
    ASSUME IInv, TypedInv, FitInv, UnmarshalAction,
           phase' \in {"fields", "dynamic"},
           \A i \in DOMAIN fields : i # pc => (Decoded(i)' <=> Decoded(i)),
           \A i \in DOMAIN fields : i = pc => Decoded(i)',
           origin = "new" /\ pc \in DOMAIN fields => Fits(fields[pc], obj'[pc])
    PROVE  DecodingInv'
  <1>1. fields' = fields
    BY UnmarshalFrame
  <1>2. origin' \in {origin, "decoded"}
    BY DEF UnmarshalAction, UnmarshalFixed, UnmarshalOffset, EndUnmarshalFields,
           UnmarshalTail, BeginItems, UnmarshalItem, EndUnmarshal, caller
  <1>3. phase \in {"fields", "dynamic", "items"}
    BY DEF UnmarshalAction, UnmarshalFixed, UnmarshalOffset, EndUnmarshalFields,
           UnmarshalTail, BeginItems, UnmarshalItem, EndUnmarshal, AtTail, AtField, PastLast
  <1>4. ASSUME origin = "new", NEW i \in DOMAIN fields, i # pc
        PROVE  \/ Decoded(i)' /\ Fits(fields[i], obj'[i])
               \/ ~ Decoded(i)' /\ obj'[i] = Zero(fields[i])
    <2>1. obj'[i] = obj[i]
      BY <1>4, UnmarshalObj
    <2>2. \/ Decoded(i) /\ Fits(fields[i], obj[i])
          \/ ~ Decoded(i) /\ obj[i] = Zero(fields[i])
      BY <1>3, <1>4 DEF FitInv, DecodingInv
    <2> QED BY <1>4, <2>1, <2>2
  <1>5. ASSUME origin = "new", NEW i \in DOMAIN fields
        PROVE  \/ Decoded(i)' /\ Fits(fields[i], obj'[i])
               \/ ~ Decoded(i)' /\ obj'[i] = Zero(fields[i])
    BY <1>4, <1>5
  <1> QED BY <1>1, <1>2, <1>5 DEF DecodingInv

(* Going on to the next field leaves that one behind.                      *)
LEMMA DecodedNext ==
    ASSUME IInv, fields' = fields, pc \in DOMAIN fields, pc' = pc + 1, phase' # "items",
           phase' = phase \/ {phase, phase'} = {"items", "dynamic"},
           phase = "fields" => ~ InTail(fields[pc]), phase # "fields" => InTail(fields[pc])
    PROVE  /\ ~ Decoded(pc)
           /\ \A i \in DOMAIN fields : i = pc => Decoded(i)'
           /\ \A i \in DOMAIN fields : i # pc => (Decoded(i)' <=> Decoded(i))
  <1>1. DOMAIN fields = 1 .. Len(fields) /\ Len(fields) \in Nat
    BY StructFacts DEF IInv
  <1>2. pc \in Nat /\ \A i \in DOMAIN fields : i \in Nat
    BY <1>1
  <1>3. phase = "fields" <=> phase' = "fields"
    OBVIOUS
  <1>4. ASSUME NEW i \in DOMAIN fields
        PROVE  /\ i = pc => ~ Decoded(i) /\ Decoded(i)'
               /\ i # pc => (Decoded(i)' <=> Decoded(i))
    <2>1. i \in Nat /\ (i < pc' <=> i < pc \/ i = pc) /\ ~ (pc < pc)
      BY <1>2
    <2> QED BY <1>3, <2>1 DEF Decoded
  <1> QED BY <1>4

(* Each step of decoding leaves fields that can be marshalled.             *)
LEMMA FitUnmarshal ==
    ASSUME BitlistsHaveRoom, IInv, TypedInv, FitInv, UnmarshalAction
    PROVE  FitInv'
  <1>1. /\ fields' = fields /\ call' = call /\ call = "UnmarshalSSZ" /\ result = "none"
        /\ phase' \in {"fields", "dynamic", "items", "idle"}
        /\ DOMAIN obj = DOMAIN fields /\ DOMAIN fields = 1 .. Len(fields)
        /\ Len(fields) \in Nat /\ pc \in 1 .. Len(fields) + 1
    BY UnmarshalFrame, StructFacts DEF IInv, StructInv
  <1>2. origin # "decoded"
    BY DEF UnmarshalAction, UnmarshalFixed, UnmarshalOffset, EndUnmarshalFields,
           UnmarshalTail, BeginItems, UnmarshalItem, EndUnmarshal, AtTail, AtField,
           PastLast, FitInv, DecodedInv
  <1>3. \A i \in DOMAIN fields :
           /\ fields[i] \in Fields /\ IsField(fields[i])
           /\ fields[i].kind = "bitlist" => fields[i].max > 0
    <2>1. PICK x \in Instances : fields = x.fields
      BY DEF IInv, StructInv
    <2> QED BY <2>1, FieldFacts DEF BitlistsHaveRoom, IInv
  <1>4. CASE UnmarshalFixed
    <2>1. /\ phase = "fields" /\ phase' = "fields" /\ pc \in DOMAIN fields
          /\ ~ InTail(fields[pc]) /\ pc' = pc + 1 /\ origin' = origin
          /\ obj' = [obj EXCEPT ![pc] = DecodeFixed(fields[pc], @, FieldBytes)]
      BY <1>4 DEF UnmarshalFixed, AtField, caller
    <2>2. FieldBytes \in Seq(Byte) /\ Len(FieldBytes) = Width(fields[pc])
      BY <2>1, FieldBytesFacts
    <2>3. /\ ~ Decoded(pc)
          /\ \A i \in DOMAIN fields : i = pc => Decoded(i)'
          /\ \A i \in DOMAIN fields : i # pc => (Decoded(i)' <=> Decoded(i))
      BY <1>1, <2>1, DecodedNext
    <2>4. ASSUME origin = "new" PROVE Fits(fields[pc], obj'[pc])
      <3>1. obj[pc] = Zero(fields[pc])
        BY <2>1, <2>3, <2>4 DEF FitInv, DecodingInv
      <3>2. obj'[pc] = DecodeFixed(fields[pc], Zero(fields[pc]), FieldBytes)
        BY <1>1, <2>1, <3>1
      <3> QED BY <1>3, <2>1, <2>2, <3>2, FixedFits
    <2>5. DecodingInv'
      BY <2>1, <2>3, <2>4, FitStep
    <2> QED BY <1>2, <2>1, <2>5 DEF FitInv, RoomInv, DecodedInv
  <1>5. CASE UnmarshalOffset
    <2>1. /\ phase = "fields" /\ pc \in DOMAIN fields /\ InTail(fields[pc])
          /\ origin' = origin /\ obj' = obj
          /\ \/ phase' = "idle"
             \/ phase' = "fields" /\ pc' = pc + 1
      BY <1>5 DEF UnmarshalOffset, AtTail, AtField, Return, caller
    <2>2. phase' = "fields" => \A i \in DOMAIN fields : Decoded(i)' <=> Decoded(i)
      BY <1>1, <2>1 DEF Decoded
    <2>3. DecodingInv'
      BY <1>1, <2>1, <2>2 DEF FitInv, DecodingInv
    <2> QED BY <1>2, <2>1, <2>3 DEF FitInv, RoomInv, DecodedInv
  <1>6. CASE EndUnmarshalFields
    <2>1. /\ phase = "fields" /\ pc \notin DOMAIN fields /\ origin' = origin /\ obj' = obj
          /\ phase' = "dynamic" /\ pc' = 1
      BY <1>6 DEF EndUnmarshalFields, PastLast, caller
    <2>2. pc = Len(fields) + 1
      BY <1>1, <2>1
    <2>3. \A i \in DOMAIN fields : Decoded(i)' <=> Decoded(i)
      BY <1>1, <2>1, <2>2 DEF Decoded
    <2>4. DecodingInv'
      BY <1>1, <2>1, <2>3 DEF FitInv, DecodingInv
    <2> QED BY <1>2, <2>1, <2>4 DEF FitInv, RoomInv, DecodedInv
  <1>7. CASE UnmarshalTail
    <2>1. /\ phase = "dynamic" /\ pc \in Tails(fields) /\ pc \in DOMAIN fields
          /\ InTail(fields[pc]) /\ fields[pc].kind # "dynlist" /\ origin' = origin
          /\ \/ phase' = "idle"
             \/ /\ phase' = "dynamic" /\ pc' = pc + 1 /\ ~ Refuses(fields[pc], Buf)
                /\ obj' = [obj EXCEPT ![pc] = DecodeTail(fields[pc], @, Buf)]
      BY <1>7 DEF UnmarshalTail, AtTail, AtField, Return, Tails, caller
    <2>2. Buf \in Seq(Byte)
      BY <2>1, BufFacts
    <2>3. phase' = "dynamic" =>
             /\ ~ Decoded(pc)
             /\ \A i \in DOMAIN fields : i = pc => Decoded(i)'
             /\ \A i \in DOMAIN fields : i # pc => (Decoded(i)' <=> Decoded(i))
      BY <1>1, <2>1, DecodedNext
    <2>4. ASSUME origin = "new", phase' = "dynamic" PROVE Fits(fields[pc], obj'[pc])
      <3>1. obj[pc] = Zero(fields[pc])
        BY <2>1, <2>3, <2>4 DEF FitInv, DecodingInv
      <3>2. obj'[pc] = DecodeTail(fields[pc], Zero(fields[pc]), Buf)
        BY <1>1, <2>1, <2>4, <3>1
      <3> QED BY <1>3, <2>1, <2>2, <2>4, <3>2, TailFits
    <2>5. DecodingInv'
      <3>1. CASE phase' = "idle"
        BY <3>1 DEF DecodingInv
      <3>2. CASE phase' = "dynamic"
        BY <2>1, <2>3, <2>4, <3>2, FitStep
      <3> QED BY <2>1, <3>1, <3>2
    <2> QED BY <1>2, <2>1, <2>5 DEF FitInv, RoomInv, DecodedInv
  <1>8. CASE BeginItems
    <2> DEFINE num == DynamicLength(Buf)
               new == [i \in 1 .. num |-> NoBytes]
    <2>1. /\ phase = "dynamic" /\ pc \in Tails(fields) /\ pc \in DOMAIN fields
          /\ InTail(fields[pc]) /\ fields[pc].kind = "dynlist" /\ origin' = origin
      BY <1>8 DEF BeginItems, AtTail, AtField, Tails, caller
    <2>2. \/ phase' = "idle"
          \/ /\ phase' = "dynamic" /\ pc' = pc + 1 /\ num = 0
             /\ ~ LengthRefused(fields[pc], Buf) /\ obj' = [obj EXCEPT ![pc] = new]
          \/ /\ phase' = "items" /\ pc' = pc /\ num # 0
             /\ ~ LengthRefused(fields[pc], Buf) /\ obj' = [obj EXCEPT ![pc] = new]
             /\ items'.left = num /\ items'.indx = 1
      BY <1>8 DEF BeginItems, AtTail, AtField, Return
    <2>3. phase' # "idle" =>
             /\ num \in Nat /\ num <= fields[pc].max
             /\ obj'[pc] = new
      <3> SUFFICES ASSUME phase' # "idle"
                   PROVE  num \in Nat /\ num <= fields[pc].max /\ obj'[pc] = new
        OBVIOUS
      <3>1. ~ LengthRefused(fields[pc], Buf) /\ obj' = [obj EXCEPT ![pc] = new]
        BY <2>2
      <3>2. Buf \in Seq(Byte) /\ fields[pc].max \in Nat
        BY <1>3, <2>1, BufFacts DEF Fields
      <3>3. num \in Nat
        BY <3>1, <3>2, DynamicLengthNat
      <3>4. num <= fields[pc].max
        <4>1. CASE Buf = << >>
          BY <3>2, <4>1 DEF DynamicLength
        <4>2. CASE Buf # << >>
          <5>1. num = ReadOffset(Buf) \div 4
            BY <4>2 DEF DynamicLength
          <5>2. ~ (ReadOffset(Buf) \div 4 > fields[pc].max)
            BY <3>1, <4>2 DEF LengthRefused
          <5> HIDE DEF num
          <5>3. ~ (num > fields[pc].max)
            BY <5>1, <5>2
          <5> QED BY <3>2, <3>3, <5>3
        <4> QED BY <4>1, <4>2
      <3> HIDE DEF new, num
      <3>5. obj'[pc] = new
        BY <1>1, <2>1, <3>1
      <3> QED BY <3>3, <3>4, <3>5
    <2>4. num \in Nat => Len(new) = num /\ DOMAIN new = 1 .. num
                         /\ \A k \in DOMAIN new : Len(new[k]) = 0
      BY DEF NoBytes
    <2> HIDE DEF num, new
    <2>5. CASE phase' = "idle"
      BY <1>2, <2>1, <2>5 DEF FitInv, DecodingInv, RoomInv, DecodedInv
    <2>6. CASE phase' = "dynamic"
      <3>1. /\ ~ Decoded(pc)
            /\ \A i \in DOMAIN fields : i = pc => Decoded(i)'
            /\ \A i \in DOMAIN fields : i # pc => (Decoded(i)' <=> Decoded(i))
        BY <1>1, <2>1, <2>2, <2>6, DecodedNext
      <3>2. Fits(fields[pc], obj'[pc])
        <4>1. fields[pc].kind = "dynlist" /\ fields[pc].max \in Nat
          BY <1>3, <2>1 DEF Fields
        <4>2. Len(new) = 0 /\ DOMAIN new = {} /\ obj'[pc] = new
          BY <2>2, <2>3, <2>4, <2>6
        <4>3. ~ (Len(new) > fields[pc].max)
          BY <4>1, <4>2
        <4> QED BY <4>1, <4>2, <4>3 DEF Fits, Invalid
      <3>3. DecodingInv'
        BY <2>1, <2>6, <3>1, <3>2, FitStep
      <3> QED BY <1>2, <2>1, <2>6, <3>3 DEF FitInv, RoomInv, DecodedInv
    <2>7. CASE phase' = "items"
      <3>1. /\ pc' = pc /\ num # 0 /\ items'.left = num /\ items'.indx = 1
            /\ num \in Nat /\ num <= fields[pc].max /\ obj'[pc] = new
        BY <2>2, <2>3, <2>7
      <3>2. RoomInv'
        BY <1>1, <2>4, <3>1 DEF RoomInv
      <3>3. \A i \in DOMAIN fields : Decoded(i)' <=> Decoded(i)
        BY <1>1, <2>1, <2>7, <3>1 DEF Decoded
      <3>4. ~ Decoded(pc)
        BY <1>1, <2>1 DEF Decoded
      <3>5. ASSUME origin = "new", NEW i \in DOMAIN fields, i # pc PROVE obj'[i] = obj[i]
        BY <3>5, UnmarshalObj
      <3>6. DecodingInv'
        BY <1>1, <2>1, <2>7, <3>1, <3>3, <3>4, <3>5 DEF FitInv, DecodingInv
      <3> QED BY <1>2, <2>1, <2>7, <3>2, <3>6 DEF FitInv, DecodedInv
    <2> QED BY <2>2, <2>5, <2>6, <2>7
  <1>9. CASE UnmarshalItem
    <2> DEFINE s == Slice(items.src, items.start, ItemEnd)
               old == obj[pc]
               new == [old EXCEPT ![items.indx] = @ \o s]
    <2>1. /\ phase = "items" /\ pc \in DOMAIN fields /\ pc \in Tails(fields)
          /\ InTail(fields[pc]) /\ fields[pc].kind = "dynlist" /\ origin' = origin
          /\ fields[pc].each \in Nat /\ fields[pc].max \in Nat
      <3>1. phase = "items" /\ origin' = origin
        BY <1>9 DEF UnmarshalItem, caller
      <3>2. pc \in Tails(fields) /\ fields[pc].kind = "dynlist"
        BY <3>1 DEF IInv, AtInv, TypedInv
      <3>3. pc \in DOMAIN fields /\ InTail(fields[pc])
        BY <3>2 DEF Tails
      <3> QED BY <1>3, <3>1, <3>2, <3>3 DEF Fields
    <2>2. \/ phase' = "idle"
          \/ /\ ~ ItemRefused /\ ~ (ItemEnd - items.start > fields[pc].each)
             /\ obj' = [obj EXCEPT ![pc] = new]
             /\ \/ items.left = 1 /\ phase' = "dynamic" /\ pc' = pc + 1
                \/ /\ items.left # 1 /\ phase' = "items" /\ pc' = pc
                   /\ items' = [items EXCEPT !.left = @ - 1, !.start = ItemEnd,
                                             !.pos = @ + 4, !.indx = @ + 1]
      BY <1>9 DEF UnmarshalItem, Return
    <2>3. /\ items.left \in Nat \ {0} /\ items.indx \in Nat \ {0}
          /\ old \in Seq(Seq(Byte)) /\ Len(old) = items.indx + items.left - 1
          /\ origin = "new" => /\ Len(old) <= fields[pc].max
                               /\ \A k \in DOMAIN old :
                                    Len(old[k]) <= IF k < items.indx THEN fields[pc].each ELSE 0
      <3>1. HasType(fields[pc], obj[pc])
        BY <2>1 DEF TypedInv, HasTypes
      <3> QED BY <2>1, <3>1 DEF IInv, ItemsInv, FitInv, RoomInv, HasType
    <2>4. phase' # "idle" => s \in Seq(Byte) /\ Len(s) <= fields[pc].each /\ obj'[pc] = new
      <3> SUFFICES ASSUME phase' # "idle"
                   PROVE  s \in Seq(Byte) /\ Len(s) <= fields[pc].each /\ obj'[pc] = new
        OBVIOUS
      <3>1. ~ ItemRefused /\ ~ (ItemEnd - items.start > fields[pc].each)
            /\ obj' = [obj EXCEPT ![pc] = new]
        BY <2>2
      <3>2. items.src \in Seq(Byte) /\ items.start \in Nat
        BY <2>1 DEF IInv, ItemsInv
      <3>3. ItemEnd \in Nat /\ CanSlice(items.src, items.start, ItemEnd)
        BY <2>1, <3>1, ItemEndNat
      <3>4. s \in Seq(Byte) /\ Len(s) = ItemEnd - items.start
        BY <3>2, <3>3, SliceBytes
      <3> HIDE DEF new, s
      <3>5. obj'[pc] = new
        BY <1>1, <2>1, <3>1
      <3> QED BY <2>1, <3>1, <3>2, <3>3, <3>4, <3>5
    <2>5. /\ Len(old) \in Nat /\ DOMAIN old = 1 .. Len(old)
          /\ items.indx \in DOMAIN old
      <3> DEFINE l == Len(old)
      <3>1. l \in Nat /\ DOMAIN old = 1 .. l
        BY <2>3
      <3>2. l = items.indx + items.left - 1
        BY <2>3
      <3> HIDE DEF l
      <3>3. items.indx \in 1 .. l
        BY <2>3, <3>1, <3>2
      <3> QED BY <3>1, <3>3 DEF l
    <2>6. phase' # "idle" => /\ Len(new) = Len(old) /\ DOMAIN new = DOMAIN old
                             /\ \A k \in DOMAIN old : k # items.indx => new[k] = old[k]
                             /\ new[items.indx] = old[items.indx] \o s
      <3> HIDE DEF s, old
      <3> QED BY <2>3, <2>5
    <2>7. phase' # "idle" /\ origin = "new" => Len(new[items.indx]) <= fields[pc].each
      <3> SUFFICES ASSUME phase' # "idle", origin = "new"
                   PROVE  Len(new[items.indx]) <= fields[pc].each
        OBVIOUS
      <3> DEFINE x == old[items.indx]
      <3>1. x \in Seq(Byte)
        BY <2>3, <2>5
      <3>2. Len(x) <= 0
        BY <2>3, <2>5
      <3>3. new[items.indx] = x \o s /\ s \in Seq(Byte) /\ Len(s) <= fields[pc].each
        BY <2>4, <2>6
      <3> HIDE DEF x, s, new
      <3>4. Len(x \o s) = Len(x) + Len(s) /\ Len(x) \in Nat /\ Len(s) \in Nat
        BY <3>1, <3>3, ConcatBytes
      <3> QED BY <2>1, <3>2, <3>3, <3>4
    <2> HIDE DEF s, new, old
    <2>8. ASSUME phase' # "idle", origin = "new", NEW k \in DOMAIN new
          PROVE  Len(new[k]) <= IF k < items.indx + 1 THEN fields[pc].each ELSE 0
      <3>1. k \in 1 .. Len(old) /\ k \in DOMAIN old
        BY <2>5, <2>6, <2>8
      <3>2. CASE k = items.indx
        BY <2>3, <2>7, <2>8, <3>2
      <3>3. CASE k # items.indx
        <4>1. new[k] = old[k] /\ (k < items.indx + 1 <=> k < items.indx)
          BY <2>3, <2>6, <2>8, <3>1, <3>3
        <4> QED BY <2>3, <2>8, <3>1, <4>1
      <3> QED BY <3>2, <3>3
    <2>9. CASE phase' = "idle"
      BY <1>2, <2>1, <2>9 DEF FitInv, DecodingInv, RoomInv, DecodedInv
    <2>10. CASE phase' = "dynamic"
      <3>1. items.left = 1 /\ pc' = pc + 1
        BY <2>2, <2>10
      <3>2. /\ \A i \in DOMAIN fields : i = pc => Decoded(i)'
            /\ \A i \in DOMAIN fields : i # pc => (Decoded(i)' <=> Decoded(i))
        <4>1. {phase, phase'} = {"items", "dynamic"}
          BY <2>1, <2>10
        <4> QED BY <1>1, <2>1, <2>10, <3>1, <4>1, DecodedNext
      <3>3. ASSUME origin = "new" PROVE Fits(fields[pc], obj'[pc])
        <4>1. obj'[pc] = new /\ Len(new) <= fields[pc].max /\ Len(new) \in Nat
          BY <2>3, <2>4, <2>5, <2>6, <2>10, <3>3
        <4>2. \A k \in DOMAIN new : ~ (Len(new[k]) > fields[pc].each)
          <5> SUFFICES ASSUME NEW k \in DOMAIN new PROVE ~ (Len(new[k]) > fields[pc].each)
            OBVIOUS
          <5>1. k < items.indx + 1
            BY <2>3, <2>5, <2>6, <2>10, <3>1
          <5>2. Len(new[k]) <= fields[pc].each
            BY <2>8, <2>10, <3>3, <5>1
          <5> DEFINE l == Len(new[k])
          <5>3. l \in Nat
            BY <2>1, <4>1, UnmarshalObj DEF HasTypes
          <5> QED BY <2>1, <5>2, <5>3
        <4>3. ~ (Len(new) > fields[pc].max)
          BY <2>1, <4>1
        <4> QED BY <2>1, <4>1, <4>2, <4>3 DEF Fits, Invalid
      <3>4. DecodingInv'
        BY <2>1, <2>10, <3>2, <3>3, FitStep
      <3> QED BY <1>2, <2>1, <2>10, <3>4 DEF FitInv, RoomInv, DecodedInv
    <2>11. CASE phase' = "items"
      <3>1. /\ items.left # 1 /\ pc' = pc
            /\ items' = [items EXCEPT !.left = @ - 1, !.start = ItemEnd,
                                      !.pos = @ + 4, !.indx = @ + 1]
        BY <2>2, <2>11
      <3>2. obj'[pc] = new /\ Len(new) = items.indx + items.left - 1
        BY <2>3, <2>4, <2>6, <2>11
      <3>3. items'.indx = items.indx + 1 /\ items'.left = items.left - 1
        BY <3>1
      <3>4. RoomInv'
        <4>1. items'.indx \in Nat \ {0} /\ Len(obj'[pc]) = items'.indx + items'.left - 1
          BY <2>3, <3>2, <3>3
        <4>2. ASSUME origin = "new"
              PROVE  /\ Len(obj'[pc]) <= fields[pc].max
                     /\ \A k \in DOMAIN obj'[pc] :
                          Len(obj'[pc][k]) <= IF k < items'.indx THEN fields[pc].each ELSE 0
          BY <2>3, <2>6, <2>8, <2>11, <3>2, <3>3, <4>2
        <4> QED BY <1>1, <2>1, <3>1, <4>1, <4>2 DEF RoomInv
      <3>5. \A i \in DOMAIN fields : Decoded(i)' <=> Decoded(i)
        BY <1>1, <2>1, <2>11, <3>1 DEF Decoded
      <3>6. \A i \in DOMAIN fields : i # pc => obj'[i] = obj[i]
        BY UnmarshalObj
      <3>7. ~ Decoded(pc)
        BY <1>1, <2>1 DEF Decoded
      <3>8. DecodingInv'
        BY <1>1, <2>1, <2>11, <3>1, <3>5, <3>6, <3>7 DEF FitInv, DecodingInv
      <3> QED BY <1>2, <2>1, <2>11, <3>4, <3>8 DEF FitInv, DecodedInv
    <2> QED BY <2>2, <2>9, <2>10, <2>11
  <1>10. CASE EndUnmarshal
    <2>1. /\ phase = "dynamic" /\ pc \notin DOMAIN fields /\ phase' = "idle" /\ obj' = obj
          /\ origin' = IF origin = "new" THEN "decoded" ELSE origin
      BY <1>10 DEF EndUnmarshal, PastLast, Return
    <2>2. pc = Len(fields) + 1
      BY <1>1, <2>1
    <2>3. \A i \in DOMAIN fields : Decoded(i)
      BY <1>1, <2>1, <2>2 DEF Decoded
    <2>4. origin = "new" => \A i \in DOMAIN fields : Fits(fields[i], obj[i])
      BY <2>1, <2>3 DEF FitInv, DecodingInv
    <2> QED BY <1>1, <1>2, <2>1, <2>4 DEF FitInv, DecodingInv, RoomInv, DecodedInv, Marshalling
  <1> QED BY <1>4, <1>5, <1>6, <1>7, <1>8, <1>9, <1>10 DEF UnmarshalAction

(* UnmarshalSSZ accepts into a new object only what can be marshalled, for *)
(* every struct type whose bitlists may hold a bit.                        *)
THEOREM DecodedFits ==
    ASSUME BitlistsHaveRoom
    PROVE  Spec => []DecodedIsEncodable
  <1>1. Init => FitInv
    BY DEF Init, FitInv, DecodingInv, RoomInv, DecodedInv
  <1>2. FitInv /\ IInv /\ TypedInv /\ [Next]_vars => FitInv'
    <2> SUFFICES ASSUME FitInv, IInv, TypedInv, [Next]_vars PROVE FitInv'
      OBVIOUS
    <2>1. CASE CallSizeSSZ \/ CallMarshalSSZ \/ CallMarshalSSZTo
      BY <2>1, FitCalls
    <2>2. CASE MarshalAction
      BY <2>2, FitMarshal
    <2>3. CASE SkipFixed
      BY <2>3, FitSkip
    <2>4. CASE CallUnmarshalSSZ
      BY <2>4, FitCallUnmarshal
    <2>5. CASE UnmarshalAction
      BY <2>5, FitUnmarshal
    <2>6. CASE Stop \/ UNCHANGED vars
      <3>1. UNCHANGED vars
        BY <2>6 DEF Stop
      <3> QED BY <3>1 DEF vars, caller, reading, FitInv, DecodingInv, RoomInv,
              DecodedInv, Decoded, Marshalling
    <2> QED BY <2>1, <2>2, <2>3, <2>4, <2>5, <2>6 DEF Next, MarshalAction, UnmarshalAction
  <1>3. FitInv => DecodedIsEncodable
    BY DEF FitInv, DecodedInv, DecodedIsEncodable
  <1> QED BY <1>1, <1>2, <1>3, Invariance, Typing, PTL DEF Spec

---------------------------------------------------------------------------
(* The round trip: what MarshalSSZ wrote, UnmarshalSSZ accepts, and gives  *)
(* back the object it was written from.  First what each part of an        *)
(* encoding is and where it is, then that marshalling writes it there,     *)
(* then that unmarshalling looks for it there.                             *)

(* What was written can be read.                                           *)
LEMMA SliceKept ==
    ASSUME NEW s \in Seq(Byte), NEW t \in Seq(Byte),
           NEW from \in Nat, NEW to \in Nat, to <= Len(s)
    PROVE  Slice(s \o t, from, to) = Slice(s, from, to)
  BY DEF Slice

(* The slice from where something was appended is what was appended.       *)
LEMMA SliceLast ==
    ASSUME NEW s \in Seq(Byte), NEW t \in Seq(Byte)
    PROVE  Slice(s \o t, Len(s), Len(s) + Len(t)) = t
  BY DEF Slice

(* The elements of a slice, by their places in the whole.                  *)
LEMMA SliceElements ==
    ASSUME NEW s \in Seq(Byte), NEW from \in Nat, NEW to \in Nat, CanSlice(s, from, to)
    PROVE  \A i \in 1 .. to - from : Slice(s, from, to)[i] = s[from + i]
  BY DEF Slice, CanSlice

(* A slice is known by its elements.                                       *)
LEMMA SliceIs ==
    ASSUME NEW s \in Seq(Byte), NEW from \in Nat, NEW to \in Nat, CanSlice(s, from, to),
           NEW t \in Seq(Byte), Len(t) = to - from,
           \A i \in 1 .. Len(t) : s[from + i] = t[i]
    PROVE  Slice(s, from, to) = t
  <1> DEFINE u == Slice(s, from, to)
  <1>1. u \in Seq(Byte) /\ Len(u) = to - from
    BY SliceBytes
  <1>2. \A i \in 1 .. Len(t) : u[i] = t[i]
    BY SliceElements
  <1> HIDE DEF u
  <1>3. u = t
    BY <1>1, <1>2
  <1> QED BY <1>3 DEF u

(* Four bytes hold every number below 2^32.                                *)
OffsetEnd == 4294967296

(* Their values add up to the number.                                      *)
LEMMA BytesOf ==
    ASSUME NEW n \in Nat, n < OffsetEnd
    PROVE  (n % 256) + 256 * ((n \div 256) % 256) + 65536 * ((n \div 65536) % 256)
             + 16777216 * ((n \div 16777216) % 256) = n
  <1> DEFINE a == n \div 256
             b == n \div 65536
             c == n \div 16777216
  <1>1. a \in Nat /\ b \in Nat /\ c \in Nat /\ c < 256
    BY DEF OffsetEnd
  <1>2. n = 256 * a + (n % 256)
    OBVIOUS
  <1>3. a \div 256 = b /\ b \div 256 = c
    OBVIOUS
  <1> HIDE DEF a, b, c
  <1>4. a = 256 * b + (a % 256) /\ b = 256 * c + (b % 256) /\ c % 256 = c
    BY <1>1, <1>3
  <1>5. a % 256 \in Nat /\ b % 256 \in Nat /\ n % 256 \in Nat
    BY <1>1
  <1> DEFINE x == n % 256
             y == a % 256
             z == b % 256
  <1>6. n = 256 * a + x /\ a = 256 * b + y /\ b = 256 * c + z
        /\ x \in Nat /\ y \in Nat /\ z \in Nat
    BY <1>2, <1>4, <1>5
  <1> HIDE DEF x, y, z
  <1>7. x + 256 * y + 65536 * z + 16777216 * c = n
    BY <1>1, <1>6
  <1>8. x + 256 * y + 65536 * z + 16777216 * (c % 256) = n
    BY <1>4, <1>7
  <1> QED BY <1>8 DEF x, y, z, a, b, c

(* ReadOffset of what WriteOffset wrote is the number written.             *)
LEMMA ReadWritten ==
    ASSUME NEW n \in Nat, n < OffsetEnd,
           NEW b \in Seq(Byte), Len(b) >= 4, Slice(b, 0, 4) = WriteOffset(n)
    PROVE  ReadOffset(b) = n
  <1> DEFINE w == WriteOffset(n)
  <1>1. /\ w[1] = n % 256 /\ w[2] = (n \div 256) % 256 /\ w[3] = (n \div 65536) % 256
        /\ w[4] = (n \div 16777216) % 256
    BY DEF WriteOffset
  <1>2. CanSlice(b, 0, 4)
    BY DEF CanSlice
  <1>3. \A i \in 1 .. 4 : w[i] = b[i]
    <2> TAKE i \in 1 .. 4
    <2>1. 4 - 0 = 4 /\ 0 + i = i /\ 0 \in Nat /\ 4 \in Nat
      OBVIOUS
    <2>2. Slice(b, 0, 4)[i] = b[0 + i]
      BY <1>2, <2>1, SliceElements
    <2> QED BY <2>1, <2>2
  <1>4. 1 \in 1 .. 4 /\ 2 \in 1 .. 4 /\ 3 \in 1 .. 4 /\ 4 \in 1 .. 4
    OBVIOUS
  <1> HIDE DEF w
  <1>5. b[1] = w[1] /\ b[2] = w[2] /\ b[3] = w[3] /\ b[4] = w[4]
    BY <1>3, <1>4
  <1>6. w[1] + 256 * w[2] + 65536 * w[3] + 16777216 * w[4] = n
    BY <1>1, BytesOf
  <1> QED BY <1>5, <1>6 DEF ReadOffset

(* Piece i of what was glued together is where the others before it end.   *)
LEMMA FlattenSlice ==
    ASSUME NEW s \in Seq(Seq(Byte)), NEW i \in 1 .. Len(s)
    PROVE  LET lo == Len(FlattenSeq(SubSeq(s, 1, i - 1)))
               hi == Len(FlattenSeq(SubSeq(s, 1, i)))
           IN  /\ lo \in Nat /\ hi = lo + Len(s[i]) /\ hi <= Len(FlattenSeq(s))
               /\ s[i] \in Seq(Byte)
               /\ Slice(FlattenSeq(s), lo, hi) = s[i]
  <1> DEFINE F == FlattenSeq(s)
             A == FlattenSeq(SubSeq(s, 1, i - 1))
             B == FlattenSeq(SubSeq(s, 1, i))
             x == s[i]
  <1>1. i \in 0 .. Len(s) /\ i - 1 \in 0 .. Len(s) /\ x \in Seq(Byte)
    OBVIOUS
  <1>2. /\ F \in Seq(Byte) /\ A \in Seq(Byte) /\ B \in Seq(Byte) /\ B = A \o x
        /\ Len(B) <= Len(F) /\ \A j \in 1 .. Len(B) : F[j] = B[j]
    BY <1>1, FlattenPieces
  <1> HIDE DEF F, A, B, x
  <1>3. /\ Len(A) \in Nat /\ Len(x) \in Nat /\ Len(B) = Len(A) + Len(x) /\ Len(F) \in Nat
        /\ \A j \in 1 .. Len(x) : B[Len(A) + j] = x[j]
    BY <1>1, <1>2
  <1>4. \A j \in 1 .. Len(x) : F[Len(A) + j] = x[j]
    <2> TAKE j \in 1 .. Len(x)
    <2>1. Len(A) + j \in 1 .. Len(B)
      BY <1>3
    <2> QED BY <1>2, <1>3, <2>1
  <1>5. CanSlice(F, Len(A), Len(B)) /\ Len(x) = Len(B) - Len(A) /\ Len(B) \in Nat
    BY <1>2, <1>3 DEF CanSlice
  <1>6. Slice(F, Len(A), Len(B)) = x
    BY <1>1, <1>2, <1>3, <1>4, <1>5, SliceIs
  <1> QED BY <1>1, <1>2, <1>3, <1>6 DEF F, A, B, x

(* Where item j of a list of items is, and that it is there, and its       *)
(* offset in front.                                                        *)
ItemStart(v, j) == 4 * Len(v) + Len(FlattenSeq(SubSeq(v, 1, j - 1)))

(* EncodeItems puts the offset of item j at 4 * (j - 1) and the item where *)
(* the offset says.                                                        *)
LEMMA ItemFacts ==
    ASSUME NEW v \in Seq(Seq(Byte))
    PROVE  LET E == EncodeItems(v)
           IN  /\ E \in Seq(Byte) /\ ItemStart(v, Len(v) + 1) = Len(E)
               /\ ItemStart(v, 1) = 4 * Len(v) /\ 4 * Len(v) <= Len(E)
               /\ \A j \in 1 .. Len(v) :
                    /\ v[j] \in Seq(Byte)
                    /\ ItemStart(v, j) \in Nat
                    /\ ItemStart(v, j + 1) = ItemStart(v, j) + Len(v[j])
                    /\ ItemStart(v, j + 1) <= Len(E)
                    /\ Slice(E, 4 * (j - 1), 4 * j) = WriteOffset(ItemStart(v, j))
                    /\ Slice(E, ItemStart(v, j), ItemStart(v, j + 1)) = v[j]
  <1> DEFINE n == Len(v)
             heads == [i \in DOMAIN v |-> WriteOffset(ItemStart(v, i))]
             hs == FlattenSeq(heads)
             vs == FlattenSeq(v)
  <1>1. n \in Nat /\ DOMAIN v = 1 .. n
    OBVIOUS
  <1>2. vs \in Seq(Byte) /\ \A i \in 0 .. n : FlattenSeq(SubSeq(v, 1, i)) \in Seq(Byte)
    BY FlattenPieces
  <1>3. ASSUME NEW i \in 1 .. n PROVE ItemStart(v, i) \in Nat
    <2>1. i - 1 \in 0 .. n
      BY <1>1
    <2>2. FlattenSeq(SubSeq(v, 1, i - 1)) \in Seq(Byte)
      BY <1>2, <2>1
    <2>3. Len(FlattenSeq(SubSeq(v, 1, i - 1))) \in Nat
      BY <2>2
    <2> QED BY <1>1, <2>3 DEF ItemStart
  <1>4. \A i \in 1 .. n : heads[i] = WriteOffset(ItemStart(v, i))
                          /\ heads[i] \in Seq(Byte) /\ Len(heads[i]) = 4
    BY <1>1, <1>3, WriteOffsetBytes
  <1>5. heads \in Seq(Seq(Byte)) /\ Len(heads) = n
    <2> DEFINE D == Seq(Byte)
    <2>1. heads \in [1 .. n -> D]
      BY <1>1, <1>4
    <2> HIDE DEF heads, D, n
    <2>2. heads \in Seq(D) /\ Len(heads) = n
      BY <1>1, <2>1, FunctionIsSeq
    <2> QED BY <2>2 DEF D
  <1>6. EncodeItems(v) = hs \o vs
    BY DEF EncodeItems, ItemStart
  <1> HIDE DEF heads
  <1>7. /\ hs \in Seq(Byte) /\ Len(hs) = n * 4
        /\ \A i \in 0 .. n : Len(FlattenSeq(SubSeq(heads, 1, i))) = i * 4
    <2>1. hs \in Seq(Byte)
      BY <1>5, FlattenPieces
    <2>2. 4 \in Nat /\ \A i \in 1 .. Len(heads) : Len(heads[i]) = 4
      BY <1>4, <1>5
    <2>3. Len(hs) = Len(heads) * 4
          /\ \A i \in 0 .. Len(heads) : Len(FlattenSeq(SubSeq(heads, 1, i))) = i * 4
      BY <1>5, <2>2, FlattenEven
    <2> QED BY <1>5, <2>1, <2>3
  <1> DEFINE E == hs \o vs
  <1> HIDE DEF hs
  <1>8. /\ E \in Seq(Byte) /\ Len(E) = 4 * n + Len(vs) /\ Len(vs) \in Nat
        /\ Len(E) \in Nat
    <2> HIDE DEF vs, n
    <2> QED BY <1>1, <1>2, <1>7, ConcatBytes
  <1>9. ASSUME NEW j \in 1 .. n
        PROVE  /\ ItemStart(v, j + 1) = ItemStart(v, j) + Len(v[j])
               /\ ItemStart(v, j + 1) <= Len(E) /\ v[j] \in Seq(Byte)
               /\ Slice(E, ItemStart(v, j), ItemStart(v, j + 1)) = v[j]
    <2> DEFINE lo == Len(FlattenSeq(SubSeq(v, 1, j - 1)))
               hi == Len(FlattenSeq(SubSeq(v, 1, j)))
    <2>1. lo \in Nat /\ hi = lo + Len(v[j]) /\ hi <= Len(vs) /\ v[j] \in Seq(Byte)
          /\ Slice(vs, lo, hi) = v[j]
      BY FlattenSlice
    <2>2. (j + 1) - 1 = j
      OBVIOUS
    <2>3. ItemStart(v, j) = 4 * n + lo /\ ItemStart(v, j + 1) = 4 * n + hi
      BY <2>2 DEF ItemStart
    <2> DEFINE x == v[j]
    <2> HIDE DEF lo, hi, E, n, vs
    <2>0. x \in Seq(Byte) /\ hi = lo + Len(x)
      BY <2>1
    <2> HIDE DEF x
    <2>4. x \in Seq(Byte) /\ hi = lo + Len(x) /\ Len(x) \in Nat
      BY <2>0
    <2>5. ItemStart(v, j + 1) = ItemStart(v, j) + Len(x) /\ hi \in Nat
      <3>1. hi \in Nat
        BY <2>1, <2>4
      <3> DEFINE l == Len(x)
      <3>2. n \in Nat /\ lo \in Nat /\ l \in Nat /\ hi = lo + l
        BY <1>1, <2>1, <2>4
      <3> HIDE DEF l
      <3>3. 4 * n + hi = (4 * n + lo) + l
        BY <3>2
      <3> QED BY <2>3, <3>1, <3>3 DEF l
    <2>6. ItemStart(v, j + 1) <= Len(E)
      BY <1>1, <1>8, <2>1, <2>3, <2>4, <2>5
    <2>7. \A i \in 1 .. Len(x) : x[i] = vs[lo + i]
      <3>1. CanSlice(vs, lo, hi) /\ hi - lo = Len(x)
        BY <2>1, <2>4, <2>5 DEF CanSlice
      <3> QED BY <1>2, <2>1, <2>4, <2>5, <3>1, SliceElements DEF x
    <2>8. \A i \in 1 .. Len(x) : E[(4 * n + lo) + i] = x[i]
      <3> TAKE i \in 1 .. Len(x)
      <3>1. lo + i \in 1 .. Len(vs) /\ (4 * n + lo) + i = n * 4 + (lo + i)
        BY <1>1, <1>8, <2>1, <2>4, <2>5
      <3>2. E[n * 4 + (lo + i)] = vs[lo + i]
        BY <1>2, <1>7, <3>1 DEF E
      <3> QED BY <2>7, <3>1, <3>2
    <2>9. CanSlice(E, 4 * n + lo, 4 * n + hi) /\ Len(x) = (4 * n + hi) - (4 * n + lo)
          /\ 4 * n + lo \in Nat /\ 4 * n + hi \in Nat
      BY <1>1, <2>1, <2>3, <2>4, <2>5, <2>6 DEF CanSlice
    <2>10. Slice(E, 4 * n + lo, 4 * n + hi) = x
      BY <1>8, <2>4, <2>8, <2>9, SliceIs
    <2> QED BY <2>1, <2>3, <2>5, <2>6, <2>10 DEF x
  <1>10. ASSUME NEW j \in 1 .. n
         PROVE  Slice(E, 4 * (j - 1), 4 * j) = WriteOffset(ItemStart(v, j))
    <2> DEFINE lo == Len(FlattenSeq(SubSeq(heads, 1, j - 1)))
               hi == Len(FlattenSeq(SubSeq(heads, 1, j)))
    <2>1. hi <= Len(hs) /\ Slice(hs, lo, hi) = heads[j]
      BY <1>5, FlattenSlice DEF hs
    <2>2. lo = 4 * (j - 1) /\ hi = 4 * j
      <3>1. j - 1 \in 0 .. n /\ j \in 0 .. n
        BY <1>1
      <3> QED BY <1>7, <3>1
    <2>3. Slice(E, lo, hi) = Slice(hs, lo, hi)
      <3> HIDE DEF lo, hi, vs, n, E
      <3>1. lo \in Nat /\ hi \in Nat
        BY <1>1, <2>2
      <3> QED BY <1>2, <1>7, <2>1, <3>1, SliceKept DEF E
    <2> QED BY <1>4, <2>1, <2>2, <2>3
  <1>11. ItemStart(v, 1) = 4 * n /\ ItemStart(v, n + 1) = 4 * n + Len(vs)
    <2>1. 1 - 1 = 0 /\ (n + 1) - 1 = n /\ Len(<< >>) = 0
      BY <1>1
    <2>2. FlattenSeq(SubSeq(v, 1, 0)) = << >> /\ FlattenSeq(SubSeq(v, 1, n)) = vs
      BY FlattenPieces
    <2>3. ItemStart(v, 1) = 4 * n + Len(FlattenSeq(SubSeq(v, 1, 0)))
          /\ ItemStart(v, n + 1) = 4 * n + Len(FlattenSeq(SubSeq(v, 1, n)))
      BY <2>1 DEF ItemStart
    <2> HIDE DEF n, vs
    <2> QED BY <1>1, <2>1, <2>2, <2>3
  <1>12. 4 * n <= Len(E) /\ ItemStart(v, n + 1) = Len(E)
    <2> HIDE DEF n, vs, E
    <2> QED BY <1>1, <1>8, <1>11
  <1> QED BY <1>3, <1>6, <1>8, <1>9, <1>10, <1>11, <1>12

(* A list is cut where its elements met.                                   *)
LEMMA ListDecodes ==
    ASSUME NEW f \in Fields, IsField(f), f.kind = "list",
           NEW v \in Seq(Seq(Byte)), NEW old, ~ Invalid(f, v)
    PROVE  LET b == EncodeTail(f, v)
           IN  ~ Refuses(f, b) /\ DecodeTail(f, old, b) = v
  <1> DEFINE n == Len(v)
             s == f.size
             b == FlattenSeq(v)
  <1>1. /\ n \in Nat /\ s \in Nat \ {0} /\ f.max \in Nat /\ n <= f.max
        /\ \A i \in 1 .. n : Len(v[i]) = s
    <2>1. n \in Nat /\ DOMAIN v = 1 .. n /\ s \in Nat \ {0} /\ f.max \in Nat
      BY DEF Fields, IsField
    <2>2. ~ (n > f.max) /\ \A i \in DOMAIN v : Len(v[i]) = s
      BY DEF Invalid
    <2> HIDE DEF n, s
    <2>3. n <= f.max
      BY <2>1, <2>2
    <2> QED BY <2>1, <2>2, <2>3
  <1>2. /\ b \in Seq(Byte) /\ Len(b) = n * s
        /\ \A i \in 0 .. n : Len(FlattenSeq(SubSeq(v, 1, i))) = i * s
    BY <1>1, FlattenPieces, FlattenEven
  <1>3. (n * s) % s = 0 /\ (n * s) \div s = n
    <2> HIDE DEF n, s
    <2> QED BY <1>1, WholeDiv
  <1>4. EncodeTail(f, v) = b
    BY DEF EncodeTail
  <1>5. ~ Refuses(f, b)
    <2> HIDE DEF n, b
    <2> QED BY <1>1, <1>2, <1>3 DEF Refuses
  <1> DEFINE d == DecodeTail(f, old, b)
  <1>6. d = [k \in 1 .. n |-> Slice(b, (k - 1) * s, k * s)]
    <2> HIDE DEF n, b
    <2>1. d = [k \in 1 .. Len(b) \div s |-> Slice(b, (k - 1) * s, k * s)]
      BY DEF DecodeTail
    <2> QED BY <1>2, <1>3, <2>1
  <1>7. \A k \in 1 .. n : Slice(b, (k - 1) * s, k * s) = v[k]
    <2> TAKE k \in 1 .. n
    <2>1. k \in 0 .. n /\ k - 1 \in 0 .. n
      BY <1>1
    <2>2. Slice(b, Len(FlattenSeq(SubSeq(v, 1, k - 1))), Len(FlattenSeq(SubSeq(v, 1, k)))) = v[k]
      BY FlattenSlice
    <2> HIDE DEF n, s, b
    <2> QED BY <1>2, <2>1, <2>2
  <1>8. d = v
    <2>1. v = [k \in 1 .. n |-> v[k]]
      OBVIOUS
    <2> HIDE DEF n, s, b, d
    <2> QED BY <1>6, <1>7, <2>1
  <1> QED BY <1>4, <1>5, <1>8

(* What a field that has been decoded into may have more than was sent.    *)
Keeps(f, v, s) ==
    CASE f.kind \in {"fixedBytes", "bytes", "bitlist"} -> IsSuffix(s, v)
      [] f.kind = "child" -> IsSuffix(s[1], v[1])
      [] OTHER -> v = s

(* What is appended is a suffix.                                           *)
LEMMA SuffixOfConcat ==
    ASSUME NEW x \in Seq(Byte), NEW s \in Seq(Byte)
    PROVE  IsSuffix(s, x \o s)
  <1> DEFINE t == x \o s
             rs == Reverse(s)
             rt == Reverse(t)
  <1>1. t \in Seq(Byte) /\ Len(t) = Len(x) + Len(s) /\ Len(s) \in Nat /\ Len(x) \in Nat
        /\ Len(t) \in Nat
    OBVIOUS
  <1>2. \A i \in 1 .. Len(s) : t[Len(x) + i] = s[i]
    OBVIOUS
  <1> HIDE DEF t
  <1>3. rs \in [1 .. Len(s) -> Byte] /\ \A i \in 1 .. Len(s) : rs[i] = s[Len(s) - i + 1]
    BY <1>1 DEF Reverse
  <1>4. rt \in [1 .. Len(t) -> Byte] /\ \A i \in 1 .. Len(t) : rt[i] = t[Len(t) - i + 1]
    BY <1>1 DEF Reverse
  <1> HIDE DEF rs, rt
  <1>5. rs \in Seq(Byte) /\ Len(rs) = Len(s) /\ rt \in Seq(Byte) /\ Len(rt) = Len(t)
    BY <1>1, <1>3, <1>4, FunctionIsSeq
  <1>6. \A i \in 1 .. Len(s) : rs[i] = rt[i]
    <2> TAKE i \in 1 .. Len(s)
    <2> DEFINE k == Len(s) - i + 1
    <2>1. k \in 1 .. Len(s) /\ i \in 1 .. Len(t) /\ Len(t) - i + 1 = Len(x) + k
      BY <1>1
    <2>2. rs[i] = s[k] /\ rt[i] = t[Len(x) + k]
      BY <1>3, <1>4, <2>1
    <2> HIDE DEF k
    <2> QED BY <1>2, <2>1, <2>2
  <1> DEFINE l == Len(rs)
             a == SubSeq(rs, 1, l)
             b == SubSeq(rt, 1, l)
  <1>7. a = b
    <2>1. l \in Nat /\ l <= Len(rt) /\ \A i \in 1 .. l : rs[i] = rt[i]
      BY <1>1, <1>5, <1>6
    <2> HIDE DEF l
    <2>2. a = [i \in 1 .. l |-> rs[i]] /\ b = [i \in 1 .. l |-> rt[i]]
      BY <1>5, <2>1
    <2> QED BY <2>1, <2>2
  <1>8. Len(rs) <= Len(rt)
    BY <1>1, <1>5
  <1> QED BY <1>7, <1>8 DEF IsSuffix, IsPrefix, rs, rt, t

(* A field of the fixed part is decoded to what was written.               *)
LEMMA FixedDecodes ==
    ASSUME NEW f \in Fields, ~ InTail(f), NEW v, HasType(f, v)
    PROVE  /\ DecodeFixed(f, Zero(f), v) = v
           /\ \A old : HasType(f, old) => Keeps(f, DecodeFixed(f, old, v), v)
  <1>1. f.kind \in {"uint", "bool", "fixedBytes"} /\ v \in Seq(Byte)
    BY FixedIsBytes DEF InTail
  <1>2. CASE f.kind = "uint"
    BY <1>2 DEF DecodeFixed, Keeps
  <1>3. CASE f.kind = "bool"
    <2>1. v \in {<<0>>, <<1>>}
      BY <1>3 DEF HasType
    <2>2. (IF v[1] = 1 THEN <<1>> ELSE <<0>>) = v
      BY <2>1
    <2> QED BY <1>3, <2>2 DEF DecodeFixed, Keeps
  <1>4. CASE f.kind = "fixedBytes"
    <2>1. Zero(f) = << >> /\ \A old : DecodeFixed(f, old, v) = old \o v
      BY <1>4 DEF Zero, DecodeFixed
    <2>2. << >> \o v = v
      BY <1>1
    <2>3. \A old : HasType(f, old) => IsSuffix(v, old \o v)
      BY <1>1, <1>4, SuffixOfConcat DEF HasType
    <2> QED BY <1>4, <2>1, <2>2, <2>3 DEF Keeps
  <1> QED BY <1>1, <1>2, <1>3, <1>4

(* A child is accepted, and decoded to what was written.                   *)
LEMMA ChildDecodes ==
    ASSUME NEW f \in Fields, f.kind = "child",
           NEW v \in Seq(Seq(Byte)), Len(v) = 1, ~ Invalid(f, v)
    PROVE  LET b == EncodeTail(f, v)
           IN  /\ ~ Refuses(f, b)
               /\ DecodeTail(f, Zero(f), b) = v
               /\ \A old : HasType(f, old) => Keeps(f, DecodeTail(f, old, b), v)
  <1> DEFINE x == v[1]
             w == WriteOffset(4)
             b == w \o x
  <1>1. x \in Seq(Byte) /\ v = <<x>>
    BY FirstOfSeq
  <1>2. w \in Seq(Byte) /\ Len(w) = 4 /\ EncodeTail(f, v) = b
    BY WriteOffsetBytes DEF EncodeTail
  <1> HIDE DEF x, w
  <1>3. b \in Seq(Byte) /\ Len(b) = 4 + Len(x) /\ Len(x) \in Nat
    BY <1>1, <1>2, ConcatBytes
  <1>4. Slice(b, 0, 4) = w /\ Slice(b, 4, Len(b)) = x
    <2>1. Slice(b, 0, 4) = Slice(w, 0, 4)
      <3>1. 0 \in Nat /\ 4 \in Nat /\ 4 <= Len(w)
        BY <1>2
      <3> QED BY <1>1, <1>2, <3>1, SliceKept
    <2>2. Slice(w, 0, 4) = w
      BY <1>2 DEF Slice
    <2>3. Slice(b, Len(w), Len(w) + Len(x)) = x
      BY <1>1, <1>2, SliceLast
    <2> HIDE DEF b
    <2> QED BY <1>2, <1>3, <2>1, <2>2, <2>3
  <1> HIDE DEF b
  <1>5. ReadOffset(b) = 4
    <2>1. 4 \in Nat /\ 4 < OffsetEnd
      BY DEF OffsetEnd
    <2>2. Slice(b, 0, 4) = WriteOffset(4) /\ Len(b) >= 4
      BY <1>3, <1>4 DEF w
    <2> QED BY <1>3, <2>1, <2>2, ReadWritten
  <1>6. Len(x) <= f.each
    <2>1. ~ (Len(x) > f.each) /\ f.each \in Nat
      BY DEF Invalid, x, Fields
    <2> QED BY <1>3, <2>1
  <1>7. ~ Refuses(f, b)
    <2>1. f.each \in Nat
      BY DEF Fields
    <2>2. ~ ChildRefuses(f, b)
      BY <1>3, <1>5, <1>6, <2>1 DEF ChildRefuses
    <2> QED BY <2>2 DEF Refuses
  <1>8. \A old : DecodeTail(f, old, b) = <<Allocated(f, old)[1] \o x>>
    BY <1>4, <1>5 DEF DecodeTail
  <1>9. DecodeTail(f, Zero(f), b) = v
    <2>1. Zero(f) = << >>
      BY DEF Zero
    <2>2. Allocated(f, << >>) = <<NoBytes>>
      BY DEF Allocated
    <2>3. <<NoBytes>>[1] = << >> /\ << >> \o x = x
      BY <1>1 DEF NoBytes
    <2> QED BY <1>1, <1>8, <2>1, <2>2, <2>3
  <1>10. ASSUME NEW old, HasType(f, old) PROVE Keeps(f, DecodeTail(f, old, b), v)
    <2> DEFINE a == Allocated(f, old)
               y == a[1]
    <2>1. y \in Seq(Byte)
      <3>1. HasType(f, a) /\ a # << >>
        BY <1>10, AllocatedType, AllocatedPresent
      <3> HIDE DEF a
      <3>2. a \in Seq(Seq(Byte)) /\ Len(a) = 1
        BY <3>1 DEF HasType
      <3> QED BY <3>2, FirstOfSeq
    <2>2. DecodeTail(f, old, b)[1] = y \o x
      BY <1>8
    <2> HIDE DEF y
    <2>3. IsSuffix(x, y \o x)
      BY <1>1, <2>1, SuffixOfConcat
    <2> QED BY <2>2, <2>3 DEF Keeps, x
  <1> QED BY <1>2, <1>7, <1>9, <1>10

(* A variable field that marshalling accepted is accepted, but for a       *)
(* bitlist that is not valid, and decoded to what was written.             *)
LEMMA TailDecodes ==
    ASSUME NEW f \in Fields, IsField(f), InTail(f), f.kind # "dynlist",
           NEW v, HasType(f, v), Fits(f, v)
    PROVE  LET b == EncodeTail(f, v)
           IN  /\ (f.kind = "bitlist" => ValidateBitlist(v, f.max)) => ~ Refuses(f, b)
               /\ DecodeTail(f, Zero(f), b) = v
               /\ \A old : HasType(f, old) => Keeps(f, DecodeTail(f, old, b), v)
  <1>1. f.kind \in {"bytes", "bitlist", "list", "child"} /\ ~ Invalid(f, v)
    BY DEF InTail, Fields, Kinds, Fits
  <1>2. CASE f.kind \in {"bytes", "bitlist"}
    <2>1. v \in Seq(Byte) /\ EncodeTail(f, v) = v /\ Zero(f) = << >>
          /\ \A old : DecodeTail(f, old, v) = old \o v
      BY <1>2 DEF HasType, EncodeTail, DecodeTail, Zero
    <2>2. << >> \o v = v
      BY <2>1
    <2>3. (f.kind = "bitlist" => ValidateBitlist(v, f.max)) => ~ Refuses(f, v)
      BY <1>1, <1>2 DEF Refuses, Invalid
    <2>4. \A old : HasType(f, old) => IsSuffix(v, old \o v)
      BY <1>2, <2>1, SuffixOfConcat DEF HasType
    <2> QED BY <1>2, <2>1, <2>2, <2>3, <2>4 DEF Keeps
  <1>3. CASE f.kind = "list"
    <2>1. v \in Seq(Seq(Byte))
      BY <1>3 DEF HasType
    <2>2. ~ Refuses(f, EncodeTail(f, v)) /\ \A old : DecodeTail(f, old, EncodeTail(f, v)) = v
      BY <1>1, <1>3, <2>1, ListDecodes
    <2> QED BY <1>3, <2>2 DEF Keeps
  <1>4. CASE f.kind = "child"
    <2>1. v \in Seq(Seq(Byte)) /\ Len(v) = 1
      BY <1>4 DEF HasType, Fits
    <2> QED BY <1>1, <1>4, <2>1, ChildDecodes
  <1> QED BY <1>1, <1>2, <1>3, <1>4

---------------------------------------------------------------------------
(* Where the parts are.                                                    *)
(* The positions of the parts are in the order of the fields.              *)
LEMMA Positions ==
    ASSUME NEW fs \in Seq(Fields), NEW o, \A i \in DOMAIN fs : HasType(fs[i], o[i]),
           NEW i \in 1 .. Len(fs) + 1, NEW j \in i .. Len(fs) + 1
    PROVE  /\ HeadOffset(fs, i) \in Nat /\ HeadOffset(fs, i) <= HeadOffset(fs, j)
           /\ TailSum(fs, o, i) <= TailSum(fs, o, j)
           /\ (\A m \in i .. j - 1 : ~ InTail(fs[m])) => TailSum(fs, o, i) = TailSum(fs, o, j)
  <1> DEFINE n == Len(fs)
             w == [m \in DOMAIN fs |-> Width(fs[m])]
             g == [m \in DOMAIN fs |-> IF InTail(fs[m]) THEN TailSize(fs[m], o[m]) ELSE 0]
  <1>1. n \in Nat /\ DOMAIN fs = 1 .. n /\ \A m \in 1 .. n : fs[m] \in Fields
    OBVIOUS
  <1>2. \A m \in 1 .. n : w[m] \in Nat
    <2> TAKE m \in 1 .. n
    <2>1. fs[m].size \in Nat
      BY <1>1 DEF Fields
    <2> QED BY <1>1, <2>1 DEF Width
  <1>3. \A m \in 1 .. n : g[m] \in Nat /\ (~ InTail(fs[m]) => g[m] = 0)
    BY <1>1, TailSizeNat
  <1>4. /\ HeadOffset(fs, i) = SumUpTo(w, i - 1) /\ HeadOffset(fs, j) = SumUpTo(w, j - 1)
        /\ TailSum(fs, o, i) = SumUpTo(g, i - 1) /\ TailSum(fs, o, j) = SumUpTo(g, j - 1)
    BY DEF HeadOffset, TailSum
  <1>5. i - 1 \in 0 .. n /\ j - 1 \in 0 .. n /\ i - 1 <= j - 1 /\ j - 1 \in i - 1 .. n
    BY <1>1
  <1> HIDE DEF n, w, g
  <1>6. SumUpTo(w, i - 1) \in Nat
    BY <1>1, <1>2, <1>5, SumSteps
  <1>7. SumUpTo(w, i - 1) <= SumUpTo(w, j - 1)
    BY <1>1, <1>2, <1>5, SumGrows
  <1>8. SumUpTo(g, i - 1) <= SumUpTo(g, j - 1)
    BY <1>1, <1>3, <1>5, SumGrows
  <1>9. ASSUME \A m \in i .. j - 1 : ~ InTail(fs[m])
        PROVE  SumUpTo(g, i - 1) = SumUpTo(g, j - 1)
    <2>1. \A m \in (i - 1) + 1 .. j - 1 : g[m] = 0
      <3> TAKE m \in (i - 1) + 1 .. j - 1
      <3>1. m \in i .. j - 1 /\ m \in 1 .. n
        BY <1>1, <1>5
      <3> QED BY <1>3, <1>9, <3>1
    <2> QED BY <1>1, <1>3, <1>5, <2>1, SumStays
  <1> QED BY <1>4, <1>6, <1>7, <1>8, <1>9

---------------------------------------------------------------------------
(* What has been written of an object.                                     *)
TailStart(o, i) == FixedLen(fields) + TailSum(fields, o, i)
HeadOf(o, i) == IF InTail(fields[i]) THEN WriteOffset(TailStart(o, i)) ELSE o[i]
HeadWritten(b, o, i) ==
    Slice(b, HeadOffset(fields, i), HeadOffset(fields, i + 1)) = HeadOf(o, i)
TailWritten(b, o, i) ==
    Slice(b, TailStart(o, i), TailStart(o, i + 1)) = EncodeTail(fields[i], o[i])

Encodes(b, o) ==
    /\ DOMAIN o = DOMAIN fields
    /\ Len(b) = TailStart(o, Len(fields) + 1)
    /\ \A i \in DOMAIN fields : /\ HasType(fields[i], o[i]) /\ Fits(fields[i], o[i])
                                /\ HeadWritten(b, o, i)
                                /\ InTail(fields[i]) => TailWritten(b, o, i)

(* The bytes of every field written are where they will be looked for, and *)
(* what the last marshalling returned encodes the object it was called on. *)
WrittenInv ==
    /\ phase = "head" =>
         /\ \A i \in 1 .. pc - 1 : /\ HeadWritten(out, obj, i)
                                   /\ ~ InTail(fields[i]) => Fits(fields[i], obj[i])
         /\ (\E i \in Tails(fields) : i >= pc) => offset = TailStart(obj, pc)
    /\ phase = "tail" =>
         \A i \in DOMAIN fields :
            /\ HeadWritten(out, obj, i)
            /\ ~ InTail(fields[i]) => Fits(fields[i], obj[i])
            /\ InTail(fields[i]) /\ i < pc => Fits(fields[i], obj[i]) /\ TailWritten(out, obj, i)
    /\ sent # << >> => Encodes(wire, sent)

(* Where the variable fields are, one after the other.                     *)
LEMMA StartFacts ==
    ASSUME IInv, NEW o, \A i \in DOMAIN fields : HasType(fields[i], o[i])
    PROVE  /\ Len(fields) \in Nat /\ DOMAIN fields = 1 .. Len(fields)
           /\ TailStart(o, 1) = FixedLen(fields)
           /\ FixedLen(fields) = HeadOffset(fields, Len(fields) + 1)
           /\ \A i \in 1 .. Len(fields) + 1 :
                /\ TailStart(o, i) \in Nat /\ HeadOffset(fields, i) \in Nat
                /\ FixedLen(fields) <= TailStart(o, i)
           /\ \A i \in DOMAIN fields :
                /\ HeadOffset(fields, i + 1) = HeadOffset(fields, i) + Width(fields[i])
                /\ TailStart(o, i + 1) = TailStart(o, i)
                     + (IF InTail(fields[i]) THEN TailSize(fields[i], o[i]) ELSE 0)
                /\ InTail(fields[i]) => TailSize(fields[i], o[i]) \in Nat
           /\ \A i, j \in 1 .. Len(fields) + 1 : i <= j =>
                /\ HeadOffset(fields, i) <= HeadOffset(fields, j)
                /\ TailStart(o, i) <= TailStart(o, j)
                /\ (\A m \in i .. j - 1 : ~ InTail(fields[m])) =>
                     TailStart(o, i) = TailStart(o, j)
  <1>1. /\ fields \in Seq(Fields) /\ Len(fields) \in Nat /\ DOMAIN fields = 1 .. Len(fields)
        /\ FixedLen(fields) \in Nat
        /\ \A i \in DOMAIN fields :
             HeadOffset(fields, i + 1) = HeadOffset(fields, i) + Width(fields[i])
    BY StructFacts DEF IInv
  <1>2. /\ TailSum(fields, o, 1) = 0
        /\ \A k \in 1 .. Len(fields) + 1 : TailSum(fields, o, k) \in Nat
        /\ \A k \in DOMAIN fields :
             TailSum(fields, o, k + 1) =
               TailSum(fields, o, k) + IF InTail(fields[k]) THEN TailSize(fields[k], o[k]) ELSE 0
    BY <1>1, TailSumFacts
  <1>3. \A i \in DOMAIN fields : InTail(fields[i]) => TailSize(fields[i], o[i]) \in Nat
    BY <1>1, TailSizeNat
  <1>4. ASSUME NEW i \in 1 .. Len(fields) + 1
        PROVE  /\ TailStart(o, i) \in Nat /\ HeadOffset(fields, i) \in Nat
               /\ FixedLen(fields) <= TailStart(o, i)
    <2>1. i \in i .. Len(fields) + 1
      BY <1>1
    <2>2. HeadOffset(fields, i) \in Nat
      BY <1>1, <2>1, Positions
    <2> QED BY <1>1, <1>2, <2>2 DEF TailStart
  <1>5. ASSUME NEW i \in DOMAIN fields
        PROVE  TailStart(o, i + 1) = TailStart(o, i)
                 + (IF InTail(fields[i]) THEN TailSize(fields[i], o[i]) ELSE 0)
    <2>1. TailSum(fields, o, i) \in Nat
      BY <1>1, <1>2
    <2> DEFINE d == IF InTail(fields[i]) THEN TailSize(fields[i], o[i]) ELSE 0
    <2>2. d \in Nat /\ TailSum(fields, o, i + 1) = TailSum(fields, o, i) + d
      BY <1>2, <1>3
    <2> HIDE DEF d
    <2>3. TailStart(o, i + 1) = TailStart(o, i) + d
      BY <1>1, <2>1, <2>2 DEF TailStart
    <2> QED BY <2>3 DEF d
  <1>6. ASSUME NEW i \in 1 .. Len(fields) + 1, NEW j \in 1 .. Len(fields) + 1, i <= j
        PROVE  /\ HeadOffset(fields, i) <= HeadOffset(fields, j)
               /\ TailStart(o, i) <= TailStart(o, j)
               /\ (\A m \in i .. j - 1 : ~ InTail(fields[m])) =>
                    TailStart(o, i) = TailStart(o, j)
    <2>1. j \in i .. Len(fields) + 1
      BY <1>1, <1>6
    <2>2. /\ HeadOffset(fields, i) <= HeadOffset(fields, j)
          /\ TailSum(fields, o, i) <= TailSum(fields, o, j)
          /\ (\A m \in i .. j - 1 : ~ InTail(fields[m])) =>
               TailSum(fields, o, i) = TailSum(fields, o, j)
      BY <1>1, <2>1, Positions
    <2> QED BY <1>1, <1>2, <2>2 DEF TailStart
  <1>7. TailStart(o, 1) = FixedLen(fields)
    BY <1>1, <1>2 DEF TailStart
  <1> QED BY <1>1, <1>3, <1>4, <1>5, <1>6, <1>7 DEF FixedLen

(* Appending the part of the field at hand writes it at its place.         *)
LEMMA HeadAppend ==
    ASSUME IInv, TypedInv, SizeInv, WrittenInv, phase = "head", pc \in DOMAIN fields,
           NEW o, DOMAIN o = DOMAIN fields, NEW t \in Seq(Byte), Len(t) = Width(fields[pc]),
           \A i \in DOMAIN fields : HeadOf(o, i) = HeadOf(obj, i), t = HeadOf(o, pc)
    PROVE  \A i \in 1 .. pc : HeadWritten(out \o t, o, i)
  <1>1. \A i \in DOMAIN fields : HasType(fields[i], obj[i])
    BY DEF TypedInv, HasTypes
  <1>2. /\ Len(fields) \in Nat /\ DOMAIN fields = 1 .. Len(fields)
        /\ \A i \in 1 .. Len(fields) + 1 : HeadOffset(fields, i) \in Nat
        /\ \A i \in DOMAIN fields :
             HeadOffset(fields, i + 1) = HeadOffset(fields, i) + Width(fields[i])
        /\ \A i, j \in 1 .. Len(fields) + 1 : i <= j =>
             HeadOffset(fields, i) <= HeadOffset(fields, j)
    BY <1>1, StartFacts
  <1>3. out \in Seq(Byte) /\ Len(out) = HeadOffset(fields, pc) /\ pc \in Nat
    BY <1>2 DEF TypedInv, SizeInv
  <1>4. SUFFICES ASSUME NEW i \in 1 .. pc PROVE HeadWritten(out \o t, o, i)
    OBVIOUS
  <1> DEFINE lo == HeadOffset(fields, i)
             hi == HeadOffset(fields, i + 1)
  <1>5. i \in DOMAIN fields /\ i \in 1 .. Len(fields) + 1 /\ i + 1 \in 1 .. Len(fields) + 1
        /\ pc \in 1 .. Len(fields) + 1
    BY <1>2, <1>3
  <1>6. lo \in Nat /\ hi \in Nat
    BY <1>2, <1>5
  <1>7. CASE i = pc
    <2>1. lo = Len(out) /\ hi = Len(out) + Len(t)
      BY <1>2, <1>3, <1>5, <1>7
    <2>2. Slice(out \o t, lo, hi) = t
      BY <1>3, <2>1, SliceLast
    <2> QED BY <1>7, <2>2 DEF HeadWritten
  <1>8. CASE i # pc
    <2>1. i \in 1 .. pc - 1 /\ i + 1 <= pc
      BY <1>3, <1>8
    <2>2. hi <= Len(out)
      BY <1>2, <1>3, <1>5, <2>1
    <2>3. Slice(out \o t, lo, hi) = Slice(out, lo, hi)
      BY <1>3, <1>6, <2>2, SliceKept
    <2>4. HeadWritten(out, obj, i)
      BY <2>1 DEF WrittenInv
    <2> QED BY <1>5, <2>3, <2>4 DEF HeadWritten
  <1> QED BY <1>7, <1>8

(* A call of MarshalSSZ starts with nothing written.                       *)
LEMMA WrittenCalls ==
    ASSUME IInv, TypedInv, WrittenInv, CallSizeSSZ \/ CallMarshalSSZ \/ CallMarshalSSZTo
    PROVE  WrittenInv'
  <1>1. /\ fields' = fields /\ pc' = 1 /\ wire' = wire /\ sent' = sent
        /\ phase' \in {"idle", "head"} /\ (phase' = "head" => offset' = FixedLen(fields))
        /\ obj' = obj \/ obj' = AllAllocated
    BY DEF CallSizeSSZ, CallMarshalSSZ, CallMarshalSSZTo, Begin
  <1>2. \A i \in DOMAIN fields : HasType(fields[i], obj'[i])
    BY <1>1, AllocatedType DEF TypedInv, HasTypes, AllAllocated, TypeOK
  <1>3. TailStart(obj', 1) = FixedLen(fields)
    BY <1>2, StartFacts
  <1>4. 1 .. pc' - 1 = {}
    BY <1>1
  <1>5. TailStart(obj, pc)' = FixedLen(fields)
    BY <1>1, <1>3 DEF TailStart
  <1>6. Encodes(wire, sent) => Encodes(wire, sent)'
    BY <1>1 DEF Encodes, HeadWritten, TailWritten, HeadOf, TailStart
  <1> QED BY <1>1, <1>4, <1>5, <1>6 DEF WrittenInv

(* The steps that leave the encoding sent alone, and write no more.        *)
LEMMA WrittenFrame ==
    ASSUME WrittenInv, fields' = fields, wire' = wire, sent' = sent,
           phase' \notin {"head", "tail"}
    PROVE  WrittenInv'
  <1>1. Encodes(wire, sent) => Encodes(wire, sent)'
    BY DEF Encodes, HeadWritten, TailWritten, HeadOf, TailStart
  <1> QED BY <1>1 DEF WrittenInv

(* Each step of marshalling writes a part at its place, and the last       *)
(* leaves an encoding.                                                     *)
LEMMA WrittenMarshal ==
    ASSUME IInv, TypedInv, SizeInv, WrittenInv, MarshalAction
    PROVE  WrittenInv'
  <1>1. \A i \in DOMAIN fields : HasType(fields[i], obj[i])
    BY DEF TypedInv, HasTypes
  <1>2. /\ Len(fields) \in Nat /\ DOMAIN fields = 1 .. Len(fields) /\ DOMAIN obj = DOMAIN fields
        /\ out \in Seq(Byte) /\ Len(out) \in Nat /\ pc \in 1 .. Len(fields) + 1
    BY <1>1, StructFacts DEF IInv, StructInv, TypedInv
  <1>3. fields' = fields
    BY DEF MarshalAction, MarshalFixed, MarshalOffset, EndMarshalHead, MarshalTail,
           EndMarshal, caller
  <1>4. ASSUME wire' = wire, sent' = sent PROVE sent' # << >> => Encodes(wire, sent)'
    BY <1>3, <1>4 DEF WrittenInv, Encodes, HeadWritten, TailWritten, HeadOf, TailStart
  <1>5. CASE MarshalFixed
    <2>1. /\ pc \in DOMAIN fields /\ ~ InTail(fields[pc]) /\ phase = "head"
          /\ wire' = wire /\ sent' = sent /\ obj' = obj /\ offset' = offset
          /\ \/ phase' = "idle"
             \/ /\ ~ Invalid(fields[pc], obj[pc]) /\ out' = out \o obj[pc] /\ pc' = pc + 1
                /\ phase' = "head"
      BY <1>5 DEF MarshalFixed, AtField, Return, caller
    <2>2. CASE phase' = "idle"
      BY <1>3, <2>1, <2>2, WrittenFrame
    <2>3. CASE phase' = "head"
      <3>1. /\ fields[pc] \in Fields /\ IsField(fields[pc]) /\ HasType(fields[pc], obj[pc])
            /\ obj[pc] \in Seq(Byte)
        BY <1>1, <2>1, FieldFacts, FixedIsBytes DEF IInv
      <3>2. Len(obj[pc]) = Width(fields[pc]) /\ obj[pc] = HeadOf(obj, pc)
            /\ out' = out \o obj[pc] /\ pc' = pc + 1 /\ Fits(fields[pc], obj[pc])
        BY <2>1, <2>3, <3>1, FixedLength DEF HeadOf, Fits, InTail
      <3>3. \A i \in 1 .. pc : HeadWritten(out', obj, i)
        BY <1>2, <2>1, <3>1, <3>2, HeadAppend
      <3>4. \A i \in 1 .. pc' - 1 : HeadWritten(out, obj, i)'
                                    /\ (~ InTail(fields[i]) => Fits(fields[i], obj[i]))
        <4> SUFFICES ASSUME NEW i \in 1 .. pc' - 1
                     PROVE  HeadWritten(out, obj, i)'
                            /\ (~ InTail(fields[i]) => Fits(fields[i], obj[i]))
          OBVIOUS
        <4>1. i \in 1 .. pc /\ (i = pc \/ i \in 1 .. pc - 1)
          BY <1>2, <3>2
        <4>2. HeadWritten(out', obj, i)
          BY <3>3, <4>1
        <4>3. HeadWritten(out, obj, i)'
          BY <1>3, <2>1, <4>2 DEF HeadWritten, HeadOf, TailStart
        <4> QED BY <2>1, <3>2, <4>1, <4>3 DEF WrittenInv
      <3>5. (\E i \in Tails(fields) : i >= pc') => offset' = TailStart(obj, pc')
        <4> SUFFICES ASSUME NEW i \in Tails(fields), i >= pc'
                     PROVE  offset' = TailStart(obj, pc')
          OBVIOUS
        <4>1. i >= pc /\ pc + 1 \in 1 .. Len(fields) + 1
          BY <1>2, <2>1, <3>2 DEF Tails
        <4>2. offset = TailStart(obj, pc)
          BY <2>1, <4>1 DEF WrittenInv
        <4>3. TailStart(obj, pc + 1) = TailStart(obj, pc) + 0 /\ TailStart(obj, pc) \in Nat
          BY <1>1, <1>2, <2>1, StartFacts
        <4> QED BY <2>1, <3>2, <4>2, <4>3
      <3>6. TailStart(obj, pc)' = TailStart(obj, pc')
        BY <1>3, <2>1 DEF TailStart
      <3> QED BY <1>3, <1>4, <2>1, <2>3, <3>4, <3>5, <3>6 DEF WrittenInv
    <2> QED BY <2>1, <2>2, <2>3
  <1>6. CASE MarshalOffset
    <2>1. /\ pc \in DOMAIN fields /\ InTail(fields[pc]) /\ phase = "head" /\ phase' = "head"
          /\ wire' = wire /\ sent' = sent
          /\ out' = out \o WriteOffset(offset) /\ pc' = pc + 1
          /\ \/ IsLastTail(pc) /\ obj' = obj
             \/ /\ obj' = [obj EXCEPT ![pc] = Allocated(fields[pc], @)]
                /\ offset' = offset + TailSize(fields[pc], obj[pc])
      BY <1>6 DEF MarshalOffset, AtTail, AtField, caller
    <2>2. pc \in Tails(fields) /\ offset = TailStart(obj, pc) /\ offset \in Nat
      BY <1>2, <2>1 DEF Tails, WrittenInv, TypedInv, TypeOK
    <2>3. /\ DOMAIN obj' = DOMAIN fields
          /\ \A i \in DOMAIN fields : obj'[i] \in {obj[i], Allocated(fields[i], obj[i])}
          /\ \A i \in DOMAIN fields : ~ InTail(fields[i]) => obj'[i] = obj[i]
      BY <1>2, <2>1
    <2>4. \A k \in 1 .. Len(fields) + 1 : TailStart(obj', k) = TailStart(obj, k)
      BY <2>3, SizeOfAllocated DEF TailStart
    <2>5. \A i \in DOMAIN fields : HeadOf(obj', i) = HeadOf(obj, i)
      BY <1>2, <2>3, <2>4 DEF HeadOf
    <2>6. /\ WriteOffset(offset) \in Seq(Byte) /\ Len(WriteOffset(offset)) = Width(fields[pc])
          /\ WriteOffset(offset) = HeadOf(obj', pc)
      BY <2>1, <2>2, <2>5, WriteOffsetBytes DEF HeadOf, Width
    <2>7. \A i \in 1 .. pc : HeadWritten(out', obj', i)
      BY <2>1, <2>3, <2>5, <2>6, HeadAppend
    <2>8. \A i \in 1 .. pc' - 1 : HeadWritten(out, obj, i)'
                                  /\ (~ InTail(fields[i]) => Fits(fields[i], obj'[i]))
      <3> SUFFICES ASSUME NEW i \in 1 .. pc' - 1
                   PROVE  HeadWritten(out, obj, i)'
                          /\ (~ InTail(fields[i]) => Fits(fields[i], obj'[i]))
        OBVIOUS
      <3>1. i \in 1 .. pc /\ (i = pc \/ i \in 1 .. pc - 1) /\ i \in DOMAIN fields
        BY <1>2, <2>1
      <3>2. HeadWritten(out', obj', i)
        BY <2>7, <3>1
      <3>3. HeadWritten(out, obj, i)'
        BY <1>3, <3>2 DEF HeadWritten, HeadOf, TailStart
      <3> QED BY <2>1, <2>3, <3>1, <3>3 DEF WrittenInv
    <2>9. (\E i \in Tails(fields) : i >= pc') => offset' = TailStart(obj', pc')
      <3> SUFFICES ASSUME NEW i \in Tails(fields), i >= pc'
                   PROVE  offset' = TailStart(obj', pc')
        OBVIOUS
      <3>1. pc \in Nat /\ i \in Nat /\ pc + 1 \in 1 .. Len(fields) + 1
        BY <1>2, <2>1 DEF Tails
      <3>2. ~ IsLastTail(pc)
        BY <2>1, <3>1 DEF IsLastTail
      <3>3. TailStart(obj, pc + 1) = TailStart(obj, pc) + TailSize(fields[pc], obj[pc])
        BY <1>1, <2>1, StartFacts
      <3> QED BY <2>1, <2>2, <2>4, <3>1, <3>2, <3>3
    <2>10. TailStart(obj, pc)' = TailStart(obj', pc')
      BY <1>3 DEF TailStart
    <2> QED BY <1>3, <1>4, <2>1, <2>8, <2>9, <2>10 DEF WrittenInv
  <1>7. CASE EndMarshalHead
    <2>1. /\ pc \notin DOMAIN fields /\ phase = "head" /\ phase' = "tail" /\ pc' = 1
          /\ wire' = wire /\ sent' = sent /\ obj' = obj /\ out' = out
      BY <1>7 DEF EndMarshalHead, PastLast, caller, writing
    <2>2. \A i \in DOMAIN fields : i \in 1 .. pc - 1 /\ ~ (i < pc')
      BY <1>2, <2>1
    <2>3. \A i \in DOMAIN fields : HeadWritten(out, obj, i) => HeadWritten(out, obj, i)'
      BY <1>3, <2>1 DEF HeadWritten, HeadOf, TailStart
    <2> QED BY <1>3, <1>4, <2>1, <2>2, <2>3 DEF WrittenInv
  <1>8. CASE MarshalTail
    <2>1. /\ pc \in DOMAIN fields /\ InTail(fields[pc]) /\ phase = "tail"
          /\ wire' = wire /\ sent' = sent /\ obj' = obj
          /\ \/ phase' = "idle"
             \/ /\ ~ Invalid(fields[pc], obj[pc]) /\ pc' = pc + 1
                /\ fields[pc].kind = "child" => obj[pc] # << >>
                /\ out' = out \o EncodeTail(fields[pc], obj[pc])
                /\ phase' = "tail"
      BY <1>8 DEF MarshalTail, AtTail, AtField, Return, caller
    <2>2. CASE phase' = "idle"
      BY <1>3, <2>1, <2>2, WrittenFrame
    <2>3. CASE phase' = "tail"
      <3> DEFINE t == EncodeTail(fields[pc], obj[pc])
      <3>1. fields[pc] \in Fields /\ IsField(fields[pc]) /\ HasType(fields[pc], obj[pc])
            /\ Fits(fields[pc], obj[pc])
        BY <1>1, <2>1, <2>3, FieldFacts DEF IInv, Fits
      <3>2. t \in Seq(Byte) /\ Len(t) = TailSize(fields[pc], obj[pc]) /\ out' = out \o t
            /\ pc' = pc + 1
        BY <2>1, <2>3, <3>1, EncodeTailBytes DEF Fits
      <3>3. Len(out) = TailStart(obj, pc)
        BY <2>1 DEF SizeInv, TailStart
      <3>4. TailStart(obj, pc + 1) = Len(out) + Len(t)
        BY <1>1, <2>1, <3>2, <3>3, StartFacts
      <3>5. ASSUME NEW i \in DOMAIN fields PROVE HeadWritten(out', obj, i)
        <4> DEFINE lo == HeadOffset(fields, i)
                   hi == HeadOffset(fields, i + 1)
        <4>1. lo \in Nat /\ hi \in Nat /\ hi <= Len(out)
          <5>1. i \in 1 .. Len(fields) + 1 /\ i + 1 \in 1 .. Len(fields) + 1
                /\ i + 1 <= Len(fields) + 1 /\ Len(fields) + 1 \in 1 .. Len(fields) + 1
            BY <1>2
          <5>2. /\ lo \in Nat /\ hi \in Nat /\ FixedLen(fields) <= TailStart(obj, pc)
                /\ hi <= HeadOffset(fields, Len(fields) + 1)
                /\ HeadOffset(fields, Len(fields) + 1) = FixedLen(fields)
                /\ HeadOffset(fields, Len(fields) + 1) \in Nat /\ TailStart(obj, pc) \in Nat
            BY <1>1, <1>2, <5>1, StartFacts
          <5> HIDE DEF lo, hi
          <5> QED BY <3>3, <5>2
        <4>2. HeadWritten(out, obj, i)
          BY <2>1 DEF WrittenInv
        <4> HIDE DEF t
        <4>3. Slice(out \o t, lo, hi) = Slice(out, lo, hi)
          BY <1>2, <3>2, <4>1, SliceKept
        <4> QED BY <3>2, <4>2, <4>3 DEF HeadWritten
      <3>6. ASSUME NEW i \in DOMAIN fields, InTail(fields[i]), i < pc'
            PROVE  TailWritten(out', obj, i) /\ Fits(fields[i], obj[i])
        <4> DEFINE lo == TailStart(obj, i)
                   hi == TailStart(obj, i + 1)
        <4>1. i \in Nat /\ pc \in Nat /\ (i = pc \/ i < pc)
          BY <1>2, <2>1, <3>2, <3>6
        <4>2. CASE i = pc
          <5>1. Slice(out \o t, Len(out), Len(out) + Len(t)) = t
            BY <1>2, <3>2, SliceLast
          <5> QED BY <3>1, <3>2, <3>3, <3>4, <4>2, <5>1 DEF TailWritten
        <4>3. CASE i < pc
          <5>1. TailWritten(out, obj, i) /\ Fits(fields[i], obj[i])
            BY <2>1, <3>6, <4>3 DEF WrittenInv
          <5>2. i \in 1 .. Len(fields) + 1 /\ i + 1 \in 1 .. Len(fields) + 1 /\ i + 1 <= pc
            BY <1>2, <4>1, <4>3
          <5>3. lo \in Nat /\ hi \in Nat /\ hi <= Len(out)
            BY <1>1, <1>2, <3>3, <5>2, StartFacts
          <5> HIDE DEF t
          <5>4. Slice(out \o t, lo, hi) = Slice(out, lo, hi)
            BY <1>2, <3>2, <5>3, SliceKept
          <5> QED BY <3>2, <5>1, <5>4 DEF TailWritten
        <4> QED BY <4>1, <4>2, <4>3
      <3>7. \A i \in DOMAIN fields :
               /\ HeadWritten(out', obj, i) => HeadWritten(out, obj, i)'
               /\ TailWritten(out', obj, i) => TailWritten(out, obj, i)'
        BY <1>3, <2>1 DEF HeadWritten, TailWritten, HeadOf, TailStart
      <3> QED BY <1>3, <1>4, <2>1, <2>3, <3>5, <3>6, <3>7 DEF WrittenInv
    <2> QED BY <2>1, <2>2, <2>3
  <1>9. CASE EndMarshal
    <2>1. /\ pc \notin DOMAIN fields /\ phase = "tail" /\ phase' = "idle"
          /\ wire' = out /\ sent' = obj
      BY <1>9 DEF EndMarshal, PastLast, Return
    <2>2. pc = Len(fields) + 1 /\ \A i \in DOMAIN fields : i < pc
      BY <1>2, <2>1
    <2>3. Len(out) = TailStart(obj, pc)
      BY <2>1 DEF SizeInv, TailStart
    <2>4. Encodes(out, obj)
      BY <1>1, <1>2, <2>1, <2>2, <2>3 DEF WrittenInv, Encodes
    <2>5. Encodes(wire, sent)'
      BY <1>3, <2>1, <2>4 DEF Encodes, HeadWritten, TailWritten, HeadOf, TailStart
    <2> QED BY <2>1, <2>5 DEF WrittenInv
  <1> QED BY <1>5, <1>6, <1>7, <1>8, <1>9 DEF MarshalAction

(* A skipped field has been written by the first loop.                     *)
LEMMA WrittenSkip ==
    ASSUME IInv, WrittenInv, SkipFixed
    PROVE  WrittenInv'
  <1>1. /\ caller' = caller /\ obj' = obj /\ writing' = writing /\ phase' = phase
        /\ pc' = pc + 1 /\ pc \in DOMAIN fields
        /\ ~ InTail(fields[pc]) /\ phase \in {"tail", "dynamic"}
    BY DEF SkipFixed, AtField
  <1>2. DOMAIN fields = 1 .. Len(fields) /\ Len(fields) \in Nat
    BY StructFacts DEF IInv
  <1>3. CASE phase = "dynamic"
    BY <1>1, <1>3, WrittenFrame DEF caller
  <1>4. CASE phase = "tail"
    <2>1. \A i \in DOMAIN fields : InTail(fields[i]) /\ i < pc' => i < pc
      BY <1>1, <1>2
    <2>2. fields' = fields /\ wire' = wire /\ sent' = sent /\ out' = out
      BY <1>1 DEF caller, writing
    <2>3. \A i \in DOMAIN fields :
             /\ HeadWritten(out, obj, i) => HeadWritten(out, obj, i)'
             /\ TailWritten(out, obj, i) => TailWritten(out, obj, i)'
      BY <1>1, <2>2 DEF HeadWritten, TailWritten, HeadOf, TailStart
    <2>4. Encodes(wire, sent) => Encodes(wire, sent)'
      BY <2>2 DEF Encodes, HeadWritten, TailWritten, HeadOf, TailStart
    <2> QED BY <1>1, <1>4, <2>1, <2>2, <2>3, <2>4 DEF WrittenInv
  <1> QED BY <1>1, <1>3, <1>4

(* Marshalling writes every part of the object at its place.               *)
THEOREM Writing == Spec => []WrittenInv
  <1>1. Init => WrittenInv
    BY DEF Init, WrittenInv
  <1>2. WrittenInv /\ IInv /\ TypedInv /\ SizeInv /\ [Next]_vars => WrittenInv'
    <2> SUFFICES ASSUME WrittenInv, IInv, TypedInv, SizeInv, [Next]_vars PROVE WrittenInv'
      OBVIOUS
    <2>1. CASE CallSizeSSZ \/ CallMarshalSSZ \/ CallMarshalSSZTo
      BY <2>1, WrittenCalls
    <2>2. CASE MarshalAction
      BY <2>2, WrittenMarshal
    <2>3. CASE SkipFixed
      BY <2>3, WrittenSkip
    <2>4. CASE CallUnmarshalSSZ
      <3>1. fields' = fields /\ wire' = wire /\ sent' = sent /\ phase' \in {"idle", "fields"}
        BY <2>4 DEF CallUnmarshalSSZ, Begin
      <3> QED BY <3>1, WrittenFrame
    <2>5. CASE UnmarshalAction
      <3>1. fields' = fields /\ phase' \in {"fields", "dynamic", "items", "idle"}
        BY <2>5, UnmarshalFrame
      <3>2. wire' = wire /\ sent' = sent
        BY <2>5 DEF UnmarshalAction, UnmarshalFixed, UnmarshalOffset, EndUnmarshalFields,
               UnmarshalTail, BeginItems, UnmarshalItem, EndUnmarshal, caller
      <3> QED BY <3>1, <3>2, WrittenFrame
    <2>6. CASE Stop \/ UNCHANGED vars
      <3>1. UNCHANGED vars
        BY <2>6 DEF Stop
      <3> QED BY <3>1 DEF vars, caller, writing, WrittenInv, Encodes, HeadWritten,
              TailWritten, HeadOf, TailStart, Tails
    <2> QED BY <2>1, <2>2, <2>3, <2>4, <2>5, <2>6 DEF Next, MarshalAction, UnmarshalAction
  <1> QED BY <1>1, <1>2, Invariance, Typing, Sizing, PTL DEF Spec

---------------------------------------------------------------------------
(* Reading what was sent.  Offsets are four bytes wide: the claim is about *)
(* encodings shorter than 2^32 bytes.                                      *)
ReadingSent == /\ call = "UnmarshalSSZ" /\ sent # << >> /\ input = wire
               /\ Len(wire) < OffsetEnd

Fresh == origin \in {"new", "decoded"}

(* A field is as it was sent, or as it was sent but for what it held.      *)
AsSent(i) == Keeps(fields[i], obj[i], sent[i]) /\ (Fresh => obj[i] = sent[i])

FieldsAsSent ==
    phase \in {"fields", "dynamic", "items"} =>
        \A i \in DOMAIN fields :
            \/ Decoded(i) /\ AsSent(i)
            \/ ~ Decoded(i) /\ phase = "items" /\ i = pc
            \/ ~ Decoded(i) /\ (Fresh => obj[i] = Zero(fields[i]))

(* The offsets read are the positions the variable fields were written at. *)
Rank(i) == Cardinality(TailsBefore(i)) + 1
OffsetsAsSent ==
    phase \in {"fields", "dynamic", "items"} =>
        /\ \A i \in 1 .. Len(fields) + 1 :
             Rank(i) <= Len(offs) => offs[Rank(i)] = TailStart(sent, i)
        /\ phase = "fields" /\ offs # << >> => offs[Len(offs)] <= TailStart(sent, pc)

(* UnmarshalDynamic is at the item, and the offset, it should be at.       *)
ItemsAsSent ==
    phase = "items" =>
        /\ items.src = EncodeTail(fields[pc], sent[pc])
        /\ Len(items.src) < OffsetEnd
        /\ items.indx \in 1 .. Len(sent[pc])
        /\ items.left = Len(sent[pc]) - items.indx + 1
        /\ items.start = ItemStart(sent[pc], items.indx)
        /\ items.pos = 4 * items.indx
        /\ Len(obj[pc]) = Len(sent[pc])
        /\ \A j \in 1 .. Len(sent[pc]) :
             obj[pc][j] = IF j < items.indx THEN sent[pc][j] ELSE << >>

(* Nothing but a bitlist that was never valid is refused.                  *)
Outcome ==
    phase = "idle" => /\ result = "ok" => \A i \in DOMAIN fields : AsSent(i)
                      /\ result = "error" => ~ HasValidBitlists(sent)

ReadInv == ReadingSent => FieldsAsSent /\ OffsetsAsSent /\ ItemsAsSent /\ Outcome

(* What is being read is an encoding of what was sent.                     *)
LEMMA SentFacts ==
    ASSUME IInv, WrittenInv, ReadingSent
    PROVE  /\ Len(fields) \in Nat /\ DOMAIN fields = 1 .. Len(fields)
           /\ DOMAIN sent = DOMAIN fields
           /\ input \in Seq(Byte) /\ Len(input) \in Nat /\ Len(input) < OffsetEnd
           /\ Len(input) = TailStart(sent, Len(fields) + 1)
           /\ \A i \in DOMAIN fields :
                /\ fields[i] \in Fields /\ IsField(fields[i])
                /\ HasType(fields[i], sent[i]) /\ Fits(fields[i], sent[i])
                /\ HeadWritten(input, sent, i)
                /\ InTail(fields[i]) => TailWritten(input, sent, i)
           /\ \A i \in 1 .. Len(fields) + 1 :
                /\ TailStart(sent, i) \in Nat /\ TailStart(sent, i) <= Len(input)
                /\ FixedLen(fields) <= TailStart(sent, i)
  <1>1. Encodes(input, sent) /\ input \in Seq(Byte) /\ Len(input) < OffsetEnd
    BY DEF WrittenInv, ReadingSent, IInv, StructInv
  <1>2. /\ DOMAIN sent = DOMAIN fields
        /\ Len(input) = TailStart(sent, Len(fields) + 1)
        /\ \A i \in DOMAIN fields :
             /\ HasType(fields[i], sent[i]) /\ Fits(fields[i], sent[i])
             /\ HeadWritten(input, sent, i)
             /\ InTail(fields[i]) => TailWritten(input, sent, i)
    BY <1>1 DEF Encodes
  <1>3. \A i \in DOMAIN fields : fields[i] \in Fields /\ IsField(fields[i])
    BY FieldFacts DEF IInv
  <1>4. /\ Len(fields) \in Nat /\ DOMAIN fields = 1 .. Len(fields)
        /\ \A i \in 1 .. Len(fields) + 1 :
             TailStart(sent, i) \in Nat /\ FixedLen(fields) <= TailStart(sent, i)
        /\ \A i, j \in 1 .. Len(fields) + 1 : i <= j => TailStart(sent, i) <= TailStart(sent, j)
    BY <1>2, StartFacts
  <1>5. \A i \in 1 .. Len(fields) + 1 : TailStart(sent, i) <= Len(input)
    <2> TAKE i \in 1 .. Len(fields) + 1
    <2>1. Len(fields) + 1 \in 1 .. Len(fields) + 1 /\ i <= Len(fields) + 1
      BY <1>4
    <2> QED BY <1>2, <1>4, <2>1
  <1>6. Len(input) \in Nat
    BY <1>1
  <1> QED BY <1>1, <1>2, <1>3, <1>4, <1>5, <1>6

(* What follows when no variable field comes between two positions.        *)
LEMMA SameRank ==
    ASSUME IInv, WrittenInv, ReadingSent,
           NEW i \in 1 .. Len(fields) + 1, NEW j \in 1 .. Len(fields) + 1, i <= j
    PROVE  /\ Rank(i) \in Nat /\ Rank(i) <= Rank(j)
           /\ Rank(i) = Rank(j) => TailStart(sent, i) = TailStart(sent, j)
           /\ i < j /\ i \in Tails(fields) => Rank(i) < Rank(j)
  <1>1. /\ Len(fields) \in Nat /\ DOMAIN fields = 1 .. Len(fields)
        /\ IsFiniteSet(Tails(fields)) /\ Tails(fields) \subseteq 1 .. Len(fields)
    BY StructFacts DEF IInv
  <1>2. \A k : /\ IsFiniteSet(TailsBefore(k)) /\ Cardinality(TailsBefore(k)) \in Nat
    BY <1>1, FS_Subset, FS_CardinalityType DEF TailsBefore
  <1>3. TailsBefore(i) \subseteq TailsBefore(j)
    BY <1>1 DEF TailsBefore
  <1>4. /\ Cardinality(TailsBefore(i)) <= Cardinality(TailsBefore(j))
        /\ Cardinality(TailsBefore(j)) = Cardinality(TailsBefore(i)) =>
             TailsBefore(j) = TailsBefore(i)
    BY <1>2, <1>3, FS_Subset
  <1>5. Rank(i) = Rank(j) => TailsBefore(j) = TailsBefore(i)
    BY <1>2, <1>4 DEF Rank
  <1>6. ASSUME TailsBefore(j) = TailsBefore(i)
        PROVE  \A m \in i .. j - 1 : ~ InTail(fields[m])
    <2> SUFFICES ASSUME NEW m \in i .. j - 1, InTail(fields[m]) PROVE FALSE
      OBVIOUS
    <2>1. m \in 1 .. Len(fields) /\ m < j /\ ~ (m < i)
      BY <1>1
    <2>2. m \in TailsBefore(j) /\ m \notin TailsBefore(i)
      BY <1>1, <2>1 DEF TailsBefore, Tails
    <2> QED BY <1>6, <2>2
  <1>7. TailsBefore(j) = TailsBefore(i) => TailStart(sent, i) = TailStart(sent, j)
    <2>1. \A k \in DOMAIN fields : HasType(fields[k], sent[k])
      BY SentFacts
    <2> QED BY <1>6, <2>1, StartFacts
  <1>8. i < j /\ i \in Tails(fields) => i \in TailsBefore(j) /\ i \notin TailsBefore(i)
    BY <1>1 DEF TailsBefore
  <1>9. i < j /\ i \in Tails(fields) => Rank(i) # Rank(j)
    BY <1>5, <1>8
  <1>10. Rank(i) \in Nat /\ Rank(j) \in Nat /\ Rank(i) <= Rank(j)
    BY <1>2, <1>4 DEF Rank
  <1> QED BY <1>5, <1>7, <1>9, <1>10

(* The bytes between two offsets are those of the variable field.          *)
LEMMA BufAsSent ==
    ASSUME IInv, WrittenInv, ReadInv, ReadingSent, phase = "dynamic", pc \in Tails(fields)
    PROVE  /\ From = TailStart(sent, pc) /\ To = TailStart(sent, pc + 1)
           /\ Buf = EncodeTail(fields[pc], sent[pc])
  <1>1. /\ pc \in DOMAIN fields /\ InTail(fields[pc])
        /\ at + 1 = Rank(pc) /\ Rank(pc + 1) = Rank(pc) + 1
        /\ Rank(pc) <= Len(offs) /\ Rank(Len(fields) + 1) = Len(offs) + 1
        /\ Rank(pc) \in Nat /\ Len(offs) \in Nat /\ at \in Nat
    <2>1. pc \in DOMAIN fields /\ InTail(fields[pc])
      BY DEF Tails
    <2>2. /\ Cardinality(TailsBefore(pc)) \in Nat
          /\ Cardinality(TailsBefore(pc + 1)) = Cardinality(TailsBefore(pc)) + 1
          /\ Cardinality(TailsBefore(pc)) + 1 <= Cardinality(Tails(fields))
          /\ TailsBefore(Len(fields) + 1) = Tails(fields)
      BY <2>1, TailCount DEF IInv
    <2>3. at = Cardinality(TailsBefore(pc)) /\ Len(offs) = Cardinality(Tails(fields))
          /\ offs \in Seq(Nat)
      BY DEF IInv, AtInv, OffsetsInv
    <2>4. Len(offs) \in Nat
      BY <2>3
    <2> QED BY <2>1, <2>2, <2>3, <2>4 DEF Rank
  <1>2. /\ pc \in 1 .. Len(fields) + 1 /\ pc + 1 \in 1 .. Len(fields) + 1
        /\ Len(fields) + 1 \in 1 .. Len(fields) + 1 /\ pc + 1 <= Len(fields) + 1
    BY <1>1, SentFacts
  <1>3. From = TailStart(sent, pc)
    <2>1. offs[Rank(pc)] = TailStart(sent, pc)
      BY <1>1, <1>2 DEF ReadInv, OffsetsAsSent
    <2> QED BY <1>1, <2>1 DEF From
  <1>4. To = TailStart(sent, pc + 1)
    <2>1. CASE at + 1 = Len(offs)
      <3>1. Rank(pc + 1) = Rank(Len(fields) + 1)
        BY <1>1, <2>1
      <3>2. TailStart(sent, pc + 1) = TailStart(sent, Len(fields) + 1)
        BY <1>2, <3>1, SameRank
      <3> QED BY <2>1, <3>2, SentFacts DEF To
    <2>2. CASE at + 1 # Len(offs)
      <3>1. Rank(pc + 1) <= Len(offs) /\ at + 2 = Rank(pc + 1)
        <4> QED BY <1>1, <2>2
      <3>2. offs[Rank(pc + 1)] = TailStart(sent, pc + 1)
        BY <1>2, <3>1 DEF ReadInv, OffsetsAsSent
      <3> QED BY <2>2, <3>1, <3>2 DEF To
    <2> QED BY <2>1, <2>2
  <1>5. TailWritten(input, sent, pc)
    BY <1>1, SentFacts
  <1> QED BY <1>3, <1>4, <1>5 DEF Buf, TailWritten

(* What a field's place in the fixed part holds.                           *)
LEMMA HeadAsSent ==
    ASSUME IInv, WrittenInv, ReadingSent, phase = "fields", pc \in DOMAIN fields
    PROVE  /\ ~ InTail(fields[pc]) => FieldBytes = sent[pc]
           /\ InTail(fields[pc]) => ReadOffset(FieldBytes) = TailStart(sent, pc)
  <1>1. FieldBytes = HeadOf(sent, pc)
    BY SentFacts DEF HeadWritten, FieldBytes
  <1>2. ASSUME InTail(fields[pc]) PROVE ReadOffset(FieldBytes) = TailStart(sent, pc)
    <2> DEFINE b == FieldBytes
               n == TailStart(sent, pc)
    <2>1. b \in Seq(Byte) /\ Len(b) = 4 /\ b = WriteOffset(n)
      BY <1>1, <1>2, FieldBytesFacts DEF Width, HeadOf
    <2>2. n \in Nat /\ n < OffsetEnd
      <3>1. pc \in 1 .. Len(fields) + 1
        BY SentFacts
      <3>2. n \in Nat /\ n <= Len(input) /\ Len(input) \in Nat /\ Len(input) < OffsetEnd
        BY <3>1, SentFacts
      <3> HIDE DEF n
      <3> QED BY <3>2 DEF OffsetEnd
    <2> HIDE DEF b, n
    <2>3. Len(b) = 4 /\ b \in Seq(Byte) => Slice(b, 0, 4) = b /\ Len(b) >= 4
      BY DEF Slice
    <2>4. ReadOffset(b) = n
      BY <2>1, <2>2, <2>3, ReadWritten
    <2> QED BY <2>4 DEF b, n
  <1> QED BY <1>1, <1>2 DEF HeadOf

---------------------------------------------------------------------------
(* Calls other than UnmarshalSSZ.                                          *)
LEMMA ReadOther ==
    ASSUME call' # "UnmarshalSSZ"
    PROVE  ReadInv'
  BY DEF ReadInv, ReadingSent

(* The length is right, and nothing has been decoded yet.                  *)
LEMMA ReadCall ==
    ASSUME IInv, WrittenInv, WrittenInv', IInv', CallUnmarshalSSZ, ReadingSent'
    PROVE  ReadInv'
  <1>1. /\ fields' = fields /\ sent' = sent /\ wire' = wire
        /\ pc' = 1 /\ offs' = << >> /\ phase' \in {"idle", "fields"}
        /\ phase' = "idle" => \/ Len(input') < FixedLen(fields)
                              \/ Tails(fields) = {} /\ Len(input') # FixedLen(fields)
        /\ Fresh' => obj' = New(fields)
    BY DEF CallUnmarshalSSZ, Begin, Fresh
  <1>2. Encodes(input, sent)'
    BY DEF WrittenInv, ReadingSent
  <1>3. /\ Len(input') = TailStart(sent, Len(fields) + 1)
        /\ \A i \in DOMAIN fields : HasType(fields[i], sent[i])
    BY <1>1, <1>2 DEF Encodes, TailStart
  <1>4. /\ Len(fields) \in Nat /\ DOMAIN fields = 1 .. Len(fields)
        /\ TailStart(sent, 1) = FixedLen(fields)
        /\ FixedLen(fields) <= Len(input') /\ Len(input') \in Nat /\ FixedLen(fields) \in Nat
        /\ Tails(fields) = {} => TailStart(sent, 1) = TailStart(sent, Len(fields) + 1)
    <2>1. Len(fields) \in Nat /\ DOMAIN fields = 1 .. Len(fields)
      BY StructFacts DEF IInv
    <2>2. 1 \in 1 .. Len(fields) + 1 /\ Len(fields) + 1 \in 1 .. Len(fields) + 1
          /\ 1 <= Len(fields) + 1
          /\ \A m \in 1 .. (Len(fields) + 1) - 1 : m \in DOMAIN fields
      BY <2>1
    <2>3. Tails(fields) = {} => \A m \in 1 .. (Len(fields) + 1) - 1 : ~ InTail(fields[m])
      BY <2>2 DEF Tails
    <2>4. /\ TailStart(sent, 1) = FixedLen(fields)
          /\ \A i \in 1 .. Len(fields) + 1 :
               TailStart(sent, i) \in Nat /\ FixedLen(fields) <= TailStart(sent, i)
          /\ \A i, j \in 1 .. Len(fields) + 1 : i <= j =>
               ((\A m \in i .. j - 1 : ~ InTail(fields[m])) =>
                    TailStart(sent, i) = TailStart(sent, j))
      BY <1>3, StartFacts
    <2>5. /\ FixedLen(fields) <= TailStart(sent, Len(fields) + 1)
          /\ TailStart(sent, Len(fields) + 1) \in Nat /\ TailStart(sent, 1) \in Nat
      BY <2>2, <2>4
    <2>6. Tails(fields) = {} => TailStart(sent, 1) = TailStart(sent, Len(fields) + 1)
      BY <2>2, <2>3, <2>4
    <2> QED BY <1>3, <2>1, <2>4, <2>5, <2>6
  <1>5. phase' = "fields"
    BY <1>1, <1>3, <1>4
  <1>6. \A i \in DOMAIN fields : ~ Decoded(i)'
    BY <1>1, <1>4, <1>5 DEF Decoded
  <1>7. FieldsAsSent'
    <2>1. Fresh' => \A i \in DOMAIN fields : obj'[i] = Zero(fields[i])
      BY <1>1 DEF New
    <2> QED BY <1>1, <1>6, <2>1 DEF FieldsAsSent
  <1>8. OffsetsAsSent'
    <2>1. \A i \in 1 .. Len(fields') + 1 : Rank(i)' \in Nat /\ Rank(i)' > 0
      <3> TAKE i \in 1 .. Len(fields') + 1
      <3>1. IsFiniteSet(Tails(fields))
        BY StructFacts DEF IInv
      <3>2. TailsBefore(i)' \subseteq Tails(fields)
        BY <1>1 DEF TailsBefore, Tails
      <3>3. Cardinality(TailsBefore(i))' \in Nat
        BY <3>1, <3>2, FS_Subset, FS_CardinalityType
      <3> QED BY <3>3 DEF Rank
    <2>2. Len(offs') = 0 /\ offs' = << >>
      BY <1>1
    <2> QED BY <2>1, <2>2 DEF OffsetsAsSent
  <1> QED BY <1>5, <1>7, <1>8 DEF ReadInv, ItemsAsSent, Outcome

(* What the steps of UnmarshalSSZ leave alone.                             *)
LEMMA ReadFrame ==
    ASSUME IInv, UnmarshalAction
    PROVE  /\ fields' = fields /\ sent' = sent /\ (ReadingSent' <=> ReadingSent)
           /\ (Fresh' <=> Fresh) /\ result = "none" /\ result' # "panic"
           /\ Len(fields) \in Nat /\ DOMAIN fields = 1 .. Len(fields)
           /\ DOMAIN obj = DOMAIN fields /\ pc \in Nat
           /\ phase \in {"fields", "dynamic", "items"}
           /\ phase' \in {"fields", "dynamic", "items", "idle"}
           /\ \A k : TailStart(sent, k)' = TailStart(sent, k) /\ Rank(k)' = Rank(k)
  <1>1. /\ fields' = fields /\ input' = input /\ call' = call /\ result = "none"
        /\ phase \in {"fields", "dynamic", "items"}
        /\ phase' \in {"fields", "dynamic", "items", "idle"}
        /\ \A k : TailsBefore(k)' = TailsBefore(k)
    BY UnmarshalFrame
  <1>2. /\ wire' = wire /\ sent' = sent
        /\ origin' = origin \/ (origin = "new" /\ origin' = "decoded")
    BY DEF UnmarshalAction, UnmarshalFixed, UnmarshalOffset, EndUnmarshalFields,
           UnmarshalTail, BeginItems, UnmarshalItem, EndUnmarshal, caller
  <1>3. Len(fields) \in Nat /\ DOMAIN fields = 1 .. Len(fields) /\ DOMAIN obj = DOMAIN fields
        /\ pc \in Nat
    BY StructFacts DEF IInv, StructInv
  <1>4. result' # "panic"
    <2>1. CASE UnmarshalFixed \/ UnmarshalOffset \/ EndUnmarshalFields \/ EndUnmarshal
      BY <1>1, <2>1 DEF UnmarshalFixed, UnmarshalOffset, EndUnmarshalFields, EndUnmarshal, Return
    <2>2. CASE UnmarshalTail
      <3>1. CanSlice(input, From, To)
        BY <2>2, BufFacts DEF UnmarshalTail, AtTail, AtField, Tails
      <3> QED BY <1>1, <2>2, <3>1 DEF UnmarshalTail, Return
    <2>3. CASE BeginItems
      <3>1. CanSlice(input, From, To)
        BY <2>3, BufFacts DEF BeginItems, AtTail, AtField, Tails
      <3> QED BY <1>1, <2>3, <3>1 DEF BeginItems, Return
    <2>4. CASE UnmarshalItem
      <3>1. ~ ItemRefused => CanSlice(items.src, items.start, ItemEnd)
        BY <2>4, ItemEndNat DEF UnmarshalItem
      <3> QED BY <1>1, <2>4, <3>1 DEF UnmarshalItem, Return
    <2> QED BY <2>1, <2>2, <2>3, <2>4 DEF UnmarshalAction
  <1> QED BY <1>1, <1>2, <1>3, <1>4 DEF ReadingSent, Fresh, TailStart, Rank

(* When only the field at hand changes, and it is now as it was sent.      *)
LEMMA ReadStep ==
    ASSUME IInv, TypedInv, ReadInv, ReadingSent, UnmarshalAction, phase' \in {"fields", "dynamic"},
           \A i \in DOMAIN fields : i # pc => (Decoded(i)' <=> Decoded(i)),
           \A i \in DOMAIN fields : i = pc => Decoded(i)',
           pc \in DOMAIN fields => /\ Keeps(fields[pc], obj'[pc], sent[pc])
                                   /\ Fresh => obj'[pc] = sent[pc]
    PROVE  FieldsAsSent'
  <1>1. /\ fields' = fields /\ sent' = sent /\ (Fresh' <=> Fresh)
        /\ phase \in {"fields", "dynamic", "items"}
    BY ReadFrame
  <1>2. ASSUME NEW i \in DOMAIN fields, i # pc
        PROVE  \/ Decoded(i)' /\ AsSent(i)'
               \/ ~ Decoded(i)' /\ (Fresh' => obj'[i] = Zero(fields[i]))
    <2>1. obj'[i] = obj[i]
      BY <1>2, UnmarshalObj
    <2>2. \/ Decoded(i) /\ AsSent(i)
          \/ ~ Decoded(i) /\ (Fresh => obj[i] = Zero(fields[i]))
      BY <1>1, <1>2 DEF ReadInv, FieldsAsSent
    <2>3. AsSent(i) => AsSent(i)'
      BY <1>1, <2>1 DEF AsSent
    <2> QED BY <1>1, <1>2, <2>1, <2>2, <2>3
  <1>3. ASSUME NEW i \in DOMAIN fields, i = pc
        PROVE  Decoded(i)' /\ AsSent(i)'
    <2>1. Keeps(fields[i], obj'[i], sent[i]) /\ (Fresh => obj'[i] = sent[i])
      BY <1>3
    <2>2. AsSent(i)'
      BY <1>1, <2>1 DEF AsSent
    <2> QED BY <1>3, <2>2
  <1>4. ASSUME NEW i \in DOMAIN fields
        PROVE  \/ Decoded(i)' /\ AsSent(i)'
               \/ ~ Decoded(i)' /\ (Fresh' => obj'[i] = Zero(fields[i]))
    BY <1>2, <1>3
  <1> QED BY <1>1, <1>4 DEF FieldsAsSent

(* The offsets stay as they are.                                           *)
LEMMA OffsetsStay ==
    ASSUME IInv, ReadInv, ReadingSent, UnmarshalAction, offs' = offs,
           phase' # "idle", phase' = "fields" => /\ phase = "fields"
                            /\ TailStart(sent, pc) <= TailStart(sent, pc')
                            /\ TailStart(sent, pc) \in Nat /\ TailStart(sent, pc') \in Nat
    PROVE  OffsetsAsSent'
  <1>1. /\ fields' = fields /\ sent' = sent /\ phase \in {"fields", "dynamic", "items"}
        /\ \A k : TailStart(sent, k)' = TailStart(sent, k) /\ Rank(k)' = Rank(k)
    BY ReadFrame
  <1>2. TailStart(sent, pc)' = TailStart(sent, pc')
    BY <1>1 DEF TailStart
  <1>3. offs # << >> => Len(offs) \in 1 .. Len(offs) /\ offs[Len(offs)] \in Nat
    BY DEF IInv, OffsetsInv
  <1>4. phase = "fields" /\ offs # << >> => offs[Len(offs)] <= TailStart(sent, pc)
    BY DEF ReadInv, OffsetsAsSent
  <1>5. phase' = "fields" /\ offs # << >> => offs[Len(offs)] <= TailStart(sent, pc')
    BY <1>3, <1>4
  <1> QED BY <1>1, <1>2, <1>5 DEF ReadInv, OffsetsAsSent

---------------------------------------------------------------------------
(* A field of the fixed part.                                              *)
LEMMA ReadFixed ==
    ASSUME IInv, TypedInv, WrittenInv, ReadInv, ReadingSent, UnmarshalFixed
    PROVE  ReadInv'
  <1>1. UnmarshalAction
    BY DEF UnmarshalAction
  <1>2. /\ pc \in DOMAIN fields /\ ~ InTail(fields[pc]) /\ phase = "fields" /\ phase' = "fields"
        /\ pc' = pc + 1 /\ fields' = fields /\ offs' = offs
        /\ obj' = [obj EXCEPT ![pc] = DecodeFixed(fields[pc], @, FieldBytes)]
    BY DEF UnmarshalFixed, AtField, caller, reading
  <1>3. /\ \A i \in DOMAIN fields : i = pc => Decoded(i)'
        /\ \A i \in DOMAIN fields : i # pc => (Decoded(i)' <=> Decoded(i))
        /\ ~ Decoded(pc)
    BY <1>2, DecodedNext
  <1>4. /\ fields[pc] \in Fields /\ HasType(fields[pc], sent[pc]) /\ HasType(fields[pc], obj[pc])
        /\ DOMAIN obj = DOMAIN fields
    BY <1>2, SentFacts DEF TypedInv, HasTypes, TypeOK
  <1>5. obj'[pc] = DecodeFixed(fields[pc], obj[pc], sent[pc])
    BY <1>2, <1>4, HeadAsSent
  <1>6. Fresh => obj[pc] = Zero(fields[pc])
    BY <1>2, <1>3 DEF ReadInv, FieldsAsSent
  <1>7. Keeps(fields[pc], obj'[pc], sent[pc]) /\ (Fresh => obj'[pc] = sent[pc])
    BY <1>2, <1>4, <1>5, <1>6, FixedDecodes
  <1>8. FieldsAsSent'
    BY <1>1, <1>2, <1>3, <1>7, ReadStep
  <1>9. /\ TailStart(sent, pc) <= TailStart(sent, pc')
        /\ TailStart(sent, pc) \in Nat /\ TailStart(sent, pc') \in Nat
    <2>1. pc \in 1 .. Len(fields) + 1 /\ pc + 1 \in 1 .. Len(fields) + 1 /\ pc <= pc + 1
      BY <1>1, <1>2, ReadFrame
    <2>2. \A i \in DOMAIN fields : HasType(fields[i], sent[i])
      BY SentFacts
    <2> QED BY <1>2, <2>1, <2>2, StartFacts
  <1>10. OffsetsAsSent'
    BY <1>1, <1>2, <1>9, OffsetsStay
  <1> QED BY <1>2, <1>8, <1>10 DEF ReadInv, ItemsAsSent, Outcome

(* The offset of a variable field is the first or a later one.             *)
LEMMA RankPositive ==
    ASSUME IInv, NEW i
    PROVE  Rank(i) \in Nat /\ Rank(i) > 0
  <1>1. IsFiniteSet(Tails(fields)) /\ TailsBefore(i) \subseteq Tails(fields)
    BY StructFacts DEF IInv, TailsBefore
  <1>2. Cardinality(TailsBefore(i)) \in Nat
    BY <1>1, FS_Subset, FS_CardinalityType
  <1> QED BY <1>2 DEF Rank

(* An offset is not refused, and is the position of its field.             *)
LEMMA ReadOffsets ==
    ASSUME IInv, TypedInv, WrittenInv, ReadInv, ReadingSent, UnmarshalOffset
    PROVE  ReadInv'
  <1> DEFINE o == TailStart(sent, pc)
  <1>1. UnmarshalAction
    BY DEF UnmarshalAction
  <1>2. /\ fields' = fields /\ sent' = sent /\ DOMAIN fields = 1 .. Len(fields)
        /\ Len(fields) \in Nat /\ pc \in Nat /\ (Fresh' <=> Fresh)
        /\ \A k : TailStart(sent, k)' = TailStart(sent, k) /\ Rank(k)' = Rank(k)
    BY <1>1, ReadFrame
  <1>3. /\ pc \in DOMAIN fields /\ InTail(fields[pc]) /\ phase = "fields" /\ obj' = obj
        /\ ReadOffset(FieldBytes) = o /\ pc \in Tails(fields)
    BY HeadAsSent DEF UnmarshalOffset, AtTail, AtField, Tails
  <1>4. /\ pc \in 1 .. Len(fields) + 1 /\ pc + 1 \in 1 .. Len(fields) + 1 /\ pc < pc + 1
    BY <1>2, <1>3
  <1>5. /\ o \in Nat /\ o <= Len(input) /\ Len(input) \in Nat
        /\ FixedLen(fields) <= o /\ FixedLen(fields) \in Nat
    BY <1>4, SentFacts, StructFacts DEF IInv
  <1>6. /\ offs \in Seq(Nat) /\ Len(offs) \in Nat /\ Rank(pc) = Len(offs) + 1
        /\ offs # << >> => offs[Len(offs)] \in Nat /\ offs[Len(offs)] <= o
    <2>1. offs \in Seq(Nat) /\ Len(offs) = Cardinality(TailsBefore(pc))
      BY <1>3 DEF IInv, OffsetsInv
    <2>2. offs # << >> => Len(offs) \in 1 .. Len(offs)
      BY <2>1
    <2>3. offs # << >> => offs[Len(offs)] <= o
      BY <1>3 DEF ReadInv, OffsetsAsSent
    <2> QED BY <2>1, <2>2, <2>3 DEF Rank
  <1>7. ~ OffsetRefused(o)
    <2> HIDE DEF o
    <2>1. ~ (o > Len(input)) /\ ~ (o < FixedLen(fields))
      BY <1>5
    <2>2. offs # << >> => ~ (offs[Len(offs)] > o)
      BY <1>5, <1>6
    <2> QED BY <2>1, <2>2 DEF OffsetRefused
  <1>8. offs' = Append(offs, o) /\ pc' = pc + 1 /\ phase' = "fields"
    BY <1>3, <1>7 DEF UnmarshalOffset
  <1>9. FieldsAsSent'
    <2>1. \A i \in DOMAIN fields : Decoded(i)' <=> Decoded(i)
      <3> TAKE i \in DOMAIN fields
      <3>1. InTail(fields[i]) \/ i # pc
        BY <1>3
      <3>2. i \in Nat /\ (i < pc' <=> i < pc \/ i = pc)
        BY <1>2, <1>8
      <3> QED BY <1>2, <1>3, <1>8, <3>1, <3>2 DEF Decoded
    <2>2. \A i \in DOMAIN fields : AsSent(i)' <=> AsSent(i)
      BY <1>2, <1>3 DEF AsSent
    <2> QED BY <1>2, <1>3, <1>8, <2>1, <2>2 DEF ReadInv, FieldsAsSent
  <1>10. /\ Len(offs') = Len(offs) + 1 /\ offs'[Len(offs) + 1] = o
         /\ \A k \in 1 .. Len(offs) : offs'[k] = offs[k]
    <2> HIDE DEF o
    <2> QED BY <1>5, <1>6, <1>8
  <1>11. ASSUME NEW i \in 1 .. Len(fields) + 1, Rank(i) <= Len(offs')
         PROVE  offs'[Rank(i)] = TailStart(sent, i)
    <2>1. i \in Nat /\ (i <= pc \/ pc < i)
      BY <1>2
    <2>2. CASE i <= pc
      <3>1. /\ Rank(i) \in Nat /\ Rank(i) > 0
            /\ Rank(i) = Rank(pc) => TailStart(sent, i) = o
        BY <1>4, <2>2, SameRank, RankPositive
      <3>2. CASE Rank(i) = Rank(pc)
        BY <1>6, <1>10, <3>1, <3>2
      <3>3. CASE Rank(i) # Rank(pc)
        <4>1. Rank(i) \in 1 .. Len(offs) /\ Rank(i) <= Len(offs)
          BY <1>6, <1>10, <1>11, <3>1, <3>3
        <4>2. offs[Rank(i)] = TailStart(sent, i)
          BY <1>3, <4>1 DEF ReadInv, OffsetsAsSent
        <4> QED BY <1>10, <4>1, <4>2
      <3> QED BY <3>2, <3>3
    <2>3. CASE pc < i
      <3>1. Rank(pc) < Rank(i) /\ Rank(i) \in Nat
        <4>1. pc <= i /\ i <= i
          BY <1>2, <2>3
        <4> QED BY <1>3, <1>4, <2>3, <4>1, SameRank
      <3>2. FALSE
        BY <1>6, <1>10, <1>11, <3>1
      <3> QED BY <3>2
    <2> QED BY <2>1, <2>2, <2>3
  <1>12. offs'[Len(offs')] <= TailStart(sent, pc')
    <2>1. \A i \in DOMAIN fields : HasType(fields[i], sent[i])
      BY SentFacts
    <2>2. TailStart(sent, pc) <= TailStart(sent, pc + 1)
      <3>1. pc <= pc + 1
        BY <1>2
      <3> QED BY <1>4, <2>1, <3>1, StartFacts
    <2> QED BY <1>8, <1>10, <2>2
  <1>13. TailStart(sent, pc)' = TailStart(sent, pc')
    BY <1>2 DEF TailStart
  <1>14. OffsetsAsSent'
    BY <1>2, <1>11, <1>12, <1>13 DEF OffsetsAsSent
  <1> QED BY <1>8, <1>9, <1>14 DEF ReadInv, ItemsAsSent, Outcome

(* From the first loop to the second, and past a field of the first.       *)
LEMMA ReadOn ==
    ASSUME IInv, TypedInv, WrittenInv, ReadInv, ReadingSent,
           EndUnmarshalFields \/ (SkipFixed /\ phase = "dynamic")
    PROVE  ReadInv'
  <1>1. /\ fields' = fields /\ sent' = sent /\ obj' = obj /\ offs' = offs
        /\ origin' = origin /\ result' = result /\ phase' = "dynamic"
        /\ \/ phase = "fields" /\ pc \notin DOMAIN fields /\ pc' = 1
           \/ phase = "dynamic" /\ pc \in DOMAIN fields /\ ~ InTail(fields[pc]) /\ pc' = pc + 1
    BY DEF EndUnmarshalFields, PastLast, SkipFixed, AtField, caller, reading
  <1>2. DOMAIN fields = 1 .. Len(fields) /\ Len(fields) \in Nat /\ pc \in 1 .. Len(fields) + 1
    BY StructFacts DEF IInv, StructInv
  <1>3. \A i \in DOMAIN fields : Decoded(i)' <=> Decoded(i)
    <2> TAKE i \in DOMAIN fields
    <2>1. CASE phase = "fields"
      <3>1. i < pc /\ ~ (i < pc')
        BY <1>1, <1>2, <2>1
      <3> QED BY <1>1, <2>1, <3>1 DEF Decoded
    <2>2. CASE phase = "dynamic"
      <3>1. InTail(fields[i]) => (i < pc' <=> i < pc)
        BY <1>1, <1>2, <2>2
      <3> QED BY <1>1, <2>2, <3>1 DEF Decoded
    <2> QED BY <1>1, <2>1, <2>2
  <1>4. \A i \in DOMAIN fields : AsSent(i)' <=> AsSent(i)
    BY <1>1 DEF AsSent, Fresh
  <1>5. FieldsAsSent'
    BY <1>1, <1>3, <1>4 DEF ReadInv, FieldsAsSent, Fresh
  <1>6. \A k : TailStart(sent, k)' = TailStart(sent, k) /\ Rank(k)' = Rank(k)
    BY <1>1 DEF TailStart, Rank, TailsBefore, Tails
  <1>7. OffsetsAsSent'
    BY <1>1, <1>6 DEF ReadInv, OffsetsAsSent
  <1> QED BY <1>1, <1>5, <1>7 DEF ReadInv, ItemsAsSent, Outcome

(* All has been read.                                                      *)
LEMMA ReadEnd ==
    ASSUME IInv, TypedInv, WrittenInv, ReadInv, ReadingSent, EndUnmarshal
    PROVE  ReadInv'
  <1>1. /\ phase' = "idle" /\ result' = "ok" /\ phase = "dynamic" /\ pc \notin DOMAIN fields
        /\ obj' = obj
    BY DEF EndUnmarshal, Return, PastLast
  <1>2. /\ fields' = fields /\ sent' = sent /\ (Fresh' <=> Fresh)
        /\ DOMAIN fields = 1 .. Len(fields) /\ Len(fields) \in Nat
    BY ReadFrame DEF UnmarshalAction
  <1>3. \A i \in DOMAIN fields : AsSent(i)
    <2> TAKE i \in DOMAIN fields
    <2>1. i < pc
      BY <1>1, <1>2 DEF IInv, StructInv
    <2> QED BY <1>1, <2>1 DEF ReadInv, FieldsAsSent, Decoded
  <1>4. \A i \in DOMAIN fields : AsSent(i)'
    BY <1>1, <1>2, <1>3 DEF AsSent
  <1> QED BY <1>1, <1>2, <1>4 DEF ReadInv, FieldsAsSent, OffsetsAsSent, ItemsAsSent, Outcome

(* An error for a bitlist that was not valid, and none otherwise.          *)
LEMMA ReadRefused ==
    ASSUME IInv, ReadingSent, UnmarshalAction, phase' = "idle", result' = "error",
           ~ HasValidBitlists(sent)
    PROVE  ReadInv'
  <1>1. fields' = fields /\ sent' = sent
    BY ReadFrame
  <1>2. ~ HasValidBitlists(sent)'
    BY <1>1 DEF HasValidBitlists
  <1> QED BY <1>2 DEF ReadInv, FieldsAsSent, OffsetsAsSent, ItemsAsSent, Outcome

(* A variable field, but for a list of items.                              *)
LEMMA ReadTail ==
    ASSUME IInv, TypedInv, WrittenInv, ReadInv, ReadingSent, UnmarshalTail
    PROVE  ReadInv'
  <1> DEFINE b == EncodeTail(fields[pc], sent[pc])
  <1>1. UnmarshalAction
    BY DEF UnmarshalAction
  <1>2. /\ fields' = fields /\ phase = "dynamic" /\ pc \in DOMAIN fields
        /\ InTail(fields[pc]) /\ pc \in Tails(fields) /\ fields[pc].kind # "dynlist"
        /\ offs' = offs
    BY DEF UnmarshalTail, AtTail, AtField, Tails, caller
  <1>3. CanSlice(input, From, To) /\ Buf = b
    BY <1>2, BufFacts, BufAsSent
  <1>4. /\ fields[pc] \in Fields /\ IsField(fields[pc]) /\ HasType(fields[pc], sent[pc])
        /\ Fits(fields[pc], sent[pc]) /\ HasType(fields[pc], obj[pc]) /\ DOMAIN obj = DOMAIN fields
    BY <1>2, SentFacts DEF TypedInv, HasTypes, TypeOK
  <1>5. /\ (fields[pc].kind = "bitlist" => ValidateBitlist(sent[pc], fields[pc].max))
             => ~ Refuses(fields[pc], b)
        /\ DecodeTail(fields[pc], Zero(fields[pc]), b) = sent[pc]
        /\ \A old : HasType(fields[pc], old) =>
             Keeps(fields[pc], DecodeTail(fields[pc], old, b), sent[pc])
    BY <1>2, <1>4, TailDecodes
  <1> HIDE DEF b
  <1>6. CASE Refuses(fields[pc], Buf)
    <2>1. phase' = "idle" /\ result' = "error"
      BY <1>3, <1>6 DEF UnmarshalTail, Return
    <2>2. ~ HasValidBitlists(sent)
      BY <1>2, <1>3, <1>5, <1>6 DEF HasValidBitlists
    <2> QED BY <1>1, <2>1, <2>2, ReadRefused
  <1>7. CASE ~ Refuses(fields[pc], Buf)
    <2>1. /\ phase' = "dynamic" /\ pc' = pc + 1
          /\ obj' = [obj EXCEPT ![pc] = DecodeTail(fields[pc], @, b)]
      BY <1>2, <1>3, <1>7 DEF UnmarshalTail
    <2>2. /\ \A i \in DOMAIN fields : i = pc => Decoded(i)'
          /\ \A i \in DOMAIN fields : i # pc => (Decoded(i)' <=> Decoded(i))
          /\ ~ Decoded(pc)
      BY <1>2, <2>1, DecodedNext
    <2>3. obj'[pc] = DecodeTail(fields[pc], obj[pc], b)
      BY <1>2, <1>4, <2>1
    <2>4. Fresh => obj[pc] = Zero(fields[pc])
      BY <1>2, <2>2 DEF ReadInv, FieldsAsSent
    <2>5. Keeps(fields[pc], obj'[pc], sent[pc]) /\ (Fresh => obj'[pc] = sent[pc])
      BY <1>4, <1>5, <2>3, <2>4
    <2>6. FieldsAsSent'
      BY <1>1, <2>1, <2>2, <2>5, ReadStep
    <2>7. OffsetsAsSent'
      BY <1>1, <1>2, <2>1, OffsetsStay
    <2> QED BY <2>1, <2>6, <2>7 DEF ReadInv, ItemsAsSent, Outcome
  <1> QED BY <1>6, <1>7

(* What a list of items was written as.                                    *)
LEMMA ItemsWritten ==
    ASSUME IInv, WrittenInv, ReadingSent, NEW i \in DOMAIN fields, fields[i].kind = "dynlist"
    PROVE  /\ sent[i] \in Seq(Seq(Byte)) /\ Len(sent[i]) \in Nat
           /\ EncodeTail(fields[i], sent[i]) = EncodeItems(sent[i])
           /\ Len(sent[i]) <= fields[i].max /\ fields[i].max \in Nat
           /\ \A j \in 1 .. Len(sent[i]) : Len(sent[i][j]) <= fields[i].each
           /\ fields[i].each \in Nat
  <1>1. fields[i] \in Fields /\ HasType(fields[i], sent[i]) /\ Fits(fields[i], sent[i])
    BY SentFacts
  <1> DEFINE v == sent[i]
  <1>2. v \in Seq(Seq(Byte))
    BY <1>1 DEF HasType
  <1>3. fields[i].max \in Nat /\ fields[i].each \in Nat
    BY <1>1 DEF Fields
  <1>4. ~ (Len(v) > fields[i].max) /\ \A j \in DOMAIN v : ~ (Len(v[j]) > fields[i].each)
    BY <1>1 DEF Fits, Invalid
  <1>5. EncodeTail(fields[i], v) = EncodeItems(v)
    BY DEF EncodeTail
  <1> HIDE DEF v
  <1>6. Len(v) \in Nat /\ DOMAIN v = 1 .. Len(v) /\ \A j \in 1 .. Len(v) : Len(v[j]) \in Nat
    BY <1>2
  <1>7. Len(v) <= fields[i].max
    BY <1>3, <1>4, <1>6
  <1>8. ASSUME NEW j \in 1 .. Len(v) PROVE Len(v[j]) <= fields[i].each
    <2>1. Len(v[j]) \in Nat /\ ~ (Len(v[j]) > fields[i].each)
      BY <1>4, <1>6
    <2> DEFINE l == Len(v[j])
    <2> HIDE DEF l
    <2>2. l \in Nat /\ ~ (l > fields[i].each)
      BY <2>1 DEF l
    <2>3. l <= fields[i].each
      BY <1>3, <2>2
    <2> QED BY <2>3 DEF l
  <1> QED BY <1>2, <1>3, <1>5, <1>6, <1>7, <1>8 DEF v

(* The first offset tells how many items there are.                        *)
LEMMA ReadBegin ==
    ASSUME IInv, TypedInv, WrittenInv, ReadInv, ReadingSent, BeginItems
    PROVE  ReadInv'
  <1> DEFINE v == sent[pc]
             n == Len(v)
             E == EncodeItems(v)
             new == [i \in 1 .. DynamicLength(Buf) |-> NoBytes]
  <1>1. UnmarshalAction
    BY DEF UnmarshalAction
  <1>2. /\ fields' = fields /\ sent' = sent /\ phase = "dynamic" /\ pc \in DOMAIN fields
        /\ InTail(fields[pc]) /\ pc \in Tails(fields) /\ fields[pc].kind = "dynlist"
        /\ offs' = offs /\ DOMAIN obj = DOMAIN fields
    BY DEF BeginItems, AtTail, AtField, Tails, caller, IInv, StructInv
  <1>3. /\ CanSlice(input, From, To) /\ Buf = E
        /\ v \in Seq(Seq(Byte)) /\ n \in Nat /\ n <= fields[pc].max /\ fields[pc].max \in Nat
    BY <1>2, BufFacts, BufAsSent, ItemsWritten
  <1>4. /\ E \in Seq(Byte) /\ ItemStart(v, n + 1) = Len(E) /\ ItemStart(v, 1) = 4 * n
        /\ 4 * n <= Len(E)
        /\ n # 0 => Slice(E, 0, 4) = WriteOffset(ItemStart(v, 1))
    <2>1. /\ E \in Seq(Byte) /\ ItemStart(v, n + 1) = Len(E) /\ ItemStart(v, 1) = 4 * n
          /\ 4 * n <= Len(E)
          /\ \A j \in 1 .. n : Slice(E, 4 * (j - 1), 4 * j) = WriteOffset(ItemStart(v, j))
      BY <1>3, ItemFacts
    <2>2. n # 0 => 1 \in 1 .. n /\ 4 * (1 - 1) = 0 /\ 4 * 1 = 4
      BY <1>3
    <2> HIDE DEF n, E, v
    <2> QED BY <2>1, <2>2
  <1>5. Len(E) < OffsetEnd /\ Len(E) \in Nat
    <2>1. pc \in 1 .. Len(fields) + 1 /\ pc + 1 \in 1 .. Len(fields) + 1
      BY <1>2, SentFacts
    <2>2. /\ From \in Nat /\ To \in Nat /\ To <= Len(input) /\ input \in Seq(Byte)
          /\ Len(input) \in Nat /\ Len(input) < OffsetEnd
      BY <1>2, <2>1, BufAsSent, SentFacts
    <2>3. Len(Buf) = To - From
      BY <1>3, <2>2, SliceBytes DEF Buf
    <2> DEFINE l == Len(E)
    <2>4. l = To - From
      BY <1>3, <2>3
    <2> HIDE DEF l, E
    <2>5. l \in Nat
      BY <1>4 DEF l
    <2>6. l < OffsetEnd
      BY <2>2, <2>4, <2>5 DEF OffsetEnd
    <2> QED BY <2>5, <2>6 DEF l
  <1> HIDE DEF n, E, v
  <1>6. CASE n = 0
    <2>1. E = << >>
      <3>1. ItemStart(v, 1) = Len(E)
        BY <1>4, <1>6
      <3>2. Len(E) = 0
        BY <1>4, <1>6, <3>1
      <3> QED BY <1>4, <3>2
    <2>2. ~ LengthRefused(fields[pc], Buf) /\ DynamicLength(Buf) = 0
      BY <1>3, <2>1 DEF LengthRefused, DynamicLength
    <2>3. /\ phase' = "dynamic" /\ pc' = pc + 1 /\ obj' = [obj EXCEPT ![pc] = new]
      BY <1>2, <1>3, <2>2 DEF BeginItems
    <2>4. new = << >> /\ v = << >>
      <3>1. new = [i \in 1 .. 0 |-> NoBytes] /\ 1 .. 0 = {}
        BY <2>2
      <3> HIDE DEF new
      <3>2. new = << >>
        BY <3>1
      <3>3. v = << >>
        BY <1>3, <1>6 DEF n
      <3> QED BY <3>2, <3>3
    <2> HIDE DEF new
    <2>5. /\ \A i \in DOMAIN fields : i = pc => Decoded(i)'
          /\ \A i \in DOMAIN fields : i # pc => (Decoded(i)' <=> Decoded(i))
      BY <1>2, <2>3, DecodedNext
    <2>6. obj'[pc] = sent[pc]
      BY <1>2, <2>3, <2>4 DEF v
    <2>7. Keeps(fields[pc], obj'[pc], sent[pc])
      BY <1>2, <2>6 DEF Keeps
    <2>8. FieldsAsSent'
      BY <1>1, <2>3, <2>5, <2>6, <2>7, ReadStep
    <2>9. OffsetsAsSent'
      BY <1>1, <1>2, <2>3, OffsetsStay
    <2> QED BY <2>3, <2>8, <2>9 DEF ReadInv, ItemsAsSent, Outcome
  <1>7. CASE n # 0
    <2>1. n \in 1 .. n /\ 1 \in 1 .. n /\ 4 <= 4 * n
      BY <1>3, <1>7
    <2>2. Len(E) >= 4 /\ E # << >>
      BY <1>4, <1>5, <2>1
    <2>3. ReadOffset(E) = 4 * n
      <3>1. 4 * n \in Nat /\ 4 * n < OffsetEnd
        BY <1>3, <1>4, <1>5 DEF OffsetEnd
      <3>2. Slice(E, 0, 4) = WriteOffset(4 * n)
        BY <1>4, <1>7
      <3> QED BY <1>4, <2>2, <3>1, <3>2, ReadWritten
    <2>4. (4 * n) % 4 = 0 /\ (4 * n) \div 4 = n
      BY <1>3
    <2>5. ~ LengthRefused(fields[pc], Buf) /\ DynamicLength(Buf) = n
      <3>1. ~ (Len(E) < 4) /\ ~ (n > fields[pc].max)
        BY <1>3, <1>5, <2>2
      <3> QED BY <1>3, <2>2, <2>3, <2>4, <3>1 DEF LengthRefused, DynamicLength
    <2>6. /\ phase' = "items" /\ pc' = pc /\ obj' = [obj EXCEPT ![pc] = new]
          /\ items' = [src |-> E, left |-> n, start |-> 4 * n, pos |-> 4, indx |-> 1]
      BY <1>2, <1>3, <1>7, <2>3, <2>5 DEF BeginItems
    <2>7. new = [i \in 1 .. n |-> << >>] /\ obj'[pc] = new /\ Len(new) = n
      <3>1. new = [i \in 1 .. n |-> << >>]
        BY <2>5 DEF NoBytes
      <3> HIDE DEF new
      <3>2. obj'[pc] = new
        BY <1>2, <2>6
      <3>3. Len(new) = n
        BY <1>3, <3>1
      <3> QED BY <3>1, <3>2, <3>3
    <2> HIDE DEF new
    <2>8. ItemsAsSent'
      <3>1. /\ items'.src = EncodeTail(fields[pc], sent[pc]) /\ Len(items'.src) < OffsetEnd
        BY <1>2, <1>5, <2>6, ItemsWritten DEF E, v
      <3>2. /\ items'.indx = 1 /\ items'.left = Len(sent[pc]) - items'.indx + 1
            /\ items'.start = ItemStart(sent[pc], items'.indx) /\ items'.pos = 4 * items'.indx
            /\ items'.indx \in 1 .. Len(sent[pc])
        <4>1. items'.indx = 1 /\ items'.left = n /\ items'.start = ItemStart(v, 1)
              /\ items'.pos = 4
          BY <1>4, <2>6
        <4>2. n = n - 1 + 1 /\ 4 = 4 * 1
          BY <1>3
        <4> QED BY <2>1, <4>1, <4>2 DEF v, n
      <3>3. Len(obj'[pc]) = Len(sent[pc])
        BY <2>7 DEF v, n
      <3>4. \A j \in 1 .. Len(sent[pc]) :
               obj'[pc][j] = IF j < items'.indx THEN sent[pc][j] ELSE << >>
        <4> TAKE j \in 1 .. Len(sent[pc])
        <4>1. j \in 1 .. n /\ ~ (j < 1)
          BY <1>3 DEF n, v
        <4>2. obj'[pc][j] = << >>
          BY <2>7, <4>1
        <4> QED BY <3>2, <4>1, <4>2
      <3>5. fields' = fields /\ sent' = sent /\ pc' = pc
        BY <1>2, <2>6
      <3> QED BY <3>1, <3>2, <3>3, <3>4, <3>5 DEF ItemsAsSent
    <2>9. FieldsAsSent'
      <3>1. \A i \in DOMAIN fields : Decoded(i)' <=> Decoded(i)
        BY <1>2, <2>6 DEF Decoded
      <3>2. \A i \in DOMAIN fields : i # pc => (AsSent(i)' <=> AsSent(i)) /\ obj'[i] = obj[i]
        BY <1>1, <1>2, <2>6, ReadFrame DEF AsSent
      <3>3. ~ Decoded(pc)
        <4>1. pc \in Nat /\ ~ (pc < pc)
          BY <1>1, ReadFrame
        <4> QED BY <1>2, <4>1 DEF Decoded
      <3>4. Fresh' <=> Fresh
        BY <1>1, ReadFrame
      <3> QED BY <1>2, <2>6, <3>1, <3>2, <3>3, <3>4 DEF ReadInv, FieldsAsSent
    <2>10. OffsetsAsSent'
      BY <1>1, <1>2, <2>6, OffsetsStay
    <2> QED BY <2>6, <2>8, <2>9, <2>10 DEF ReadInv, Outcome
  <1> QED BY <1>6, <1>7

(* Where UnmarshalDynamic takes the item from, and that it takes it.       *)
LEMMA ItemAsSent ==
    ASSUME IInv, TypedInv, WrittenInv, ReadInv, ReadingSent, phase = "items"
    PROVE  /\ ~ ItemRefused /\ ItemEnd = ItemStart(sent[pc], items.indx + 1)
           /\ Slice(items.src, items.start, ItemEnd) = sent[pc][items.indx]
           /\ ~ (ItemEnd - items.start > fields[pc].each)
  <1> DEFINE v == sent[pc]
             n == Len(v)
             k == items.indx
             E == EncodeItems(v)
             l == Len(E)
             a == ItemStart(v, k)
             z == ItemStart(v, k + 1)
             m == Len(v[k])
  <1>1. pc \in DOMAIN fields /\ fields[pc].kind = "dynlist"
    BY DEF IInv, AtInv, Tails, TypedInv
  <1>2. /\ v \in Seq(Seq(Byte)) /\ n \in Nat /\ EncodeTail(fields[pc], v) = E
        /\ \A j \in 1 .. n : Len(v[j]) <= fields[pc].each
        /\ fields[pc].each \in Nat
    BY <1>1, ItemsWritten
  <1>3. /\ items.src = E /\ k \in 1 .. n /\ items.left = n - k + 1
        /\ items.start = a /\ items.pos = 4 * k /\ l < OffsetEnd
    BY <1>2 DEF ReadInv, ItemsAsSent
  <1>4. /\ E \in Seq(Byte) /\ ItemStart(v, n + 1) = l /\ 4 * n <= l
        /\ \A j \in 1 .. n :
             /\ v[j] \in Seq(Byte) /\ ItemStart(v, j) \in Nat
             /\ ItemStart(v, j + 1) = ItemStart(v, j) + Len(v[j])
             /\ ItemStart(v, j + 1) <= l
             /\ Slice(E, 4 * (j - 1), 4 * j) = WriteOffset(ItemStart(v, j))
             /\ Slice(E, ItemStart(v, j), ItemStart(v, j + 1)) = v[j]
    BY <1>2, ItemFacts
  <1>5. l \in Nat
    <2> HIDE DEF E
    <2> QED BY <1>4
  <1>6. /\ a \in Nat /\ m \in Nat /\ z = a + m /\ z <= l /\ Slice(E, a, z) = v[k]
        /\ m <= fields[pc].each
    <2>1. v[k] \in Seq(Byte)
      BY <1>3, <1>4
    <2>2. m \in Nat
      BY <2>1
    <2> QED BY <1>2, <1>3, <1>4, <2>2
  <1>7. k \in Nat /\ k >= 1 /\ k <= n
    BY <1>2, <1>3
  <1> HIDE DEF v, n, k, E, l, a, z, m
  <1>8. ItemEnd = z /\ (items.left # 1 => 4 <= l - items.pos)
    <2>1. CASE items.left = 1
      <3>1. k = n
        BY <1>2, <1>3, <1>7, <2>1
      <3>2. z = l
        BY <1>4, <3>1 DEF z
      <3> QED BY <1>3, <2>1, <3>2 DEF ItemEnd, l
    <2>2. CASE items.left # 1
      <3>1. k + 1 \in 1 .. n /\ 4 * ((k + 1) - 1) = 4 * k /\ 4 * (k + 1) = 4 * k + 4
            /\ 4 * k + 4 <= 4 * n /\ 4 * k \in Nat
        BY <1>2, <1>3, <1>7, <2>2
      <3>2. Slice(E, 4 * k, 4 * k + 4) = WriteOffset(z) /\ z \in Nat
        BY <1>4, <3>1 DEF z
      <3> DEFINE b == Slice(E, 4 * k, 4 * k + 4)
      <3>3. b \in Seq(Byte) /\ Len(b) = 4 /\ b = WriteOffset(z)
        BY <3>2, WriteOffsetBytes
      <3>4. z < OffsetEnd
        BY <1>3, <1>5, <1>6, <3>2 DEF OffsetEnd
      <3>5. Len(b) = 4 /\ b \in Seq(Byte) => Slice(b, 0, 4) = b /\ Len(b) >= 4
        <4> HIDE DEF b
        <4> QED BY DEF Slice
      <3> HIDE DEF b
      <3>6. ReadOffset(b) = z
        BY <3>2, <3>3, <3>4, <3>5, ReadWritten
      <3>7. 4 <= l - 4 * k
        BY <1>2, <1>4, <1>5, <3>1
      <3> QED BY <1>3, <2>2, <3>6, <3>7 DEF ItemEnd, b
    <2> QED BY <2>1, <2>2
  <1>9. ~ ItemRefused
    <2>1. ~ (items.start > z) /\ ~ (z > Len(items.src))
      BY <1>3, <1>5, <1>6 DEF l
    <2>2. items.left # 1 => ~ (Len(items.src) - items.pos < 4)
      <3>1. l - items.pos \in Int
        BY <1>3, <1>5, <1>7
      <3>2. items.left # 1 => ~ (l - items.pos < 4)
        BY <1>8, <3>1
      <3> QED BY <1>3, <3>2 DEF l
    <2> QED BY <1>8, <2>1, <2>2 DEF ItemRefused
  <1>10. ~ (ItemEnd - items.start > fields[pc].each)
    <2>1. z - a = m
      BY <1>6
    <2>2. ItemEnd - items.start = m
      BY <1>3, <1>8, <2>1
    <2> QED BY <1>2, <1>6, <2>2
  <1>11. ItemEnd = ItemStart(sent[pc], items.indx + 1)
    BY <1>8 DEF z, v, k
  <1>12. Slice(items.src, items.start, ItemEnd) = sent[pc][items.indx]
    BY <1>3, <1>6, <1>8 DEF v, k
  <1> QED BY <1>9, <1>10, <1>11, <1>12

(* Sequences of the same elements are the same.                            *)
LEMMA SameElements ==
    ASSUME NEW D, NEW s \in Seq(D), NEW t \in Seq(D),
           Len(s) = Len(t), \A i \in 1 .. Len(s) : s[i] = t[i]
    PROVE  s = t
  OBVIOUS

(* One item more is as it was sent, or the last one is.                    *)
LEMMA ReadItem ==
    ASSUME IInv, TypedInv, WrittenInv, ReadInv, ReadingSent, UnmarshalItem
    PROVE  ReadInv'
  <1> DEFINE v == sent[pc]
             n == Len(v)
             k == items.indx
             old == obj[pc]
             new == [old EXCEPT ![k] = @ \o v[k]]
  <1>1. UnmarshalAction
    BY DEF UnmarshalAction
  <1>2. /\ phase = "items" /\ fields' = fields /\ sent' = sent /\ offs' = offs
        /\ pc \in DOMAIN fields /\ fields[pc].kind = "dynlist" /\ InTail(fields[pc])
        /\ DOMAIN obj = DOMAIN fields
    BY DEF UnmarshalItem, caller, IInv, StructInv, AtInv, Tails, TypedInv
  <1>3. /\ v \in Seq(Seq(Byte)) /\ n \in Nat
    BY <1>2, ItemsWritten
  <1>4. /\ k \in 1 .. n /\ items.left = n - k + 1 /\ items.pos = 4 * k /\ Len(old) = n
        /\ items.src = EncodeTail(fields[pc], v) /\ Len(items.src) < OffsetEnd
        /\ \A j \in 1 .. n : old[j] = IF j < k THEN v[j] ELSE << >>
    BY <1>2 DEF ReadInv, ItemsAsSent
  <1>5. old \in Seq(Seq(Byte))
    BY <1>2 DEF TypedInv, HasTypes, HasType
  <1>6. /\ ~ ItemRefused /\ CanSlice(items.src, items.start, ItemEnd)
        /\ ItemEnd = ItemStart(v, k + 1)
        /\ Slice(items.src, items.start, ItemEnd) = v[k]
        /\ ~ (ItemEnd - items.start > fields[pc].each)
    BY <1>2, ItemAsSent, ItemEndNat
  <1>7. /\ obj' = [obj EXCEPT ![pc] = new]
        /\ \/ items.left = 1 /\ phase' = "dynamic" /\ pc' = pc + 1
           \/ /\ items.left # 1 /\ phase' = "items" /\ pc' = pc
              /\ items' = [items EXCEPT !.left = @ - 1, !.start = ItemEnd,
                                        !.pos = @ + 4, !.indx = @ + 1]
    BY <1>6 DEF UnmarshalItem
  <1>8. k \in Nat /\ k >= 1 /\ k <= n
    BY <1>3, <1>4
  <1>9. obj'[pc] = new /\ \A i \in DOMAIN fields : i # pc => obj'[i] = obj[i]
    <2> HIDE DEF new
    <2> QED BY <1>2, <1>7
  <1>10. /\ new \in Seq(Seq(Byte)) /\ Len(new) = n
         /\ \A j \in 1 .. n : new[j] = IF j < k + 1 THEN v[j] ELSE << >>
    <2>1. obj'[pc] \in Seq(Seq(Byte))
      <3>1. HasTypes'
        BY <1>1, UnmarshalObj
      <3> QED BY <1>2, <3>1 DEF HasTypes, HasType
    <2>2. DOMAIN old = 1 .. n
      BY <1>4, <1>5
    <2>3. v[k] \in Seq(Byte) /\ << >> \o v[k] = v[k]
      <3>1. v[k] \in Seq(Byte)
        BY <1>3, <1>4
      <3> HIDE DEF v, k
      <3> QED BY <3>1
    <2>4. ~ (k < k) /\ old[k] = << >>
      BY <1>4, <1>8
    <2>5. new = [old EXCEPT ![k] = v[k]]
      BY <2>3, <2>4
    <2> HIDE DEF new, old, v, k, n
    <2>6. DOMAIN new = 1 .. n /\ new[k] = v[k] /\ \A j \in 1 .. n : j # k => new[j] = old[j]
      BY <1>4, <2>2, <2>5
    <2>7. ASSUME NEW j \in 1 .. n PROVE new[j] = IF j < k + 1 THEN v[j] ELSE << >>
      <3>1. j \in Nat /\ (j < k + 1 <=> j < k \/ j = k)
        BY <1>3, <1>8
      <3>2. old[j] = IF j < k THEN v[j] ELSE << >>
        BY <1>4
      <3> QED BY <2>6, <3>1, <3>2
    <2>8. new \in Seq(Seq(Byte))
      BY <1>9, <2>1
    <2>9. Len(new) = n
      <3>1. DOMAIN new = 1 .. Len(new) /\ Len(new) \in Nat
        BY <2>8
      <3> QED BY <1>3, <2>6, <3>1
    <2> QED BY <2>7, <2>8, <2>9
  <1> HIDE DEF new
  <1>11. OffsetsAsSent'
    BY <1>1, <1>2, <1>7, OffsetsStay
  <1>12. CASE items.left = 1
    <2>1. phase' = "dynamic" /\ pc' = pc + 1
      BY <1>7, <1>12
    <2>2. /\ \A i \in DOMAIN fields : i = pc => Decoded(i)'
          /\ \A i \in DOMAIN fields : i # pc => (Decoded(i)' <=> Decoded(i))
      BY <1>2, <2>1, DecodedNext
    <2>3. obj'[pc] = sent[pc]
      <3> HIDE DEF v, n, k, old
      <3>1. k = n
        BY <1>3, <1>4, <1>8, <1>12
      <3>2. \A j \in 1 .. n : j < k + 1
        BY <1>3, <3>1
      <3>3. \A j \in 1 .. n : new[j] = v[j]
        BY <1>10, <3>2
      <3>4. Len(new) = Len(v) /\ \A j \in 1 .. Len(new) : new[j] = v[j]
        BY <1>10, <3>3 DEF n
      <3>5. new = v
        BY <1>3, <1>10, <3>4, SameElements
      <3> QED BY <1>9, <3>5 DEF v
    <2>4. Keeps(fields[pc], obj'[pc], sent[pc])
      BY <1>2, <2>3 DEF Keeps
    <2>5. FieldsAsSent'
      BY <1>1, <2>1, <2>2, <2>3, <2>4, ReadStep
    <2> QED BY <1>11, <2>1, <2>5 DEF ReadInv, ItemsAsSent, Outcome
  <1>13. CASE items.left # 1
    <2>1. /\ phase' = "items" /\ pc' = pc
          /\ items' = [items EXCEPT !.left = @ - 1, !.start = ItemEnd,
                                    !.pos = @ + 4, !.indx = @ + 1]
      BY <1>7, <1>13
    <2>2. /\ items'.src = items.src /\ items'.left = items.left - 1
          /\ items'.start = ItemEnd /\ items'.pos = items.pos + 4 /\ items'.indx = k + 1
      BY <1>4, <2>1
    <2>3. /\ k + 1 \in 1 .. n /\ items'.left = n - (k + 1) + 1 /\ items'.pos = 4 * (k + 1)
      <3> HIDE DEF n, k
      <3> QED BY <1>3, <1>4, <1>8, <1>13, <2>2
    <2>4. ItemsAsSent'
      <3>1. obj'[pc] = new
        BY <1>9
      <3>2. fields' = fields /\ sent' = sent /\ pc' = pc
        BY <1>2, <2>1
      <3> QED BY <1>4, <1>6, <1>10, <2>2, <2>3, <3>1, <3>2 DEF ItemsAsSent
    <2>5. FieldsAsSent'
      <3>1. \A i \in DOMAIN fields : Decoded(i)' <=> Decoded(i)
        BY <1>2, <2>1 DEF Decoded
      <3>2. \A i \in DOMAIN fields : i # pc => (AsSent(i)' <=> AsSent(i)) /\ obj'[i] = obj[i]
        BY <1>1, <1>2, <1>9, ReadFrame DEF AsSent
      <3>3. ~ Decoded(pc)
        <4>1. pc \in Nat /\ ~ (pc < pc)
          BY <1>1, ReadFrame
        <4> QED BY <1>2, <4>1 DEF Decoded
      <3>4. Fresh' <=> Fresh
        BY <1>1, ReadFrame
      <3> QED BY <1>2, <2>1, <3>1, <3>2, <3>3, <3>4 DEF ReadInv, FieldsAsSent
    <2> QED BY <1>11, <2>1, <2>4, <2>5 DEF ReadInv, Outcome
  <1> QED BY <1>12, <1>13

(* Every step of UnmarshalSSZ that reads what was sent.                    *)
LEMMA ReadUnmarshal ==
    ASSUME IInv, TypedInv, WrittenInv, ReadInv, UnmarshalAction
    PROVE  ReadInv'
  <1>1. CASE ~ ReadingSent
    <2>1. ~ ReadingSent'
      BY <1>1, ReadFrame
    <2> QED BY <2>1 DEF ReadInv
  <1>2. CASE ReadingSent
    BY <1>2, ReadFixed, ReadOffsets, ReadOn, ReadTail, ReadBegin, ReadItem, ReadEnd
       DEF UnmarshalAction
  <1> QED BY <1>1, <1>2

(* The offsets, the items and the fields are read as they were written.    *)
THEOREM Reading == Spec => []ReadInv
  <1>1. Init => ReadInv
    BY DEF Init, ReadInv, ReadingSent
  <1>2. ReadInv /\ IInv /\ TypedInv /\ WrittenInv /\ IInv' /\ WrittenInv' /\ [Next]_vars
        => ReadInv'
    <2> SUFFICES ASSUME ReadInv, IInv, TypedInv, WrittenInv, IInv', WrittenInv', [Next]_vars
                 PROVE  ReadInv'
      OBVIOUS
    <2>1. CASE CallSizeSSZ \/ CallMarshalSSZ \/ CallMarshalSSZTo
      <3>1. call' # "UnmarshalSSZ"
        BY <2>1 DEF CallSizeSSZ, CallMarshalSSZ, CallMarshalSSZTo, Begin
      <3> QED BY <3>1, ReadOther
    <2>2. CASE MarshalAction
      <3>2. phase \in {"head", "tail"} /\ call' = call
        BY <2>2 DEF MarshalAction, MarshalFixed, MarshalOffset, EndMarshalHead, MarshalTail,
               EndMarshal, AtTail, AtField, PastLast, caller
      <3>3. call' # "UnmarshalSSZ"
        BY <3>2 DEF IInv, PhaseInv, Marshalling
      <3> QED BY <3>3, ReadOther
    <2>3. CASE SkipFixed
      <3>1. caller' = caller /\ reading' = reading /\ phase \in {"tail", "dynamic"}
        BY <2>3 DEF SkipFixed, AtField
      <3>2. CASE phase = "tail"
        <4>1. call' # "UnmarshalSSZ"
          BY <3>1, <3>2 DEF IInv, PhaseInv, Marshalling, caller
        <4> QED BY <4>1, ReadOther
      <3>3. CASE phase = "dynamic" /\ ReadingSent
        BY <2>3, <3>3, ReadOn
      <3>4. CASE ~ ReadingSent
        <4>1. ~ ReadingSent'
          BY <3>1, <3>4 DEF ReadingSent, caller, reading
        <4> QED BY <4>1 DEF ReadInv
      <3> QED BY <3>1, <3>2, <3>3, <3>4
    <2>4. CASE CallUnmarshalSSZ
      BY <2>4, ReadCall DEF ReadInv
    <2>5. CASE UnmarshalAction
      BY <2>5, ReadUnmarshal
    <2>6. CASE Stop \/ UNCHANGED vars
      <3>1. UNCHANGED vars
        BY <2>6 DEF Stop
      <3>2. /\ fields' = fields /\ wire' = wire /\ sent' = sent /\ origin' = origin
            /\ call' = call /\ obj' = obj /\ phase' = phase /\ pc' = pc
            /\ input' = input /\ offs' = offs /\ items' = items /\ result' = result
        BY <3>1 DEF vars, caller, reading
      <3>3. ReadingSent' <=> ReadingSent
        BY <3>2 DEF ReadingSent
      <3>4. FieldsAsSent => FieldsAsSent'
        BY <3>2 DEF FieldsAsSent, Decoded, AsSent, Fresh
      <3>5. OffsetsAsSent => OffsetsAsSent'
        BY <3>2 DEF OffsetsAsSent, TailStart, Rank, TailsBefore, Tails
      <3>6. ItemsAsSent => ItemsAsSent'
        BY <3>2 DEF ItemsAsSent
      <3>7. Outcome => Outcome'
        BY <3>2 DEF Outcome, AsSent, Fresh, HasValidBitlists
      <3> QED BY <3>3, <3>4, <3>5, <3>6, <3>7 DEF ReadInv
    <2> QED BY <2>1, <2>2, <2>3, <2>4, <2>5, <2>6 DEF Next, MarshalAction, UnmarshalAction
  <1> QED BY <1>1, <1>2, Invariance, Typing, Writing, PTL DEF Spec

(* An object has its fields and nothing else.                              *)
IsFields(o) == o = [i \in DOMAIN o |-> o[i]]
ShapeInv == IsFields(obj) /\ IsFields(sent)

(* No call makes anything else of the object.                              *)
THEOREM Shape == Spec => []ShapeInv
  <1>1. Init => ShapeInv
    <2> SUFFICES ASSUME Init PROVE ShapeInv
      OBVIOUS
    <2>1. PICK x \in Instances : fields = x.fields /\ obj = x.obj /\ sent = << >>
      BY DEF Init
    <2>2. obj = [i \in DOMAIN fields |-> obj[i]]
      BY <2>1, InstancesAssumption
    <2>3. DOMAIN obj = DOMAIN fields
      BY <2>2, Zenon
    <2>4. IsFields(obj)
      BY <2>2, <2>3 DEF IsFields
    <2>5. IsFields(<< >>)
      BY DEF IsFields
    <2> QED BY <2>1, <2>4, <2>5 DEF ShapeInv
  <1>2. ShapeInv /\ [Next]_vars => ShapeInv'
    <2> SUFFICES ASSUME ShapeInv, [Next]_vars PROVE ShapeInv'
      OBVIOUS
    <2>1. sent' = sent \/ sent' = obj
      BY DEF Next, CallSizeSSZ, CallMarshalSSZ, CallMarshalSSZTo, MarshalFixed, MarshalOffset,
             EndMarshalHead, MarshalTail, EndMarshal, SkipFixed, CallUnmarshalSSZ,
             UnmarshalFixed, UnmarshalOffset, EndUnmarshalFields, UnmarshalTail, BeginItems,
             UnmarshalItem, EndUnmarshal, Stop, vars, caller
    <2>2. \/ obj' = obj
          \/ obj' = AllAllocated
          \/ obj' = New(fields)
          \/ \E v : obj' = [obj EXCEPT ![pc] = v]
      <3>1. CASE CallSizeSSZ \/ CallMarshalSSZ \/ CallMarshalSSZTo \/ CallUnmarshalSSZ
        BY <3>1 DEF CallSizeSSZ, CallMarshalSSZ, CallMarshalSSZTo, CallUnmarshalSSZ
      <3>2. CASE MarshalFixed \/ EndMarshalHead \/ MarshalTail \/ EndMarshal \/ SkipFixed
                 \/ UnmarshalOffset \/ EndUnmarshalFields \/ EndUnmarshal \/ Stop
                 \/ UNCHANGED vars
        BY <3>2 DEF MarshalFixed, EndMarshalHead, MarshalTail, EndMarshal, SkipFixed,
               UnmarshalOffset, EndUnmarshalFields, EndUnmarshal, Stop, vars
      <3>3. CASE MarshalOffset
        BY <3>3 DEF MarshalOffset
      <3>4. CASE UnmarshalFixed
        BY <3>4 DEF UnmarshalFixed
      <3>5. CASE UnmarshalTail
        BY <3>5 DEF UnmarshalTail
      <3>6. CASE BeginItems
        BY <3>6 DEF BeginItems
      <3>7. CASE UnmarshalItem
        <4> DEFINE s == Slice(items.src, items.start, ItemEnd)
                   new == [obj[pc] EXCEPT ![items.indx] = @ \o s]
        <4>1. obj' = obj \/ obj' = [obj EXCEPT ![pc] = new]
          BY <3>7 DEF UnmarshalItem
        <4> HIDE DEF new
        <4> QED BY <4>1
      <3> QED BY <3>1, <3>2, <3>3, <3>4, <3>5, <3>6, <3>7 DEF Next
    <2>3. IsFields(AllAllocated) /\ IsFields(New(fields))
      BY DEF IsFields, AllAllocated, New
    <2>4. ASSUME NEW v, obj' = [obj EXCEPT ![pc] = v] PROVE IsFields(obj')
      BY <2>4 DEF IsFields
    <2>5. IsFields(obj') /\ IsFields(sent')
      BY <2>1, <2>2, <2>3, <2>4 DEF ShapeInv
    <2> QED BY <2>5 DEF ShapeInv, IsFields
  <1> QED BY <1>1, <1>2, PTL DEF Spec

(* UnmarshalSSZ gives back what MarshalSSZ was given, for every struct     *)
(* type and every object: whatever calls came before, and whether the      *)
(* object was the caller's own or itself decoded from other bytes.         *)
THEOREM WrittenIsRead == Spec => [](Len(wire) < OffsetEnd => RoundTrip)
  <1>1. ReadInv /\ IInv /\ TypedInv /\ WrittenInv /\ ShapeInv
        => (Len(wire) < OffsetEnd => RoundTrip)
    <2> SUFFICES ASSUME ReadInv, IInv, TypedInv, WrittenInv, ShapeInv, Len(wire) < OffsetEnd,
                        DecodingSent, HasValidBitlists(sent)
                 PROVE  result \in {"none", "ok"} /\ (result = "ok" => obj = sent)
      BY DEF RoundTrip
    <2>1. ReadingSent /\ Fresh
      BY DEF DecodingSent, ReadingSent, Fresh
    <2>2. result # "panic"
      BY <2>1 DEF IInv, UnmarshalNeverPanics, ReadingSent
    <2>3. phase \notin {"head", "tail"} /\ (phase # "idle" => result = "none")
      BY <2>1 DEF IInv, PhaseInv, Marshalling, ReadingSent
    <2>4. result \in {"none", "ok"}
      BY <2>1, <2>2, <2>3 DEF ReadInv, Outcome, TypedInv, TypeOK
    <2>5. ASSUME result = "ok" PROVE obj = sent
      <3>1. \A i \in DOMAIN fields : obj[i] = sent[i]
        BY <2>1, <2>3, <2>5 DEF ReadInv, Outcome, AsSent
      <3>2. DOMAIN obj = DOMAIN fields /\ DOMAIN sent = DOMAIN fields
        BY <2>1, SentFacts DEF TypedInv, TypeOK
      <3> QED BY <3>1, <3>2 DEF ShapeInv, IsFields
    <2> QED BY <2>4, <2>5
  <1> QED BY <1>1, Reading, Invariance, Typing, Writing, Shape, PTL

(* Decoding into an object that was used before adds nothing but what was  *)
(* at the front of its byte slices already.                                *)
THEOREM OnlyBytesKept == Spec => [](Len(wire) < OffsetEnd => KeepsOnlyBytes)
  <1>1. ReadInv /\ IInv => (Len(wire) < OffsetEnd => KeepsOnlyBytes)
    <2> SUFFICES ASSUME ReadInv, IInv, Len(wire) < OffsetEnd, call = "UnmarshalSSZ",
                        sent # << >>, input = wire, result = "ok", NEW i \in DOMAIN fields
                 PROVE  Keeps(fields[i], obj[i], sent[i])
      BY DEF KeepsOnlyBytes, Keeps
    <2>1. ReadingSent
      BY DEF ReadingSent
    <2>2. phase = "idle"
      BY DEF IInv, PhaseInv
    <2> QED BY <2>1, <2>2 DEF ReadInv, Outcome, AsSent
  <1> QED BY <1>1, Reading, Invariance, PTL

---------------------------------------------------------------------------
(* One object, one encoding.  What UnmarshalSSZ has read of its input so   *)
(* far is what marshalling writes for what it has decoded it to, but for   *)
(* the freedoms that HasFreedom names.                                     *)
HeadBytes(i) == Slice(input, HeadOffset(fields, i), HeadOffset(fields, i + 1))
AnyBool(i) == fields[i].kind = "bool" /\ input[HeadOffset(fields, i) + 1] > 1
AnyTail(i) ==
    \/ fields[i].kind = "child" /\ ReadOffset(TailBytes(i)) > 4
    \/ fields[i].kind = "dynlist" /\ obj[i] = << >> /\ TailBytes(i) # << >>

Recoded(i) ==
    IF InTail(fields[i]) THEN TailBytes(i) = EncodeTail(fields[i], obj[i]) \/ AnyTail(i)
                         ELSE HeadBytes(i) = obj[i] \/ AnyBool(i)

(* Into a new object, and not yet refused.                                 *)
Recoding == /\ call = "UnmarshalSSZ" /\ Fresh
            /\ phase = "idle" => result = "ok"

FieldsRecoded ==
    \A i \in DOMAIN fields :
        \/ Decoded(i) /\ Recoded(i)
        \/ ~ Decoded(i) /\ phase = "items" /\ i = pc
        \/ ~ Decoded(i) /\ obj[i] = Zero(fields[i])

OffsetsRecoded ==
    /\ FixedLen(fields) <= Len(input)
    /\ Tails(fields) = {} => Len(input) = FixedLen(fields)
    /\ offs # << >> => FixedLen(fields) <= offs[1]
    /\ \A i \in Tails(fields) : Rank(i) <= Len(offs) => offs[Rank(i)] = ReadOffset(HeadBytes(i))
    /\ phase = "idle" => pc = Len(fields) + 1 /\ Len(offs) = Cardinality(Tails(fields))

(* Of a list of items, the offsets up to the item at hand, and the items   *)
(* before it.                                                              *)
ItemsCut(s, v, k, m) ==
    /\ \A j \in 1 .. k : 4 * j <= Len(s)
                         /\ Slice(s, 4 * (j - 1), 4 * j) = WriteOffset(ItemStart(v, j))
    /\ \A j \in 1 .. m : ItemStart(v, j + 1) <= Len(s)
                         /\ Slice(s, ItemStart(v, j), ItemStart(v, j + 1)) = v[j]

ItemsRecoded ==
    phase = "items" =>
        /\ items.src = TailBytes(pc)
        /\ items.indx \in 1 .. Len(obj[pc])
        /\ items.left = Len(obj[pc]) - items.indx + 1
        /\ items.pos = 4 * items.indx
        /\ items.start = ItemStart(obj[pc], items.indx)
        /\ ItemsCut(items.src, obj[pc], items.indx, items.indx - 1)
        /\ \A j \in items.indx .. Len(obj[pc]) : obj[pc][j] = << >>

RecodedInv == /\ wire \in Seq(Byte)
              /\ Recoding => FieldsRecoded /\ OffsetsRecoded /\ ItemsRecoded

---------------------------------------------------------------------------
(* Encodings that agree in all their parts are the same.                   *)

(* What agrees up to a place, and in the slice behind it, agrees up to the *)
(* end of the slice.                                                       *)
LEMMA AlikeFurther ==
    ASSUME NEW s \in Seq(Byte), NEW t \in Seq(Byte), NEW a \in Nat, NEW b \in Nat,
           CanSlice(s, a, b), CanSlice(t, a, b), Slice(s, a, b) = Slice(t, a, b),
           \A p \in 1 .. a : s[p] = t[p]
    PROVE  \A p \in 1 .. b : s[p] = t[p]
  <1> TAKE p \in 1 .. b
  <1>1. CASE p <= a
    BY <1>1
  <1>2. CASE p > a
    <2>1. p - a \in 1 .. b - a /\ a + (p - a) = p
      BY <1>2 DEF CanSlice
    <2>2. /\ \A i \in 1 .. b - a : Slice(s, a, b)[i] = s[a + i]
          /\ \A i \in 1 .. b - a : Slice(t, a, b)[i] = t[a + i]
      BY SliceElements
    <2> QED BY <2>1, <2>2
  <1> QED BY <1>1, <1>2

(* What agrees in slices that follow one another agrees in all of them.    *)
Alike(s, t, k) == \A p \in 1 .. k : s[p] = t[p]
PartsAlike(s, t, n, P) ==
    /\ \A i \in 1 .. n + 1 : P[i] \in Nat
    /\ Alike(s, t, P[1])
    /\ \A i \in 1 .. n : /\ P[i] <= P[i + 1] /\ P[i + 1] <= Len(s) /\ P[i + 1] <= Len(t)
                         /\ Slice(s, P[i], P[i + 1]) = Slice(t, P[i], P[i + 1])

(* From part to part.                                                      *)
LEMMA AlikeInParts ==
    ASSUME NEW s \in Seq(Byte), NEW t \in Seq(Byte), NEW n \in Nat, NEW P,
           PartsAlike(s, t, n, P)
    PROVE  Alike(s, t, P[n + 1])
  <1> USE DEF PartsAlike, Alike
  <1> DEFINE T == {i \in Nat : i <= n => \A p \in 1 .. P[i + 1] : s[p] = t[p]}
  <1>1. 0 \in T
    <2>1. 0 + 1 = 1
      OBVIOUS
    <2> QED BY <2>1
  <1>2. ASSUME NEW i \in Nat, i \in T PROVE i + 1 \in T
    <2> SUFFICES ASSUME i + 1 <= n PROVE \A p \in 1 .. P[(i + 1) + 1] : s[p] = t[p]
      OBVIOUS
    <2> DEFINE k == i + 1
    <2>1. k \in 1 .. n /\ k \in 1 .. n + 1 /\ k + 1 \in 1 .. n + 1 /\ i <= n
      OBVIOUS
    <2>2. \A p \in 1 .. P[k] : s[p] = t[p]
      BY <1>2, <2>1
    <2> HIDE DEF k
    <2> DEFINE a == P[k]
               b == P[k + 1]
    <2>3. /\ a \in Nat /\ b \in Nat /\ a <= b /\ b <= Len(s) /\ b <= Len(t)
          /\ Slice(s, a, b) = Slice(t, a, b)
      BY <2>1
    <2>4. CanSlice(s, a, b) /\ CanSlice(t, a, b)
      BY <2>3 DEF CanSlice
    <2> HIDE DEF a, b
    <2>5. \A p \in 1 .. a : s[p] = t[p]
      BY <2>2 DEF a
    <2>6. \A p \in 1 .. b : s[p] = t[p]
      BY <2>3, <2>4, <2>5, AlikeFurther
    <2> QED BY <2>6 DEF b, k
  <1> HIDE DEF T
  <1>3. n \in T
    BY <1>1, <1>2, SetInduction
  <1> QED BY <1>3 DEF T

(* Four bytes are those of the number they are read as.                    *)
LEMMA WrittenRead ==
    ASSUME NEW b \in Seq(Byte), Len(b) >= 4
    PROVE  Slice(b, 0, 4) = WriteOffset(ReadOffset(b))
  <1> DEFINE w == b[1]  x == b[2]  y == b[3]  z == b[4]
             n == w + 256 * x + 65536 * y + 16777216 * z
  <1>1. w \in 0 .. 255 /\ x \in 0 .. 255 /\ y \in 0 .. 255 /\ z \in 0 .. 255
    <2>1. Len(b) \in Nat /\ 1 \in 1 .. Len(b) /\ 2 \in 1 .. Len(b) /\ 3 \in 1 .. Len(b)
          /\ 4 \in 1 .. Len(b)
      OBVIOUS
    <2>2. w \in Byte /\ x \in Byte /\ y \in Byte /\ z \in Byte
      BY <2>1
    <2> HIDE DEF w, x, y, z
    <2> QED BY <2>2 DEF Byte
  <1>2. ReadOffset(b) = n
    BY DEF ReadOffset
  <1> HIDE DEF w, x, y, z
  <1>3. /\ n % 256 = w /\ (n \div 256) = x + 256 * y + 65536 * z
        /\ n \div 65536 = y + 256 * z /\ n \div 16777216 = z
    BY <1>1
  <1>4. /\ (x + 256 * y + 65536 * z) % 256 = x /\ (y + 256 * z) % 256 = y /\ z % 256 = z
    BY <1>1
  <1>5. WriteOffset(n) = <<w, x, y, z>>
    BY <1>3, <1>4 DEF WriteOffset
  <1> HIDE DEF n
  <1>6. /\ Slice(b, 0, 4) \in Seq(Byte) /\ Len(Slice(b, 0, 4)) = 4
        /\ \A i \in 1 .. 4 : Slice(b, 0, 4)[i] = b[i]
    <2>1. CanSlice(b, 0, 4) /\ 0 \in Nat /\ 4 \in Nat /\ 4 - 0 = 4
      BY DEF CanSlice
    <2>2. \A i \in 1 .. 4 : Slice(b, 0, 4)[i] = b[0 + i] /\ 0 + i = i
      BY <2>1, SliceElements
    <2> QED BY <2>1, <2>2, SliceBytes
  <1> DEFINE u == Slice(b, 0, 4)
             v == <<w, x, y, z>>
  <1>7. v \in Seq(Byte) /\ Len(v) = 4
    BY <1>1 DEF Byte
  <1>8. v[1] = b[1] /\ v[2] = b[2] /\ v[3] = b[3] /\ v[4] = b[4]
    BY DEF w, x, y, z
  <1> HIDE DEF u, v
  <1>9. \A i \in 1 .. 4 : i = 1 \/ i = 2 \/ i = 3 \/ i = 4
    OBVIOUS
  <1>10. \A i \in 1 .. 4 : u[i] = v[i]
    BY <1>6, <1>8, <1>9 DEF u
  <1>11. u = v
    BY <1>6, <1>7, <1>10, SameElements DEF u
  <1> QED BY <1>2, <1>5, <1>11 DEF u, v

(* A slice from the start, and what is behind it.                          *)
LEMMA SplitAt ==
    ASSUME NEW b \in Seq(Byte), NEW k \in Nat, k <= Len(b)
    PROVE  b = Slice(b, 0, k) \o Slice(b, k, Len(b))
  <1> DEFINE x == Slice(b, 0, k)
             y == Slice(b, k, Len(b))
  <1>1. Len(b) \in Nat /\ CanSlice(b, 0, k) /\ CanSlice(b, k, Len(b)) /\ k - 0 = k /\ 0 \in Nat
    BY DEF CanSlice
  <1>2. x \in Seq(Byte) /\ y \in Seq(Byte) /\ Len(x) = k /\ Len(y) = Len(b) - k
    BY <1>1, SliceBytes
  <1>3. /\ \A i \in 1 .. k : x[i] = b[0 + i] /\ 0 + i = i
        /\ \A i \in 1 .. Len(b) - k : y[i] = b[k + i]
    BY <1>1, SliceElements
  <1> HIDE DEF x, y
  <1>4. x \o y \in Seq(Byte) /\ Len(x \o y) = Len(b)
    BY <1>1, <1>2
  <1>5. \A i \in 1 .. k : b[i] = (x \o y)[i]
    <2> TAKE i \in 1 .. k
    <2>1. (x \o y)[i] = x[i]
      BY <1>2
    <2> QED BY <1>3, <2>1
  <1>6. \A i \in 1 .. Len(b) : i > k => b[i] = (x \o y)[i]
    <2> SUFFICES ASSUME NEW i \in 1 .. Len(b), i > k PROVE b[i] = (x \o y)[i]
      OBVIOUS
    <2>1. (x \o y)[i] = y[i - k] /\ i - k \in 1 .. Len(b) - k /\ k + (i - k) = i
      BY <1>1, <1>2
    <2> QED BY <1>3, <2>1
  <1>7. \A i \in 1 .. Len(b) : b[i] = (x \o y)[i]
    <2> TAKE i \in 1 .. Len(b)
    <2>1. i \in 1 .. k \/ i > k
      BY <1>1
    <2> HIDE DEF x, y
    <2> QED BY <1>5, <1>6, <2>1
  <1> DEFINE z == x \o y
  <1>8. z \in Seq(Byte) /\ Len(z) = Len(b) /\ \A i \in 1 .. Len(b) : b[i] = z[i]
    BY <1>4, <1>7
  <1> HIDE DEF z
  <1>9. b = z
    BY <1>8, SameElements
  <1> QED BY <1>9 DEF x, y, z

(* A field of the fixed part is marshalled to what it was decoded from,    *)
(* but for the byte of a bool.                                             *)
LEMMA FixedRecodes ==
    ASSUME NEW f \in Fields, IsField(f), ~ InTail(f), NEW b \in Seq(Byte), Len(b) = Width(f)
    PROVE  DecodeFixed(f, Zero(f), b) = b \/ (f.kind = "bool" /\ b[1] > 1)
  <1>1. f.kind \in {"uint", "bool", "fixedBytes"}
    BY DEF InTail
  <1>2. CASE f.kind = "uint"
    BY <1>2 DEF DecodeFixed
  <1>3. CASE f.kind = "bool"
    <2>1. Len(b) = 1
      BY <1>3 DEF Width, IsField
    <2>2. b = <<b[1]>> /\ b[1] \in Byte
      BY <2>1
    <2>3. b[1] = 0 \/ b[1] = 1 \/ b[1] > 1
      <3>1. \A w \in Byte : w = 0 \/ w = 1 \/ w > 1
        BY DEF Byte
      <3> QED BY <2>2, <3>1
    <2>4. DecodeFixed(f, Zero(f), b) = IF b[1] = 1 THEN <<1>> ELSE <<0>>
      BY <1>3 DEF DecodeFixed
    <2>5. b[1] = 0 => <<0>> = b
      BY <2>2
    <2>6. b[1] = 1 => <<1>> = b
      BY <2>2
    <2> QED BY <1>3, <2>3, <2>4, <2>5, <2>6
  <1>4. CASE f.kind = "fixedBytes"
    <2>1. Zero(f) = << >> /\ DecodeFixed(f, << >>, b) = << >> \o b
      BY <1>4 DEF Zero, DecodeFixed
    <2> QED BY <2>1
  <1> QED BY <1>1, <1>2, <1>3, <1>4

(* The elements of a list are glued to the bytes they were cut from.       *)
LEMMA ListRecodes ==
    ASSUME NEW f \in Fields, IsField(f), f.kind = "list", NEW b \in Seq(Byte), ~ Refuses(f, b)
    PROVE  EncodeTail(f, DecodeTail(f, Zero(f), b)) = b
  <1> DEFINE s == f.size
             l == Len(b)
             n == l \div s
             v == DecodeTail(f, Zero(f), b)
             c == FlattenSeq(v)
             P == [i \in 1 .. n + 1 |-> (i - 1) * s]
  <1>1. s \in Nat \ {0} /\ l \in Nat /\ l % s = 0
    BY DEF Fields, IsField, Refuses
  <1>2. n \in Nat /\ n * s = l
    <2> HIDE DEF s, l
    <2>1. n \in Nat /\ l = s * n + (l % s)
      BY <1>1
    <2> QED BY <1>1, <2>1
  <1>3. v \in Seq(Seq(Byte)) /\ Len(v) = n /\ \A k \in 1 .. n : Len(v[k]) = s
    BY DecodeListType
  <1>4. \A k \in 1 .. n : v[k] = Slice(b, (k - 1) * s, k * s)
    BY DEF DecodeTail
  <1>5. EncodeTail(f, v) = c
    BY DEF EncodeTail
  <1> HIDE DEF v, s, n, l
  <1>6. /\ c \in Seq(Byte) /\ Len(c) = l
        /\ \A i \in 0 .. n : Len(FlattenSeq(SubSeq(v, 1, i))) = i * s
    <2>1. c \in Seq(Byte)
      BY <1>3, FlattenPieces
    <2>2. s \in Nat /\ \A i \in 1 .. Len(v) : Len(v[i]) = s
      BY <1>1, <1>3
    <2>3. Len(c) = Len(v) * s /\ \A i \in 0 .. Len(v) : Len(FlattenSeq(SubSeq(v, 1, i))) = i * s
      BY <1>3, <2>2, FlattenEven
    <2> QED BY <1>2, <1>3, <2>1, <2>3
  <1>7. \A i \in 1 .. n + 1 : P[i] = (i - 1) * s /\ P[i] \in Nat
    <2> TAKE i \in 1 .. n + 1
    <2>1. i - 1 \in Nat
      BY <1>2
    <2> QED BY <1>1, <2>1
  <1> HIDE DEF P
  <1>8. ASSUME NEW i \in 1 .. n
        PROVE  /\ P[i] <= P[i + 1] /\ P[i + 1] <= Len(b) /\ P[i + 1] <= Len(c)
               /\ Slice(b, P[i], P[i + 1]) = Slice(c, P[i], P[i + 1])
    <2>1. /\ i \in 1 .. n + 1 /\ i + 1 \in 1 .. n + 1 /\ (i + 1) - 1 = i /\ i \in 0 .. n
          /\ i - 1 \in 0 .. n /\ i \in Nat /\ i - 1 \in Nat
      BY <1>2
    <2>2. P[i] = (i - 1) * s /\ P[i + 1] = i * s
      BY <1>7, <2>1
    <2>3. Slice(c, (i - 1) * s, i * s) = v[i] /\ i * s <= Len(c)
      <3>1. i \in 1 .. Len(v)
        BY <1>3
      <3>2. LET lo == Len(FlattenSeq(SubSeq(v, 1, i - 1)))
                hi == Len(FlattenSeq(SubSeq(v, 1, i)))
            IN  hi <= Len(c) /\ Slice(c, lo, hi) = v[i]
        BY <1>3, <3>1, FlattenSlice
      <3> HIDE DEF c
      <3> QED BY <1>6, <2>1, <3>2
    <2>4. (i - 1) * s <= i * s
      <3>1. i * s = (i - 1) * s + s
        BY <1>1, <2>1
      <3>2. (i - 1) * s \in Nat
        BY <1>1, <2>1
      <3> QED BY <1>1, <3>1, <3>2
    <2> QED BY <1>4, <1>6, <2>2, <2>3, <2>4 DEF l
  <1>9. P[n + 1] = l /\ \A p \in 1 .. P[1] : b[p] = c[p]
    <2>1. 1 \in 1 .. n + 1 /\ n + 1 \in 1 .. n + 1 /\ (n + 1) - 1 = n /\ 1 - 1 = 0
      BY <1>2
    <2>2. P[1] = 0 * s /\ 0 * s = 0
      BY <1>1, <1>7, <2>1
    <2>3. P[n + 1] = n * s
      BY <1>7, <2>1
    <2> QED BY <1>2, <2>2, <2>3
  <1> HIDE DEF c
  <1>10. \A p \in 1 .. P[n + 1] : b[p] = c[p]
    <2>1. n \in Nat /\ c \in Seq(Byte) /\ \A i \in 1 .. n + 1 : P[i] \in Nat
      BY <1>2, <1>6, <1>7
    <2>2. PartsAlike(b, c, n, P)
      BY <1>8, <1>9, <2>1 DEF PartsAlike, Alike
    <2> QED BY <2>1, <2>2, AlikeInParts DEF Alike
  <1>11. c = b
    BY <1>6, <1>9, <1>10, SameElements DEF l
  <1> QED BY <1>5, <1>11 DEF v

(* A child without a gap is marshalled to what it was decoded from.        *)
LEMMA ChildRecodes ==
    ASSUME NEW f \in Fields, f.kind = "child", NEW b \in Seq(Byte), ~ Refuses(f, b)
    PROVE  EncodeTail(f, DecodeTail(f, Zero(f), b)) = b \/ ReadOffset(b) > 4
  <1> DEFINE o == ReadOffset(b)
             x == Slice(b, 4, Len(b))
  <1>1. Len(b) >= 4 /\ Len(b) \in Nat /\ o \in Nat /\ o >= 4
    <2>1. ~ (Len(b) < 4) /\ ~ (o < 4)
      BY DEF Refuses, ChildRefuses
    <2>2. Len(b) \in Nat
      OBVIOUS
    <2>3. Len(b) >= 4
      BY <2>1, <2>2
    <2>4. o \in Nat
      BY <2>3, ReadOffsetNat
    <2> HIDE DEF o
    <2> QED BY <2>1, <2>2, <2>3, <2>4
  <1> HIDE DEF o
  <1>2. SUFFICES ASSUME o = 4 PROVE EncodeTail(f, DecodeTail(f, Zero(f), b)) = b
    BY <1>1 DEF o
  <1>3. x \in Seq(Byte)
    <2>1. CanSlice(b, 4, Len(b)) /\ 4 \in Nat
      BY <1>1 DEF CanSlice
    <2> QED BY <1>1, <2>1, SliceBytes
  <1>4. DecodeTail(f, Zero(f), b) = <<x>>
    <2>1. Zero(f) = << >> /\ Allocated(f, << >>) = <<NoBytes>>
      BY DEF Zero, Allocated
    <2>2. DecodeTail(f, Zero(f), b) = <<Allocated(f, Zero(f))[1] \o Slice(b, o, Len(b))>>
      BY DEF DecodeTail, o
    <2> HIDE DEF x
    <2>3. <<NoBytes>>[1] = << >> /\ << >> \o x = x
      BY <1>3 DEF NoBytes
    <2> QED BY <1>2, <2>1, <2>2, <2>3 DEF x
  <1>5. EncodeTail(f, <<x>>) = WriteOffset(4) \o x
    <2>1. EncodeTail(f, <<x>>) = WriteOffset(4) \o <<x>>[1]
      BY DEF EncodeTail
    <2> QED BY <2>1
  <1>6. Slice(b, 0, 4) = WriteOffset(4)
    BY <1>1, <1>2, WrittenRead DEF o
  <1>7. b = Slice(b, 0, 4) \o x
    BY <1>1, SplitAt
  <1> QED BY <1>4, <1>5, <1>6, <1>7

(* A variable field, but for a list of items.                              *)
LEMMA TailRecodes ==
    ASSUME NEW f \in Fields, IsField(f), InTail(f), f.kind # "dynlist",
           NEW b \in Seq(Byte), ~ Refuses(f, b)
    PROVE  \/ EncodeTail(f, DecodeTail(f, Zero(f), b)) = b
           \/ f.kind = "child" /\ ReadOffset(b) > 4
  <1>1. f.kind \in {"bytes", "bitlist", "list", "child"}
    BY DEF InTail, Fields, Kinds
  <1>2. CASE f.kind \in {"bytes", "bitlist"}
    <2>1. /\ Zero(f) = << >> /\ DecodeTail(f, << >>, b) = << >> \o b
          /\ \A v : EncodeTail(f, v) = v
      BY <1>2 DEF Zero, DecodeTail, EncodeTail
    <2>2. << >> \o b = b
      OBVIOUS
    <2> QED BY <2>1, <2>2
  <1> QED BY <1>1, <1>2, ListRecodes, ChildRecodes

(* A list of items cut where its offsets say is written as it was.         *)
LEMMA ItemsRecode ==
    ASSUME NEW s \in Seq(Byte), NEW v \in Seq(Seq(Byte)),
           ItemsCut(s, v, Len(v), Len(v)), Len(s) = ItemStart(v, Len(v) + 1)
    PROVE  s = EncodeItems(v)
  <1> DEFINE n == Len(v)
             E == EncodeItems(v)
             P == [i \in 1 .. n + 1 |-> 4 * (i - 1)]
             Q == [i \in 1 .. n + 1 |-> ItemStart(v, i)]
  <1>1. /\ n \in Nat /\ E \in Seq(Byte) /\ Len(s) = Len(E) /\ Len(E) \in Nat
        /\ ItemStart(v, n + 1) = Len(E) /\ ItemStart(v, 1) = 4 * n /\ 4 * n <= Len(E)
        /\ \A j \in 1 .. n : /\ ItemStart(v, j) \in Nat /\ v[j] \in Seq(Byte)
                             /\ ItemStart(v, j + 1) = ItemStart(v, j) + Len(v[j])
                             /\ ItemStart(v, j + 1) <= Len(E)
                             /\ Slice(E, 4 * (j - 1), 4 * j) = WriteOffset(ItemStart(v, j))
                             /\ Slice(E, ItemStart(v, j), ItemStart(v, j + 1)) = v[j]
    <2>1. n \in Nat
      OBVIOUS
    <2>2. E \in Seq(Byte)
      BY ItemFacts
    <2>3. Len(E) \in Nat
      BY <2>2
    <2> HIDE DEF E, n
    <2> QED BY <2>1, <2>2, <2>3, ItemFacts DEF E, n
  <1>2. \A j \in 1 .. n : /\ Slice(s, 4 * (j - 1), 4 * j) = WriteOffset(ItemStart(v, j))
                          /\ Slice(s, ItemStart(v, j), ItemStart(v, j + 1)) = v[j]
    BY DEF ItemsCut
  <1>3. \A i \in 1 .. n + 1 : P[i] = 4 * (i - 1) /\ P[i] \in Nat
    <2> TAKE i \in 1 .. n + 1
    <2>1. i - 1 \in Nat
      BY <1>1
    <2> HIDE DEF n
    <2> QED BY <2>1
  <1>4. \A i \in 1 .. n + 1 : Q[i] = ItemStart(v, i)
    OBVIOUS
  <1> HIDE DEF n, E, P, Q
  <1>5. 1 \in 1 .. n + 1 /\ n + 1 \in 1 .. n + 1 /\ (n + 1) - 1 = n
    BY <1>1
  <1>6. Alike(s, E, 4 * n)
    <2>1. P[1] = 0 /\ P[n + 1] = 4 * n
      BY <1>3, <1>5
    <2>2. Alike(s, E, P[1])
      BY <2>1 DEF Alike
    <2>3. ASSUME NEW i \in 1 .. n
          PROVE  /\ P[i] <= P[i + 1] /\ P[i + 1] <= Len(s) /\ P[i + 1] <= Len(E)
                 /\ Slice(s, P[i], P[i + 1]) = Slice(E, P[i], P[i + 1])
      <3>1. i \in 1 .. n + 1 /\ i + 1 \in 1 .. n + 1 /\ (i + 1) - 1 = i
            /\ 4 * (i - 1) <= 4 * i /\ 4 * i <= 4 * n
        BY <1>1
      <3>2. P[i] = 4 * (i - 1) /\ P[i + 1] = 4 * i
        BY <1>3, <3>1
      <3>3. 4 * i <= Len(E) /\ i \in Nat
        BY <1>1, <3>1
      <3> QED BY <1>1, <1>2, <3>1, <3>2, <3>3
    <2>4. PartsAlike(s, E, n, P)
      BY <1>3, <2>2, <2>3 DEF PartsAlike
    <2> QED BY <1>1, <2>1, <2>4, AlikeInParts
  <1>7. Alike(s, E, Len(E))
    <2>1. Q[1] = 4 * n /\ Q[n + 1] = Len(E)
      BY <1>1, <1>4, <1>5
    <2>2. Alike(s, E, Q[1])
      BY <1>6, <2>1
    <2>3. ASSUME NEW i \in 1 .. n
          PROVE  /\ Q[i] <= Q[i + 1] /\ Q[i + 1] <= Len(s) /\ Q[i + 1] <= Len(E)
                 /\ Slice(s, Q[i], Q[i + 1]) = Slice(E, Q[i], Q[i + 1])
      <3>1. i \in 1 .. n + 1 /\ i + 1 \in 1 .. n + 1
        BY <1>1
      <3>2. Q[i] = ItemStart(v, i) /\ Q[i + 1] = ItemStart(v, i + 1)
        BY <1>4, <3>1
      <3>3. Len(v[i]) \in Nat
        BY <1>1
      <3>4. ItemStart(v, i) <= ItemStart(v, i + 1)
        BY <1>1, <3>3
      <3> QED BY <1>1, <1>2, <3>2, <3>4
    <2>4. \A i \in 1 .. n + 1 : Q[i] \in Nat
      <3> TAKE i \in 1 .. n + 1
      <3>1. i \in 1 .. n \/ i = n + 1
        BY <1>1
      <3> QED BY <1>1, <1>4, <3>1
    <2>5. PartsAlike(s, E, n, Q)
      BY <2>2, <2>3, <2>4 DEF PartsAlike
    <2> QED BY <1>1, <2>1, <2>5, AlikeInParts
  <1>8. s = E
    BY <1>1, <1>7, SameElements DEF Alike
  <1> QED BY <1>8 DEF E

(* Of two variable fields the first has the earlier offset.                *)
LEMMA RankGrows ==
    ASSUME IInv, NEW i \in 1 .. Len(fields) + 1, NEW j \in 1 .. Len(fields) + 1,
           i < j, i \in Tails(fields)
    PROVE  Rank(i) < Rank(j)
  <1>1. /\ Len(fields) \in Nat
        /\ IsFiniteSet(Tails(fields)) /\ Tails(fields) \subseteq 1 .. Len(fields)
    BY StructFacts DEF IInv
  <1>2. \A k : IsFiniteSet(TailsBefore(k)) /\ Cardinality(TailsBefore(k)) \in Nat
    BY <1>1, FS_Subset, FS_CardinalityType DEF TailsBefore
  <1>3. TailsBefore(i) \subseteq TailsBefore(j) /\ i \in TailsBefore(j) /\ i \notin TailsBefore(i)
    BY <1>1 DEF TailsBefore
  <1>4. /\ Cardinality(TailsBefore(i)) <= Cardinality(TailsBefore(j))
        /\ Cardinality(TailsBefore(j)) = Cardinality(TailsBefore(i)) =>
             TailsBefore(j) = TailsBefore(i)
    BY <1>2, <1>3, FS_Subset
  <1>5. Cardinality(TailsBefore(j)) # Cardinality(TailsBefore(i))
    BY <1>3, <1>4
  <1> QED BY <1>2, <1>4, <1>5 DEF Rank

(* What its bytes are, by the offset of the field and the next.            *)
LEMMA TailBytesAre ==
    ASSUME IInv, NEW i \in Tails(fields)
    PROVE  TailBytes(i) = Slice(input, offs[Rank(i)],
                                IF Rank(i) = Len(offs) THEN Len(input) ELSE offs[Rank(i) + 1])
  <1>1. Tails(fields) \subseteq DOMAIN fields /\ DOMAIN fields = 1 .. Len(fields)
        /\ Len(fields) \in Nat
    BY StructFacts DEF IInv
  <1>2. {k \in Tails(fields) : k <= i} = TailsBefore(i + 1)
    BY <1>1 DEF TailsBefore
  <1>3. Cardinality(TailsBefore(i + 1)) = Cardinality(TailsBefore(i)) + 1
    BY <1>1, TailCount DEF IInv
  <1>4. Cardinality({k \in Tails(fields) : k <= i}) = Rank(i)
    BY <1>2, <1>3 DEF Rank
  <1> QED BY <1>4 DEF TailBytes

---------------------------------------------------------------------------
(* Calls other than UnmarshalSSZ; what marshalling returns is bytes.       *)
LEMMA RecodeOther ==
    ASSUME call' # "UnmarshalSSZ", wire' \in Seq(Byte)
    PROVE  RecodedInv'
BY DEF RecodedInv, Recoding

(* Nothing has been decoded yet.                                           *)
LEMMA RecodeCall ==
    ASSUME IInv, IInv', RecodedInv, CallUnmarshalSSZ
    PROVE  RecodedInv'
  <1>1. /\ fields' = fields /\ wire' = wire
        /\ pc' = 1 /\ offs' = << >> /\ phase' \in {"idle", "fields"}
        /\ phase' = "idle" => result' = "error"
        /\ phase' = "fields" => /\ ~ (Len(input') < FixedLen(fields))
                                /\ Tails(fields) = {} => Len(input') = FixedLen(fields)
        /\ Fresh' => obj' = New(fields)
    BY DEF CallUnmarshalSSZ, Begin, Fresh
  <1>2. /\ Len(fields) \in Nat /\ DOMAIN fields = 1 .. Len(fields)
        /\ FixedLen(fields) \in Nat /\ Len(input') \in Nat
    BY StructFacts DEF IInv, StructInv
  <1>3. CASE ~ Recoding'
    BY <1>1, <1>3 DEF RecodedInv
  <1>4. CASE Recoding'
    <2>1. phase' = "fields" /\ obj' = New(fields)
      BY <1>1, <1>4 DEF Recoding
    <2>2. FieldsRecoded'
      <3>1. \A i \in DOMAIN fields : ~ Decoded(i)' /\ obj'[i] = Zero(fields[i])
        BY <1>1, <1>2, <2>1 DEF Decoded, New
      <3> QED BY <1>1, <3>1 DEF FieldsRecoded
    <2>3. OffsetsRecoded'
      <3>1. \A i : Rank(i)' \in Nat /\ Rank(i)' > 0
        <4> TAKE i
        <4>1. IsFiniteSet(Tails(fields)) /\ TailsBefore(i)' \subseteq Tails(fields)
          BY <1>1, StructFacts DEF IInv, TailsBefore, Tails
        <4>2. Cardinality(TailsBefore(i))' \in Nat
          BY <4>1, FS_Subset, FS_CardinalityType
        <4> QED BY <4>2 DEF Rank
      <3>2. Len(offs') = 0
        BY <1>1
      <3>3. FixedLen(fields) <= Len(input')
        BY <1>1, <1>2, <2>1
      <3> QED BY <1>1, <2>1, <3>1, <3>2, <3>3 DEF OffsetsRecoded, Tails
    <2> QED BY <1>1, <2>1, <2>2, <2>3 DEF RecodedInv, ItemsRecoded
  <1> QED BY <1>3, <1>4

(* What the steps of UnmarshalSSZ leave alone.                             *)
LEMMA RecodeFrame ==
    ASSUME IInv, UnmarshalAction
    PROVE  /\ fields' = fields /\ input' = input /\ wire' = wire
           /\ Recoding' => Recoding
           /\ phase \in {"fields", "dynamic", "items"}
           /\ \A i : HeadBytes(i)' = HeadBytes(i)
           /\ offs' = offs => \A i : TailBytes(i)' = TailBytes(i)
           /\ \A i : Rank(i)' = Rank(i)
           /\ Tails(fields)' = Tails(fields)
           /\ Len(fields) \in Nat /\ DOMAIN fields = 1 .. Len(fields)
           /\ DOMAIN obj = DOMAIN fields /\ pc \in Nat
  <1>1. /\ fields' = fields /\ input' = input /\ call' = call /\ result = "none"
        /\ phase \in {"fields", "dynamic", "items"} /\ Tails(fields)' = Tails(fields)
    BY UnmarshalFrame
  <1>2. wire' = wire
    BY DEF UnmarshalAction, UnmarshalFixed, UnmarshalOffset, EndUnmarshalFields,
           UnmarshalTail, BeginItems, UnmarshalItem, EndUnmarshal, caller
  <1>3. /\ (Fresh' <=> Fresh) /\ \A i : Rank(i)' = Rank(i)
        /\ Len(fields) \in Nat /\ DOMAIN fields = 1 .. Len(fields)
        /\ DOMAIN obj = DOMAIN fields /\ pc \in Nat
    BY ReadFrame
  <1>4. Recoding' => Recoding
    BY <1>1, <1>3 DEF Recoding
  <1>5. \A i : HeadBytes(i)' = HeadBytes(i)
    BY <1>1 DEF HeadBytes
  <1>6. offs' = offs => \A i : TailBytes(i)' = TailBytes(i)
    BY <1>1 DEF TailBytes
  <1> QED BY <1>1, <1>2, <1>3, <1>4, <1>5, <1>6

(* A field that has been decoded stays as it is.                           *)
LEMMA RecodeStay ==
    ASSUME IInv, UnmarshalAction, NEW i \in DOMAIN fields, obj'[i] = obj[i],
           offs' = offs \/ ~ InTail(fields[i]), Recoded(i)
    PROVE  Recoded(i)'
  <1>1. fields' = fields /\ input' = input /\ HeadBytes(i)' = HeadBytes(i)
    BY RecodeFrame
  <1>2. CASE ~ InTail(fields[i])
    BY <1>1, <1>2 DEF Recoded, AnyBool
  <1>3. CASE InTail(fields[i])
    <2>1. TailBytes(i)' = TailBytes(i)
      BY <1>3, RecodeFrame
    <2> QED BY <1>1, <1>3, <2>1 DEF Recoded, AnyTail
  <1> QED BY <1>2, <1>3

(* When only the field at hand changes, and it is recoded.                 *)
LEMMA RecodeStep ==
    ASSUME IInv, TypedInv, RecodedInv, Recoding, UnmarshalAction, offs' = offs,
           \A i \in DOMAIN fields : i # pc => (Decoded(i)' <=> Decoded(i)),
           \A i \in DOMAIN fields : i = pc => Decoded(i)',
           \A i \in DOMAIN fields : i = pc => Recoded(i)',
           pc' = pc + 1, phase' # "items"
    PROVE  FieldsRecoded'
  <1>1. fields' = fields
    BY RecodeFrame
  <1>2. ASSUME NEW i \in DOMAIN fields, i # pc
        PROVE  \/ Decoded(i)' /\ Recoded(i)'
               \/ ~ Decoded(i)' /\ obj'[i] = Zero(fields[i])
    <2>1. obj'[i] = obj[i]
      BY <1>2, UnmarshalObj
    <2>2. \/ Decoded(i) /\ Recoded(i)
          \/ ~ Decoded(i) /\ obj[i] = Zero(fields[i])
      BY <1>2 DEF RecodedInv, FieldsRecoded
    <2>3. Recoded(i) => Recoded(i)'
      BY <2>1, RecodeStay
    <2> QED BY <1>2, <2>1, <2>2, <2>3
  <1>3. ASSUME NEW i \in DOMAIN fields, i = pc
        PROVE  Decoded(i)' /\ Recoded(i)'
    BY <1>3
  <1>4. ASSUME NEW i \in DOMAIN fields
        PROVE  \/ Decoded(i)' /\ Recoded(i)'
               \/ ~ Decoded(i)' /\ obj'[i] = Zero(fields[i])
    BY <1>2, <1>3
  <1> QED BY <1>1, <1>4 DEF FieldsRecoded

(* The offsets stay as they are.                                           *)
LEMMA OffsetsRecodeStay ==
    ASSUME IInv, RecodedInv, Recoding, UnmarshalAction, offs' = offs, phase' # "idle"
    PROVE  OffsetsRecoded'
  <1>1. /\ fields' = fields /\ input' = input /\ Tails(fields)' = Tails(fields)
        /\ \A i : HeadBytes(i)' = HeadBytes(i) /\ Rank(i)' = Rank(i)
    BY RecodeFrame
  <1> QED BY <1>1 DEF RecodedInv, OffsetsRecoded

---------------------------------------------------------------------------
(* A field of the fixed part.                                              *)
LEMMA RecodeFixed ==
    ASSUME IInv, TypedInv, RecodedInv, Recoding, UnmarshalFixed
    PROVE  RecodedInv'
  <1>1. UnmarshalAction
    BY DEF UnmarshalAction
  <1>2. /\ pc \in DOMAIN fields /\ ~ InTail(fields[pc]) /\ phase = "fields" /\ phase' = "fields"
        /\ pc' = pc + 1 /\ fields' = fields /\ offs' = offs /\ input' = input
        /\ obj' = [obj EXCEPT ![pc] = DecodeFixed(fields[pc], @, FieldBytes)]
    BY DEF UnmarshalFixed, AtField, caller, reading
  <1>3. /\ \A i \in DOMAIN fields : i = pc => Decoded(i)'
        /\ \A i \in DOMAIN fields : i # pc => (Decoded(i)' <=> Decoded(i))
        /\ ~ Decoded(pc)
    BY <1>2, DecodedNext
  <1>4. /\ fields[pc] \in Fields /\ IsField(fields[pc]) /\ DOMAIN obj = DOMAIN fields
        /\ FieldBytes \in Seq(Byte) /\ Len(FieldBytes) = Width(fields[pc])
        /\ wire \in Seq(Byte) /\ wire' = wire
    BY <1>1, <1>2, FieldFacts, FieldBytesFacts, RecodeFrame DEF IInv, RecodedInv
  <1>5. obj[pc] = Zero(fields[pc])
    BY <1>2, <1>3 DEF RecodedInv, FieldsRecoded
  <1>6. obj'[pc] = DecodeFixed(fields[pc], Zero(fields[pc]), FieldBytes)
    BY <1>2, <1>4, <1>5
  <1>7. obj'[pc] = FieldBytes \/ (fields[pc].kind = "bool" /\ FieldBytes[1] > 1)
    BY <1>2, <1>4, <1>6, FixedRecodes
  <1>8. fields[pc].kind = "bool" => FieldBytes[1] = input[HeadOffset(fields, pc) + 1]
    <2> SUFFICES ASSUME fields[pc].kind = "bool"
                 PROVE  FieldBytes[1] = input[HeadOffset(fields, pc) + 1]
      OBVIOUS
    <2> DEFINE lo == HeadOffset(fields, pc)
               hi == HeadOffset(fields, pc + 1)
    <2>1. /\ lo \in Nat /\ hi = lo + 1 /\ hi <= Len(input)
      <3>1. Width(fields[pc]) = 1
        BY <1>2, <1>4 DEF Width, IsField
      <3>2. /\ lo \in Nat /\ hi = lo + 1 /\ hi <= FixedLen(fields) /\ FixedLen(fields) \in Nat
        BY <1>2, <3>1, StructFacts DEF IInv
      <3>3. FixedLen(fields) <= Len(input) /\ Len(input) \in Nat
        BY DEF RecodedInv, OffsetsRecoded, IInv, StructInv
      <3> HIDE DEF lo, hi
      <3> QED BY <3>2, <3>3
    <2> HIDE DEF lo, hi
    <2>2. CanSlice(input, lo, hi) /\ input \in Seq(Byte) /\ hi \in Nat /\ 1 \in 1 .. hi - lo
      BY <2>1 DEF CanSlice, IInv, StructInv
    <2>3. Slice(input, lo, hi)[1] = input[lo + 1]
      BY <2>1, <2>2, SliceElements
    <2> QED BY <2>3 DEF FieldBytes, lo, hi
  <1>9. \A i \in DOMAIN fields : i = pc => Recoded(i)'
    <2> SUFFICES ASSUME NEW i \in DOMAIN fields, i = pc PROVE Recoded(i)'
      OBVIOUS
    <2>1. HeadBytes(i)' = FieldBytes
      BY <1>2 DEF HeadBytes, FieldBytes
    <2>2. Recoded(i)' <=> HeadBytes(i)' = obj'[i] \/ AnyBool(i)'
      BY <1>2 DEF Recoded
    <2>3. AnyBool(i)' <=> fields[pc].kind = "bool" /\ input[HeadOffset(fields, pc) + 1] > 1
      BY <1>2 DEF AnyBool
    <2> QED BY <1>7, <1>8, <2>1, <2>2, <2>3
  <1>10. FieldsRecoded' /\ OffsetsRecoded'
    BY <1>1, <1>2, <1>3, <1>9, RecodeStep, OffsetsRecodeStay
  <1> QED BY <1>2, <1>4, <1>10 DEF RecodedInv, ItemsRecoded

(* An offset is kept as it was read.                                       *)
LEMMA RecodeOffset ==
    ASSUME IInv, TypedInv, RecodedInv, Recoding, UnmarshalOffset
    PROVE  RecodedInv'
  <1> DEFINE o == ReadOffset(FieldBytes)
  <1>1. UnmarshalAction
    BY DEF UnmarshalAction
  <1>2. /\ fields' = fields /\ input' = input /\ wire' = wire /\ DOMAIN fields = 1 .. Len(fields)
        /\ Len(fields) \in Nat /\ pc \in Nat /\ (Recoding' => Recoding)
        /\ Tails(fields)' = Tails(fields)
        /\ \A i : HeadBytes(i)' = HeadBytes(i) /\ Rank(i)' = Rank(i)
    BY <1>1, RecodeFrame
  <1>3. /\ pc \in DOMAIN fields /\ InTail(fields[pc]) /\ phase = "fields" /\ obj' = obj
        /\ pc \in Tails(fields)
    BY DEF UnmarshalOffset, AtTail, AtField, Tails
  <1>4. wire' \in Seq(Byte)
    BY <1>2 DEF RecodedInv
  <1>5. CASE OffsetRefused(o)
    <2>1. phase' = "idle" /\ result' = "error"
      BY <1>5 DEF UnmarshalOffset, Return
    <2> QED BY <1>4, <2>1 DEF RecodedInv, Recoding
  <1>6. CASE ~ OffsetRefused(o)
    <2>1. offs' = Append(offs, o) /\ pc' = pc + 1 /\ phase' = "fields"
      BY <1>3, <1>6 DEF UnmarshalOffset
    <2>2. o \in Nat /\ o = ReadOffset(HeadBytes(pc))
      <3>1. FieldBytes \in Seq(Byte) /\ Len(FieldBytes) = 4
        BY <1>3, FieldBytesFacts DEF Width
      <3>2. Len(FieldBytes) >= 4
        BY <3>1
      <3>3. HeadBytes(pc) = FieldBytes
        BY DEF HeadBytes, FieldBytes
      <3> QED BY <3>1, <3>2, <3>3, ReadOffsetNat
    <2>3. /\ offs \in Seq(Nat) /\ Len(offs) \in Nat /\ Rank(pc) = Len(offs) + 1
      BY <1>3 DEF IInv, OffsetsInv, Rank
    <2>4. offs = << >> => FixedLen(fields) <= o
      <3>1. offs = << >> => ~ (o < FixedLen(fields))
        BY <1>6 DEF OffsetRefused
      <3>2. FixedLen(fields) \in Nat
        BY StructFacts DEF IInv
      <3> HIDE DEF o
      <3> QED BY <2>2, <3>1, <3>2
    <2> HIDE DEF o
    <2>5. /\ Len(offs') = Len(offs) + 1 /\ offs'[Len(offs) + 1] = o
          /\ \A k \in 1 .. Len(offs) : offs'[k] = offs[k]
      BY <2>1, <2>2, <2>3
    <2>6. FieldsRecoded'
      <3>1. \A i \in DOMAIN fields : Decoded(i)' <=> Decoded(i)
        <4> TAKE i \in DOMAIN fields
        <4>1. InTail(fields[i]) \/ i # pc
          BY <1>3
        <4>2. i \in Nat /\ (i < pc' <=> i < pc \/ i = pc)
          BY <1>2, <2>1
        <4> QED BY <1>2, <1>3, <2>1, <4>1, <4>2 DEF Decoded
      <3>2. ASSUME NEW i \in DOMAIN fields
            PROVE  \/ Decoded(i)' /\ Recoded(i)'
                   \/ ~ Decoded(i)' /\ obj'[i] = Zero(fields[i])
        <4>1. CASE Decoded(i)
          <5>1. Recoded(i) /\ ~ InTail(fields[i])
            BY <1>3, <4>1 DEF Decoded, RecodedInv, FieldsRecoded
          <5>2. Recoded(i)'
            BY <1>1, <1>3, <5>1, RecodeStay
          <5> QED BY <3>1, <4>1, <5>2
        <4>2. CASE ~ Decoded(i)
          <5>1. obj[i] = Zero(fields[i])
            BY <1>3, <4>2 DEF RecodedInv, FieldsRecoded
          <5> QED BY <1>3, <3>1, <4>2, <5>1
        <4> QED BY <4>1, <4>2
      <3> QED BY <1>2, <3>2 DEF FieldsRecoded
    <2>7. OffsetsRecoded'
      <3>1. /\ FixedLen(fields) <= Len(input)
            /\ Tails(fields) = {} => Len(input) = FixedLen(fields)
            /\ offs # << >> => FixedLen(fields) <= offs[1]
        BY DEF RecodedInv, OffsetsRecoded
      <3>2. FixedLen(fields) <= offs'[1]
        <4>1. CASE offs = << >>
          BY <2>4, <2>5, <4>1
        <4>2. CASE offs # << >>
          <5>1. 1 \in 1 .. Len(offs)
            BY <2>3, <4>2
          <5> QED BY <2>5, <3>1, <4>2, <5>1
        <4> QED BY <4>1, <4>2
      <3>3. ASSUME NEW i \in Tails(fields), Rank(i) <= Len(offs')
            PROVE  offs'[Rank(i)] = ReadOffset(HeadBytes(i))
        <4>1. /\ i \in DOMAIN fields /\ i \in Nat /\ Rank(i) \in Nat /\ Rank(i) > 0
              /\ i \in 1 .. Len(fields) + 1 /\ pc \in 1 .. Len(fields) + 1
          BY <1>2, <1>3, StructFacts, RankPositive DEF IInv
        <4>2. CASE i = pc
          BY <2>2, <2>3, <2>5, <4>2
        <4>3. CASE i < pc
          <5>1. Rank(i) < Rank(pc)
            BY <4>1, <4>3, RankGrows
          <5>2. Rank(i) \in 1 .. Len(offs) /\ Rank(i) <= Len(offs)
            BY <2>3, <4>1, <5>1
          <5>3. offs[Rank(i)] = ReadOffset(HeadBytes(i))
            BY <5>2 DEF RecodedInv, OffsetsRecoded
          <5> QED BY <2>5, <5>2, <5>3
        <4>4. CASE pc < i
          <5>1. Rank(pc) < Rank(i)
            BY <1>3, <4>1, <4>4, RankGrows
          <5> QED BY <2>3, <2>5, <3>3, <4>1, <5>1
        <4> QED BY <1>2, <4>1, <4>2, <4>3, <4>4
      <3>4. \A i \in Tails(fields) : Rank(i)' <= Len(offs') =>
                offs'[Rank(i)'] = ReadOffset(HeadBytes(i)')
        BY <1>2, <3>3
      <3> QED BY <1>2, <2>1, <3>1, <3>2, <3>4 DEF OffsetsRecoded
    <2> QED BY <1>4, <2>1, <2>6, <2>7 DEF RecodedInv, ItemsRecoded
  <1> QED BY <1>5, <1>6

(* From the first loop to the second, past a field of the first, and out.  *)
LEMMA RecodeOn ==
    ASSUME IInv, RecodedInv, Recoding,
           EndUnmarshalFields \/ (SkipFixed /\ phase = "dynamic") \/ EndUnmarshal
    PROVE  RecodedInv'
  <1>1. /\ fields' = fields /\ obj' = obj /\ offs' = offs /\ input' = input /\ wire' = wire
        /\ \/ phase = "fields" /\ pc \notin DOMAIN fields /\ pc' = 1 /\ phase' = "dynamic"
           \/ /\ phase = "dynamic" /\ pc \in DOMAIN fields /\ ~ InTail(fields[pc])
              /\ pc' = pc + 1 /\ phase' = "dynamic"
           \/ phase = "dynamic" /\ pc \notin DOMAIN fields /\ pc' = pc /\ phase' = "idle"
    BY DEF EndUnmarshalFields, PastLast, SkipFixed, AtField, caller, reading, EndUnmarshal, Return
  <1>2. DOMAIN fields = 1 .. Len(fields) /\ Len(fields) \in Nat /\ pc \in 1 .. Len(fields) + 1
    BY StructFacts DEF IInv, StructInv
  <1>3. \A i \in DOMAIN fields : Decoded(i)' <=> Decoded(i)
    <2> TAKE i \in DOMAIN fields
    <2>1. CASE phase = "fields"
      <3>1. i < pc /\ ~ (i < pc')
        BY <1>1, <1>2, <2>1
      <3> QED BY <1>1, <2>1, <3>1 DEF Decoded
    <2>2. CASE phase = "dynamic"
      <3>1. InTail(fields[i]) => (i < pc' <=> i < pc)
        BY <1>1, <1>2, <2>2
      <3> QED BY <1>1, <2>2, <3>1 DEF Decoded
    <2> QED BY <1>1, <2>1, <2>2
  <1>4. \A i \in DOMAIN fields : Recoded(i)' <=> Recoded(i)
    <2> TAKE i \in DOMAIN fields
    <2>1. HeadBytes(i)' = HeadBytes(i) /\ TailBytes(i)' = TailBytes(i)
      BY <1>1 DEF HeadBytes, TailBytes
    <2> QED BY <1>1, <2>1 DEF Recoded, AnyTail, AnyBool
  <1>5. FieldsRecoded'
    BY <1>1, <1>3, <1>4 DEF RecodedInv, FieldsRecoded
  <1>6. phase = "dynamic" => Len(offs) = Cardinality(Tails(fields))
    BY DEF IInv, OffsetsInv
  <1>7. phase' = "idle" => pc = Len(fields) + 1
    BY <1>1, <1>2
  <1>8. \A i : HeadBytes(i)' = HeadBytes(i) /\ Rank(i)' = Rank(i)
    BY <1>1 DEF HeadBytes, Rank, TailsBefore, Tails
  <1>9. OffsetsRecoded'
    BY <1>1, <1>6, <1>7, <1>8 DEF RecodedInv, OffsetsRecoded
  <1> QED BY <1>1, <1>5, <1>9 DEF RecodedInv, ItemsRecoded

(* Where the bytes at hand come from.                                      *)
LEMMA BufIsTail ==
    ASSUME IInv, phase = "dynamic", pc \in Tails(fields)
    PROVE  Buf = TailBytes(pc)
  <1>1. at + 1 = Rank(pc) /\ at \in Nat
    <2>1. at = Cardinality(TailsBefore(pc))
      BY DEF IInv, AtInv
    <2> QED BY <2>1, BufFacts DEF Rank
  <1>2. at + 2 = Rank(pc) + 1
    BY <1>1
  <1> QED BY <1>1, <1>2, TailBytesAre DEF Buf, From, To

(* A variable field, but for a list of items.                              *)
LEMMA RecodeTail ==
    ASSUME IInv, TypedInv, RecodedInv, Recoding, UnmarshalTail
    PROVE  RecodedInv'
  <1>1. UnmarshalAction
    BY DEF UnmarshalAction
  <1>2. /\ fields' = fields /\ phase = "dynamic" /\ pc \in DOMAIN fields
        /\ InTail(fields[pc]) /\ pc \in Tails(fields) /\ fields[pc].kind # "dynlist"
        /\ offs' = offs
    BY DEF UnmarshalTail, AtTail, AtField, Tails, caller
  <1>3. CanSlice(input, From, To) /\ Buf \in Seq(Byte) /\ Buf = TailBytes(pc)
    BY <1>2, BufFacts, BufIsTail
  <1>4. /\ fields[pc] \in Fields /\ IsField(fields[pc]) /\ DOMAIN obj = DOMAIN fields
        /\ wire' \in Seq(Byte)
    BY <1>1, <1>2, FieldFacts, RecodeFrame DEF IInv, RecodedInv
  <1>5. CASE Refuses(fields[pc], Buf)
    <2>1. phase' = "idle" /\ result' = "error"
      BY <1>3, <1>5 DEF UnmarshalTail, Return
    <2> QED BY <1>4, <2>1 DEF RecodedInv, Recoding
  <1>6. CASE ~ Refuses(fields[pc], Buf)
    <2>1. /\ phase' = "dynamic" /\ pc' = pc + 1
          /\ obj' = [obj EXCEPT ![pc] = DecodeTail(fields[pc], @, Buf)]
      BY <1>2, <1>3, <1>6 DEF UnmarshalTail
    <2>2. /\ \A i \in DOMAIN fields : i = pc => Decoded(i)'
          /\ \A i \in DOMAIN fields : i # pc => (Decoded(i)' <=> Decoded(i))
          /\ ~ Decoded(pc)
      BY <1>2, <2>1, DecodedNext
    <2>3. obj[pc] = Zero(fields[pc])
      BY <1>2, <2>2 DEF RecodedInv, FieldsRecoded
    <2>4. obj'[pc] = DecodeTail(fields[pc], Zero(fields[pc]), Buf)
      BY <1>2, <1>4, <2>1, <2>3
    <2>5. \/ EncodeTail(fields[pc], obj'[pc]) = Buf
          \/ fields[pc].kind = "child" /\ ReadOffset(Buf) > 4
      BY <1>2, <1>3, <1>4, <1>6, <2>4, TailRecodes
    <2>6. \A i \in DOMAIN fields : i = pc => Recoded(i)'
      <3> SUFFICES ASSUME NEW i \in DOMAIN fields, i = pc PROVE Recoded(i)'
        OBVIOUS
      <3>1. TailBytes(i)' = Buf
        BY <1>1, <1>2, <1>3, RecodeFrame
      <3> QED BY <1>2, <2>5, <3>1 DEF Recoded, AnyTail
    <2>7. FieldsRecoded' /\ OffsetsRecoded'
      BY <1>1, <1>2, <2>1, <2>2, <2>6, RecodeStep, OffsetsRecodeStay
    <2> QED BY <1>4, <2>1, <2>7 DEF RecodedInv, ItemsRecoded
  <1> QED BY <1>5, <1>6

(* The first offset tells how many items there are, and where they begin.  *)
LEMMA RecodeBegin ==
    ASSUME IInv, TypedInv, RecodedInv, Recoding, BeginItems
    PROVE  RecodedInv'
  <1> DEFINE b == Buf
             num == DynamicLength(b)
             new == [i \in 1 .. num |-> NoBytes]
  <1>1. UnmarshalAction
    BY DEF UnmarshalAction
  <1>2. /\ fields' = fields /\ phase = "dynamic" /\ pc \in DOMAIN fields
        /\ InTail(fields[pc]) /\ pc \in Tails(fields) /\ fields[pc].kind = "dynlist"
        /\ offs' = offs /\ DOMAIN obj = DOMAIN fields
    BY DEF BeginItems, AtTail, AtField, Tails, caller, IInv, StructInv
  <1>3. CanSlice(input, From, To) /\ b \in Seq(Byte) /\ b = TailBytes(pc) /\ Len(b) \in Nat
    <2>1. CanSlice(input, From, To) /\ b \in Seq(Byte) /\ b = TailBytes(pc)
      BY <1>2, BufFacts, BufIsTail
    <2> HIDE DEF b
    <2> QED BY <2>1
  <1>4. wire' \in Seq(Byte) /\ \A i : TailBytes(i)' = TailBytes(i)
    BY <1>1, <1>2, RecodeFrame DEF RecodedInv
  <1>5. CASE LengthRefused(fields[pc], b)
    <2>1. phase' = "idle" /\ result' = "error"
      BY <1>3, <1>5 DEF BeginItems, Return
    <2> QED BY <1>4, <2>1 DEF RecodedInv, Recoding
  <1>6. CASE ~ LengthRefused(fields[pc], b)
    <2>1. /\ obj' = [obj EXCEPT ![pc] = new]
          /\ IF num = 0 THEN pc' = pc + 1 /\ phase' = phase /\ items' = items
             ELSE /\ items' = [src |-> b, left |-> num, start |-> ReadOffset(b),
                               pos |-> 4, indx |-> 1]
                  /\ phase' = "items" /\ pc' = pc
      BY <1>3, <1>6 DEF BeginItems
    <2>2. num \in Nat
      BY <1>3, <1>6, DynamicLengthNat
    <2>3. new \in Seq(Seq(Byte)) /\ Len(new) = num /\ \A j \in 1 .. num : new[j] = << >>
      <3> HIDE DEF num
      <3>1. \A j \in 1 .. num : new[j] = << >>
        BY DEF NoBytes
      <3>2. new \in [1 .. num -> Seq(Byte)]
        BY DEF NoBytes
      <3> QED BY <2>2, <3>1, <3>2
    <2>4. obj'[pc] = new
      <3> HIDE DEF new
      <3> QED BY <1>2, <2>1
    <2> DEFINE f == fields[pc]
    <2>5. CASE num = 0
      <3>1. phase' = "dynamic" /\ pc' = pc + 1
        BY <1>2, <2>1, <2>5
      <3>2. new = << >>
        <4> HIDE DEF new
        <4> QED BY <2>3, <2>5
      <3>3. /\ \A i \in DOMAIN fields : i = pc => Decoded(i)'
            /\ \A i \in DOMAIN fields : i # pc => (Decoded(i)' <=> Decoded(i))
        BY <1>2, <3>1, DecodedNext
      <3>4. b = << >> => EncodeTail(f, << >>) = b
        <4>1. << >> \in Seq(Seq(Byte)) /\ Len(<< >>) = 0
          OBVIOUS
        <4>2. /\ EncodeItems(<< >>) \in Seq(Byte)
              /\ ItemStart(<< >>, 0 + 1) = Len(EncodeItems(<< >>))
              /\ ItemStart(<< >>, 1) = 4 * 0
          BY <4>1, ItemFacts
        <4>3. Len(EncodeItems(<< >>)) = 0
          BY <4>2
        <4>4. EncodeItems(<< >>) = << >>
          BY <4>2, <4>3
        <4> QED BY <1>2, <4>4 DEF EncodeTail
      <3> HIDE DEF new, num
      <3>5. \A i \in DOMAIN fields : i = pc => Recoded(i)'
        <4> SUFFICES ASSUME NEW i \in DOMAIN fields, i = pc PROVE Recoded(i)'
          OBVIOUS
        <4>1. TailBytes(i)' = b /\ obj'[i] = << >>
          BY <1>3, <1>4, <2>4, <3>2
        <4> HIDE DEF b
        <4> QED BY <1>2, <3>4, <4>1 DEF Recoded, AnyTail
      <3>6. FieldsRecoded' /\ OffsetsRecoded'
        BY <1>1, <1>2, <3>1, <3>3, <3>5, RecodeStep, OffsetsRecodeStay
      <3> QED BY <1>4, <3>1, <3>6 DEF RecodedInv, ItemsRecoded
    <2>6. CASE num # 0
      <3>1. /\ items' = [src |-> b, left |-> num, start |-> ReadOffset(b),
                         pos |-> 4, indx |-> 1]
            /\ phase' = "items" /\ pc' = pc
        BY <2>1, <2>6
      <3>2. b # << >> /\ Len(b) >= 4 /\ ReadOffset(b) % 4 = 0 /\ num = ReadOffset(b) \div 4
        <4>1. b # << >> /\ num = ReadOffset(b) \div 4
          BY <2>6 DEF DynamicLength
        <4>2. ~ (Len(b) < 4) /\ ReadOffset(b) % 4 = 0
          BY <1>6, <4>1 DEF LengthRefused
        <4> HIDE DEF b, num
        <4> QED BY <1>3, <4>1, <4>2
      <3>3. ReadOffset(b) = 4 * num
        <4> DEFINE r == ReadOffset(b)
        <4>1. r \in Nat
          BY <1>3, <3>2, ReadOffsetNat
        <4> HIDE DEF r, b, num
        <4> QED BY <3>2, <4>1 DEF r
      <3>4. Slice(b, 0, 4) = WriteOffset(4 * num)
        BY <1>3, <3>2, <3>3, WrittenRead
      <3>5. ItemStart(new, 1) = 4 * num
        <4> HIDE DEF new
        <4> QED BY <2>3, ItemFacts
      <3> HIDE DEF new, num
      <3>6. ItemsCut(b, new, 1, 0)
        <4>1. ASSUME NEW j \in 1 .. 1
              PROVE  4 * j <= Len(b) /\ Slice(b, 4 * (j - 1), 4 * j) = WriteOffset(ItemStart(new, j))
          <5>1. j = 1 /\ 4 * j = 4 /\ 4 * (j - 1) = 0
            OBVIOUS
          <5>2. 4 <= Len(b)
            BY <1>3, <3>2
          <5> QED BY <3>4, <3>5, <5>1, <5>2
        <4>2. 1 .. 0 = {}
          OBVIOUS
        <4> QED BY <4>1, <4>2 DEF ItemsCut
      <3>7. ItemsRecoded'
        <4>1. items'.src = b /\ items'.left = num /\ items'.start = 4 * num /\ items'.pos = 4
              /\ items'.indx = 1
          <5> HIDE DEF b
          <5> QED BY <3>1, <3>3
        <4>2. /\ obj'[pc'] = new /\ TailBytes(pc)' = b
          <5>1. TailBytes(pc)' = TailBytes(pc)
            BY <1>1, <1>2, <3>1, RecodeFrame DEF TailBytes
          <5> QED BY <1>3, <2>4, <3>1, <5>1
        <4>3. 1 \in 1 .. num /\ num = num - 1 + 1 /\ 4 = 4 * 1 /\ 1 - 1 = 0
          BY <2>2, <2>6
        <4>4. ItemsCut(items'.src, obj'[pc'], items'.indx, items'.indx - 1)
          BY <3>6, <4>1, <4>2, <4>3
        <4>5. /\ items'.indx \in 1 .. Len(obj'[pc'])
              /\ items'.left = Len(obj'[pc']) - items'.indx + 1
              /\ items'.pos = 4 * items'.indx
              /\ items'.start = ItemStart(obj'[pc'], items'.indx)
              /\ \A j \in items'.indx .. Len(obj'[pc']) : obj'[pc'][j] = << >>
          BY <2>3, <3>5, <4>1, <4>2, <4>3
        <4> HIDE DEF b
        <4>6. items'.src = TailBytes(pc)'
          BY <4>1, <4>2
        <4> QED BY <4>4, <4>5, <4>6 DEF ItemsRecoded, ItemsCut, ItemStart
      <3>8. FieldsRecoded'
        <4>1. \A i \in DOMAIN fields : Decoded(i)' <=> Decoded(i)
          BY <1>2, <3>1 DEF Decoded
        <4>2. ~ Decoded(pc)
          <5>1. pc \in Nat /\ ~ (pc < pc)
            BY <1>1, ReadFrame
          <5> QED BY <1>2, <5>1 DEF Decoded
        <4>3. ASSUME NEW i \in DOMAIN fields, i # pc
              PROVE  \/ Decoded(i)' /\ Recoded(i)'
                     \/ ~ Decoded(i)' /\ obj'[i] = Zero(fields[i])
          <5>1. obj'[i] = obj[i]
            BY <1>1, <4>3, UnmarshalObj
          <5>2. \/ Decoded(i) /\ Recoded(i)
                \/ ~ Decoded(i) /\ obj[i] = Zero(fields[i])
            BY <4>3 DEF RecodedInv, FieldsRecoded
          <5>3. Recoded(i) => Recoded(i)'
            BY <1>1, <1>2, <5>1, RecodeStay
          <5> QED BY <4>1, <5>1, <5>2, <5>3
        <4> QED BY <1>2, <3>1, <4>1, <4>2, <4>3 DEF FieldsRecoded
      <3>9. OffsetsRecoded'
        BY <1>1, <1>2, <3>1, OffsetsRecodeStay
      <3> QED BY <1>4, <3>7, <3>8, <3>9 DEF RecodedInv
    <2> QED BY <2>5, <2>6
  <1> QED BY <1>5, <1>6

(* One item more has been cut from the bytes, or the last one.             *)
LEMMA RecodeItem ==
    ASSUME IInv, TypedInv, RecodedInv, Recoding, UnmarshalItem
    PROVE  RecodedInv'
  <1> DEFINE s == items.src
             k == items.indx
             v == obj[pc]
             n == Len(v)
             x == Slice(s, items.start, ItemEnd)
             w == [v EXCEPT ![k] = @ \o x]
  <1>1. UnmarshalAction
    BY DEF UnmarshalAction
  <1>2. /\ phase = "items" /\ fields' = fields /\ offs' = offs
        /\ pc \in DOMAIN fields /\ fields[pc].kind = "dynlist" /\ InTail(fields[pc])
        /\ DOMAIN obj = DOMAIN fields /\ wire' \in Seq(Byte)
        /\ \A i : TailBytes(i)' = TailBytes(i)
    BY <1>1, RecodeFrame DEF UnmarshalItem, caller, IInv, StructInv, AtInv, Tails, TypedInv,
       RecodedInv
  <1>3. /\ v \in Seq(Seq(Byte)) /\ n \in Nat /\ s \in Seq(Byte) /\ Len(s) \in Nat
        /\ items.start \in Nat /\ items.pos \in Nat
    <2>1. v \in Seq(Seq(Byte)) /\ s \in Seq(Byte)
      BY <1>2 DEF TypedInv, HasTypes, HasType, IInv, ItemsInv
    <2> HIDE DEF v, s
    <2> QED BY <1>2, <2>1 DEF IInv, ItemsInv
  <1>4. /\ s = TailBytes(pc) /\ k \in 1 .. n /\ items.left = n - k + 1 /\ items.pos = 4 * k
        /\ items.start = ItemStart(v, k) /\ ItemsCut(s, v, k, k - 1)
        /\ \A j \in k .. n : v[j] = << >>
    BY <1>2 DEF RecodedInv, ItemsRecoded
  <1>5. CASE ItemRefused \/ ItemEnd - items.start > fields[pc].each
    <2>1. ~ ItemRefused => CanSlice(s, items.start, ItemEnd)
      BY <1>2, ItemEndNat
    <2>2. phase' = "idle" /\ result' = "error"
      BY <1>5, <2>1 DEF UnmarshalItem, Return
    <2> QED BY <1>2, <2>2 DEF RecodedInv, Recoding
  <1>6. CASE ~ ItemRefused /\ ~ (ItemEnd - items.start > fields[pc].each)
    <2>1. ItemEnd \in Nat /\ CanSlice(s, items.start, ItemEnd)
      BY <1>2, <1>6, ItemEndNat
    <2>2. /\ obj' = [obj EXCEPT ![pc] = w]
          /\ \/ items.left = 1 /\ phase' = "dynamic" /\ pc' = pc + 1
             \/ /\ items.left # 1 /\ phase' = "items" /\ pc' = pc
                /\ items' = [items EXCEPT !.left = @ - 1, !.start = ItemEnd,
                                          !.pos = @ + 4, !.indx = @ + 1]
      BY <1>6, <2>1 DEF UnmarshalItem
    <2>3. obj'[pc] = w /\ \A i \in DOMAIN fields : i # pc => obj'[i] = obj[i]
      <3> HIDE DEF w
      <3> QED BY <1>2, <2>2
    <2>4. x \in Seq(Byte) /\ Len(x) = ItemEnd - items.start
      BY <1>3, <2>1, SliceBytes
    <2>5. k \in Nat /\ k >= 1 /\ k <= n
      BY <1>3, <1>4
    <2>6. /\ w \in Seq(Seq(Byte)) /\ Len(w) = n /\ w[k] = x
          /\ \A j \in 1 .. n : j # k => w[j] = v[j]
      <3>1. DOMAIN v = 1 .. n
        BY <1>3
      <3>2. v[k] = << >> /\ << >> \o x = x
        <4>1. k \in k .. n
          BY <1>3, <2>5
        <4>2. v[k] = << >>
          BY <1>4, <4>1
        <4> HIDE DEF x
        <4> QED BY <2>4, <4>2
      <3>3. w = [v EXCEPT ![k] = x]
        BY <3>2
      <3> HIDE DEF w, v, k, x, n
      <3>4. DOMAIN w = 1 .. n /\ w[k] = x /\ \A j \in 1 .. n : j # k => w[j] = v[j]
        BY <1>4, <3>1, <3>3
      <3>5. w \in Seq(Seq(Byte))
        <4>1. HasTypes'
          BY <1>1, UnmarshalObj
        <4> QED BY <1>2, <2>3, <4>1 DEF HasTypes, HasType
      <3>6. Len(w) = n
        <4>1. DOMAIN w = 1 .. Len(w) /\ Len(w) \in Nat
          BY <3>5
        <4> QED BY <1>3, <3>4, <4>1
      <3> QED BY <3>4, <3>5, <3>6
    <2>7. \A j \in 1 .. k : ItemStart(w, j) = ItemStart(v, j)
      <3> TAKE j \in 1 .. k
      <3> HIDE DEF w, v, k, x, n
      <3>1. j - 1 \in Nat /\ j - 1 <= n /\ \A i \in 1 .. j - 1 : i \in 1 .. n /\ i # k
        BY <1>3, <2>5
      <3>2. SubSeq(w, 1, j - 1) = SubSeq(v, 1, j - 1)
        <4> DEFINE p == SubSeq(w, 1, j - 1)
                   q == SubSeq(v, 1, j - 1)
        <4>1. /\ p \in Seq(Seq(Byte)) /\ Len(p) = j - 1
              /\ q \in Seq(Seq(Byte)) /\ Len(q) = j - 1
          BY <1>3, <2>6, <3>1 DEF n
        <4>2. \A i \in 1 .. j - 1 : p[i] = w[i] /\ q[i] = v[i]
          BY <1>3, <2>6, <3>1 DEF n
        <4>3. \A i \in 1 .. j - 1 : p[i] = q[i]
          BY <2>6, <3>1, <4>2
        <4> HIDE DEF p, q
        <4>4. p = q
          BY <4>1, <4>3, SameElements
        <4> QED BY <4>4 DEF p, q
      <3> QED BY <2>6, <3>2 DEF ItemStart, n
    <2>8. ItemStart(w, k + 1) = ItemEnd
      <3> HIDE DEF w, v, k, x, n, s
      <3>1. ItemStart(w, k + 1) = ItemStart(w, k) + Len(w[k])
        BY <1>4, <2>6, ItemFacts
      <3>2. ItemStart(w, k) = items.start
        BY <1>4, <2>5, <2>7
      <3> QED BY <1>3, <2>1, <2>4, <2>6, <3>1, <3>2
    <2>9. ItemsCut(s, w, k, k)
      <3> HIDE DEF w, v, k, x, n, s
      <3>1. ASSUME NEW j \in 1 .. k
            PROVE  4 * j <= Len(s) /\ Slice(s, 4 * (j - 1), 4 * j) = WriteOffset(ItemStart(w, j))
        BY <1>4, <2>7 DEF ItemsCut
      <3>2. ASSUME NEW j \in 1 .. k
            PROVE  /\ ItemStart(w, j + 1) <= Len(s)
                   /\ Slice(s, ItemStart(w, j), ItemStart(w, j + 1)) = w[j]
        <4>1. CASE j = k
          <5>1. ItemStart(w, j) = items.start /\ ItemStart(w, j + 1) = ItemEnd /\ w[j] = x
            BY <1>4, <2>5, <2>6, <2>7, <2>8, <4>1
          <5>2. ItemEnd <= Len(s)
            BY <2>1 DEF CanSlice
          <5> QED BY <5>1, <5>2 DEF x, s
        <4>2. CASE j # k
          <5>1. j \in 1 .. k - 1 /\ j + 1 \in 1 .. k /\ j \in 1 .. n
            BY <1>3, <2>5, <4>2
          <5>2. ItemStart(w, j) = ItemStart(v, j) /\ ItemStart(w, j + 1) = ItemStart(v, j + 1)
                /\ w[j] = v[j]
            BY <2>6, <2>7, <4>2, <5>1
          <5> QED BY <1>4, <5>1, <5>2 DEF ItemsCut
        <4> QED BY <4>1, <4>2
      <3> QED BY <3>1, <3>2 DEF ItemsCut
    <2>10. OffsetsRecoded'
      BY <1>1, <1>2, <2>2, OffsetsRecodeStay
    <2> HIDE DEF w
    <2>11. CASE items.left = 1
      <3>1. phase' = "dynamic" /\ pc' = pc + 1
        BY <2>2, <2>11
      <3>2. /\ \A i \in DOMAIN fields : i = pc => Decoded(i)'
            /\ \A i \in DOMAIN fields : i # pc => (Decoded(i)' <=> Decoded(i))
        BY <1>2, <3>1, DecodedNext
      <3>3. s = EncodeItems(w)
        <4> HIDE DEF v, n, k, x
        <4>1. k = Len(w)
          BY <1>3, <1>4, <2>5, <2>6, <2>11
        <4>2. ItemEnd = Len(s)
          BY <2>11 DEF ItemEnd
        <4>3. ItemsCut(s, w, Len(w), Len(w)) /\ Len(s) = ItemStart(w, Len(w) + 1)
          BY <2>8, <2>9, <4>1, <4>2
        <4> HIDE DEF s
        <4> QED BY <1>3, <2>6, <4>3, ItemsRecode
      <3>4. \A i \in DOMAIN fields : i = pc => Recoded(i)'
        <4> SUFFICES ASSUME NEW i \in DOMAIN fields, i = pc PROVE Recoded(i)'
          OBVIOUS
        <4>1. TailBytes(i)' = s /\ obj'[i] = w
          BY <1>2, <1>4, <2>3
        <4>2. EncodeTail(fields[i], w) = s
          BY <1>2, <3>3 DEF EncodeTail
        <4> HIDE DEF s
        <4> QED BY <1>2, <4>1, <4>2 DEF Recoded
      <3>5. FieldsRecoded'
        BY <1>1, <1>2, <3>1, <3>2, <3>4, RecodeStep
      <3> QED BY <1>2, <2>10, <3>1, <3>5 DEF RecodedInv, ItemsRecoded
    <2>12. CASE items.left # 1
      <3>1. /\ phase' = "items" /\ pc' = pc
            /\ items' = [items EXCEPT !.left = @ - 1, !.start = ItemEnd,
                                      !.pos = @ + 4, !.indx = @ + 1]
        BY <2>2, <2>12
      <3>2. /\ items'.src = s /\ items'.left = items.left - 1
            /\ items'.start = ItemEnd /\ items'.pos = items.pos + 4 /\ items'.indx = k + 1
        BY <1>4, <3>1
      <3>3. /\ k + 1 \in 1 .. n /\ items'.left = n - (k + 1) + 1 /\ items'.pos = 4 * (k + 1)
            /\ (k + 1) - 1 = k /\ 4 * (k + 1) = 4 * k + 4 /\ 4 * k \in Nat
        <4> HIDE DEF n, k, v
        <4> QED BY <1>3, <1>4, <2>5, <2>12, <3>2
      <3>4. /\ 4 * k + 4 <= Len(s)
            /\ Slice(s, 4 * k, 4 * k + 4) = WriteOffset(ItemStart(w, k + 1))
        <4> DEFINE c == Slice(s, 4 * k, 4 * k + 4)
        <4> HIDE DEF k, s, v, n, x
        <4>1. ~ (Len(s) - 4 * k < 4)
          BY <1>4, <1>6, <2>12 DEF ItemRefused, s
        <4>2. 4 * k + 4 <= Len(s) /\ 4 * k \in Nat /\ 4 * k + 4 \in Nat
              /\ (4 * k + 4) - 4 * k = 4
          <5> DEFINE l == Len(s)
          <5>1. l \in Nat /\ k \in Nat /\ ~ (l - 4 * k < 4)
            BY <1>3, <2>5, <4>1
          <5> HIDE DEF l
          <5>2. 4 * k + 4 <= l /\ 4 * k \in Nat /\ 4 * k + 4 \in Nat /\ (4 * k + 4) - 4 * k = 4
            BY <5>1
          <5> QED BY <5>2 DEF l
        <4>3. CanSlice(s, 4 * k, 4 * k + 4)
          BY <4>2 DEF CanSlice
        <4>4. c \in Seq(Byte) /\ Len(c) = 4
          BY <1>3, <4>2, <4>3, SliceBytes
        <4>5. ItemEnd = ReadOffset(c)
          BY <1>4, <2>12 DEF ItemEnd, s
        <4> HIDE DEF c
        <4>6. Slice(c, 0, 4) = WriteOffset(ReadOffset(c))
          BY <4>4, WrittenRead
        <4>7. Slice(c, 0, 4) = c
          BY <4>4 DEF Slice
        <4> QED BY <2>8, <4>2, <4>5, <4>6, <4>7 DEF c
      <3>5. ItemsCut(s, w, k + 1, k)
        <4> HIDE DEF k, s, v, n, x
        <4>1. ASSUME NEW j \in 1 .. k + 1
              PROVE  4 * j <= Len(s) /\ Slice(s, 4 * (j - 1), 4 * j) = WriteOffset(ItemStart(w, j))
          <5>1. CASE j = k + 1
            <6>1. 4 * j = 4 * k + 4 /\ 4 * (j - 1) = 4 * k
              BY <2>5, <5>1
            <6> QED BY <3>4, <5>1, <6>1
          <5>2. CASE j # k + 1
            <6>1. j \in 1 .. k
              BY <2>5, <5>2
            <6> QED BY <2>9, <6>1 DEF ItemsCut
          <5> QED BY <5>1, <5>2
        <4>2. \A j \in 1 .. k : /\ ItemStart(w, j + 1) <= Len(s)
                                /\ Slice(s, ItemStart(w, j), ItemStart(w, j + 1)) = w[j]
          BY <2>9 DEF ItemsCut
        <4> QED BY <4>1, <4>2 DEF ItemsCut
      <3>6. ItemsRecoded'
        <4>1. obj'[pc'] = w
          BY <2>3, <3>1
        <4>2. items'.src = TailBytes(pc)'
          <5>1. TailBytes(pc)' = TailBytes(pc)
            BY <1>1, <1>2, <3>1, RecodeFrame DEF TailBytes
          <5> QED BY <1>4, <3>2, <5>1
        <4>3. \A j \in k + 1 .. n : w[j] = << >>
          <5> TAKE j \in k + 1 .. n
          <5> HIDE DEF k, v, n, x, s
          <5>1. j \in 1 .. n /\ j # k /\ j \in k .. n
            BY <1>3, <2>5
          <5> QED BY <1>4, <2>6, <5>1
        <4>4. /\ items'.indx \in 1 .. Len(obj'[pc'])
              /\ items'.left = Len(obj'[pc']) - items'.indx + 1
              /\ items'.pos = 4 * items'.indx
              /\ items'.start = ItemStart(obj'[pc'], items'.indx)
              /\ \A j \in items'.indx .. Len(obj'[pc']) : obj'[pc'][j] = << >>
          <5> HIDE DEF k, v, n, x, s
          <5> QED BY <2>6, <2>8, <3>2, <3>3, <4>1, <4>3
        <4>5. ItemsCut(items'.src, obj'[pc'], items'.indx, items'.indx - 1)
          <5> HIDE DEF k, v, n, x, s
          <5> QED BY <3>2, <3>3, <3>5, <4>1
        <4> QED BY <4>2, <4>4, <4>5 DEF ItemsRecoded, ItemsCut, ItemStart
      <3>7. FieldsRecoded'
        <4>1. \A i \in DOMAIN fields : Decoded(i)' <=> Decoded(i)
          BY <1>2, <3>1 DEF Decoded
        <4>2. ~ Decoded(pc)
          <5>1. pc \in Nat /\ ~ (pc < pc)
            BY <1>1, ReadFrame
          <5> QED BY <1>2, <5>1 DEF Decoded
        <4>3. ASSUME NEW i \in DOMAIN fields, i # pc
              PROVE  \/ Decoded(i)' /\ Recoded(i)'
                     \/ ~ Decoded(i)' /\ obj'[i] = Zero(fields[i])
          <5>1. obj'[i] = obj[i]
            BY <2>3, <4>3
          <5>2. \/ Decoded(i) /\ Recoded(i)
                \/ ~ Decoded(i) /\ obj[i] = Zero(fields[i])
            BY <4>3 DEF RecodedInv, FieldsRecoded
          <5>3. Recoded(i) => Recoded(i)'
            BY <1>1, <1>2, <5>1, RecodeStay
          <5> QED BY <4>1, <5>1, <5>2, <5>3
        <4> QED BY <1>2, <3>1, <4>1, <4>2, <4>3 DEF FieldsRecoded
      <3> QED BY <1>2, <2>10, <3>6, <3>7 DEF RecodedInv
    <2> QED BY <2>11, <2>12
  <1> QED BY <1>5, <1>6

(* What UnmarshalSSZ has read is what marshalling would write, but for the *)
(* freedoms.                                                               *)
THEOREM Recodes == Spec => []RecodedInv
  <1>1. Init => RecodedInv
    BY DEF Init, RecodedInv, Recoding
  <1>2. RecodedInv /\ IInv /\ TypedInv /\ IInv' /\ [Next]_vars => RecodedInv'
    <2> SUFFICES ASSUME RecodedInv, IInv, TypedInv, IInv', [Next]_vars PROVE RecodedInv'
      OBVIOUS
    <2>1. CASE CallSizeSSZ \/ CallMarshalSSZ \/ CallMarshalSSZTo
      <3>1. call' # "UnmarshalSSZ" /\ wire' = wire
        BY <2>1 DEF CallSizeSSZ, CallMarshalSSZ, CallMarshalSSZTo, Begin
      <3> QED BY <3>1, RecodeOther DEF RecodedInv
    <2>2. CASE MarshalAction
      <3>1. phase \in {"head", "tail"} /\ call' = call /\ wire' \in {wire, out}
        BY <2>2 DEF MarshalAction, MarshalFixed, MarshalOffset, EndMarshalHead, MarshalTail,
               EndMarshal, AtTail, AtField, PastLast, caller
      <3>2. call' # "UnmarshalSSZ"
        BY <3>1 DEF IInv, PhaseInv, Marshalling
      <3>3. wire' \in Seq(Byte)
        BY <3>1 DEF RecodedInv, TypedInv
      <3> QED BY <3>2, <3>3, RecodeOther
    <2>3. CASE SkipFixed
      <3>1. /\ call' = call /\ wire' = wire /\ origin' = origin /\ phase' = phase
            /\ phase \in {"tail", "dynamic"}
        BY <2>3 DEF SkipFixed, AtField, caller
      <3>2. CASE ~ Recoding
        <4>1. ~ Recoding'
          BY <3>1, <3>2 DEF Recoding, Fresh
        <4> QED BY <3>1, <4>1 DEF RecodedInv
      <3>3. CASE Recoding
        <4>1. phase = "dynamic"
          BY <3>1, <3>3 DEF Recoding, IInv, PhaseInv, Marshalling
        <4> QED BY <2>3, <3>3, <4>1, RecodeOn
      <3> QED BY <3>2, <3>3
    <2>4. CASE CallUnmarshalSSZ
      BY <2>4, RecodeCall
    <2>5. CASE UnmarshalAction
      <3>1. CASE ~ Recoding
        <4>1. ~ Recoding' /\ wire' = wire
          BY <2>5, <3>1, RecodeFrame
        <4> QED BY <4>1 DEF RecodedInv
      <3>2. CASE Recoding
        BY <2>5, <3>2, RecodeFixed, RecodeOffset, RecodeOn, RecodeTail, RecodeBegin, RecodeItem
           DEF UnmarshalAction
      <3> QED BY <3>1, <3>2
    <2>6. CASE Stop \/ UNCHANGED vars
      <3>1. UNCHANGED vars
        BY <2>6 DEF Stop
      <3>2. /\ fields' = fields /\ wire' = wire /\ origin' = origin
            /\ call' = call /\ obj' = obj /\ phase' = phase /\ pc' = pc
            /\ input' = input /\ offs' = offs /\ items' = items /\ result' = result
        BY <3>1 DEF vars, caller, reading
      <3>3. Recoding' <=> Recoding
        BY <3>2 DEF Recoding, Fresh
      <3>4. FieldsRecoded => FieldsRecoded'
        <4>1. \A i : HeadBytes(i)' = HeadBytes(i) /\ TailBytes(i)' = TailBytes(i)
          BY <3>2 DEF HeadBytes, TailBytes
        <4>2. \A i : (Recoded(i)' <=> Recoded(i)) /\ (Decoded(i)' <=> Decoded(i))
          BY <3>2, <4>1 DEF Recoded, AnyBool, AnyTail, Decoded
        <4> QED BY <3>2, <4>2 DEF FieldsRecoded
      <3>5. OffsetsRecoded => OffsetsRecoded'
        BY <3>2 DEF OffsetsRecoded, HeadBytes, Rank, TailsBefore, Tails
      <3>6. ItemsRecoded => ItemsRecoded'
        BY <3>2 DEF ItemsRecoded, TailBytes, ItemsCut, ItemStart
      <3> QED BY <3>2, <3>3, <3>4, <3>5, <3>6 DEF RecodedInv
    <2> QED BY <2>1, <2>2, <2>3, <2>4, <2>5, <2>6 DEF Next, MarshalAction, UnmarshalAction
  <1> QED BY <1>1, <1>2, Invariance, Typing, PTL DEF Spec

---------------------------------------------------------------------------
(* All has been read of an input that UnmarshalSSZ accepted, and nothing   *)
(* in it is free: each part of it is what the same part of the object is   *)
(* marshalled to.                                                          *)
Accepted == /\ origin = "decoded" /\ call = "UnmarshalSSZ" /\ result = "ok"
            /\ sent # << >> /\ obj = sent /\ ~ HasFreedom

(* Where the variable fields were found.                                   *)
Found(i) == IF Rank(i) <= Len(offs) THEN offs[Rank(i)] ELSE Len(input)

(* The parts of the input, and of what was sent.                           *)
LEMMA AcceptedParts ==
    ASSUME IInv, WrittenInv, RecodedInv, Accepted
    PROVE  /\ Encodes(wire, obj) /\ wire \in Seq(Byte) /\ input \in Seq(Byte)
           /\ OffsetsRecoded /\ Len(offs) = Cardinality(Tails(fields))
           /\ offs # << >> => offs[1] <= FixedLen(fields)
           /\ \A i \in DOMAIN fields : ~ InTail(fields[i]) => HeadBytes(i) = obj[i]
           /\ \A i \in Tails(fields) : TailBytes(i) = EncodeTail(fields[i], obj[i])
  <1>1. phase = "idle" /\ Recoding
    BY DEF Accepted, IInv, PhaseInv, Recoding, Fresh
  <1>2. FieldsRecoded /\ OffsetsRecoded /\ pc = Len(fields) + 1
        /\ Len(offs) = Cardinality(Tails(fields))
    BY <1>1 DEF RecodedInv, OffsetsRecoded
  <1>3. Len(fields) \in Nat /\ DOMAIN fields = 1 .. Len(fields) /\ FixedLen(fields) \in Nat
    BY StructFacts DEF IInv
  <1>4. \A i \in DOMAIN fields : Recoded(i)
    <2> TAKE i \in DOMAIN fields
    <2>1. i < pc
      BY <1>2, <1>3
    <2>2. Decoded(i)
      BY <1>1, <2>1 DEF Decoded
    <2> QED BY <1>1, <1>2, <2>2 DEF FieldsRecoded
  <1>5. /\ \A i \in DOMAIN fields : ~ AnyBool(i)
        /\ \A i \in Tails(fields) : ~ AnyTail(i)
        /\ offs # << >> => ~ (offs[1] > FixedLen(fields))
    BY DEF Accepted, HasFreedom, AnyBool, AnyTail
  <1>6. offs # << >> => offs[1] <= FixedLen(fields)
    <2>1. offs # << >> => offs[1] \in Nat
      <3>1. offs \in Seq(Nat)
        BY DEF IInv, OffsetsInv
      <3> QED BY <3>1
    <2> QED BY <1>3, <1>5, <2>1
  <1>7. \A i \in Tails(fields) : i \in DOMAIN fields /\ InTail(fields[i])
    BY DEF Tails
  <1>8. Encodes(wire, obj)
    BY DEF WrittenInv, Accepted
  <1>9. wire \in Seq(Byte) /\ input \in Seq(Byte)
    BY DEF RecodedInv, IInv, StructInv
  <1>10. \A i \in DOMAIN fields : ~ InTail(fields[i]) => HeadBytes(i) = obj[i]
    BY <1>4, <1>5 DEF Recoded
  <1>11. \A i \in Tails(fields) : TailBytes(i) = EncodeTail(fields[i], obj[i])
    BY <1>4, <1>5, <1>7 DEF Recoded
  <1> QED BY <1>2, <1>6, <1>8, <1>9, <1>10, <1>11

(* A variable field was decoded from where it was found up to where the    *)
(* next was.                                                               *)
LEMMA FoundFacts ==
    ASSUME IInv, Len(offs) = Cardinality(Tails(fields)), NEW k \in Tails(fields)
    PROVE  /\ Found(k) \in Nat /\ Found(k + 1) \in Nat
           /\ CanSlice(input, Found(k), Found(k + 1))
           /\ TailBytes(k) = Slice(input, Found(k), Found(k + 1))
  <1>1. k \in DOMAIN fields
    BY DEF Tails
  <1>2. /\ Rank(k) \in Nat /\ Rank(k) > 0 /\ Rank(k + 1) = Rank(k) + 1 /\ Rank(k) <= Len(offs)
    <2>1. /\ Cardinality(TailsBefore(k)) \in Nat
          /\ Cardinality(TailsBefore(k + 1)) = Cardinality(TailsBefore(k)) + 1
          /\ Cardinality(TailsBefore(k)) + 1 <= Cardinality(Tails(fields))
      BY <1>1, TailCount DEF IInv
    <2> QED BY <2>1 DEF Rank
  <1> DEFINE r == Rank(k)
  <1>3. /\ offs \in Seq(Nat) /\ Len(offs) \in Nat /\ input \in Seq(Byte) /\ Len(input) \in Nat
        /\ \A i \in 1 .. Len(offs) : offs[i] <= Len(input)
        /\ \A i \in 1 .. Len(offs) - 1 : offs[i] <= offs[i + 1]
    BY DEF IInv, OffsetsInv, StructInv
  <1>4. r \in 1 .. Len(offs) /\ Found(k) = offs[r] /\ offs[r] \in Nat /\ offs[r] <= Len(input)
    <2>1. r \in 1 .. Len(offs)
      BY <1>2, <1>3
    <2> HIDE DEF r
    <2> QED BY <1>2, <1>3, <2>1 DEF Found, r
  <1>5. CASE r = Len(offs)
    <2>1. Found(k + 1) = Len(input)
      <3>1. ~ (Rank(k + 1) <= Len(offs))
        BY <1>2, <1>3, <1>5
      <3> QED BY <3>1 DEF Found
    <2> QED BY <1>3, <1>4, <1>5, <2>1, TailBytesAre DEF CanSlice
  <1>6. CASE r # Len(offs)
    <2>1. r \in 1 .. Len(offs) - 1 /\ r + 1 \in 1 .. Len(offs) /\ r + 1 <= Len(offs)
      <3> HIDE DEF r
      <3> QED BY <1>3, <1>4, <1>6
    <2>2. Found(k + 1) = offs[r + 1]
      BY <1>2, <2>1 DEF Found
    <2>3. offs[r + 1] \in Nat /\ offs[r] <= offs[r + 1] /\ offs[r + 1] <= Len(input)
      <3> HIDE DEF r
      <3> QED BY <1>3, <2>1
    <2> QED BY <1>4, <1>6, <2>2, <2>3, TailBytesAre DEF CanSlice
  <1> QED BY <1>5, <1>6

(* The variable fields were found where marshalling puts them.             *)
LEMMA FoundWhereWritten ==
    ASSUME IInv, WrittenInv, RecodedInv, Accepted
    PROVE  \A i \in 1 .. Len(fields) + 1 : Found(i) = TailStart(obj, i)
  <1> DEFINE L == Len(fields)
             T == {i \in Nat : i <= L => Found(i + 1) = TailStart(obj, i + 1)}
  <1>1. /\ Encodes(wire, obj) /\ OffsetsRecoded /\ Len(offs) = Cardinality(Tails(fields))
        /\ offs # << >> => offs[1] <= FixedLen(fields)
        /\ \A i \in Tails(fields) : TailBytes(i) = EncodeTail(fields[i], obj[i])
        /\ input \in Seq(Byte)
    BY AcceptedParts
  <1>2. /\ L \in Nat /\ DOMAIN fields = 1 .. L /\ FixedLen(fields) \in Nat
        /\ TailsBefore(1) = {} \/ L = 0
    BY StructFacts DEF IInv, TailsBefore
  <1>3. \A i \in DOMAIN fields : HasType(fields[i], obj[i]) /\ Fits(fields[i], obj[i])
    BY <1>1 DEF Encodes
  <1>4. /\ TailStart(obj, 1) = FixedLen(fields)
        /\ \A i \in DOMAIN fields :
             /\ TailStart(obj, i) \in Nat
             /\ TailStart(obj, i + 1) = TailStart(obj, i)
                  + (IF InTail(fields[i]) THEN TailSize(fields[i], obj[i]) ELSE 0)
    <2>1. \A i \in DOMAIN fields : i \in 1 .. L + 1
      BY <1>2
    <2> QED BY <1>3, <2>1, StartFacts
  <1>5. 0 \in T
    <2>1. Rank(1) = 1
      <3>1. Tails(fields) \subseteq 1 .. L
        BY StructFacts DEF IInv
      <3>2. TailsBefore(1) = {}
        BY <1>2, <3>1 DEF TailsBefore
      <3> QED BY <3>2, FS_EmptySet DEF Rank
    <2>2. Found(1) = FixedLen(fields)
      <3>1. offs \in Seq(Nat)
        BY DEF IInv, OffsetsInv
      <3>2. CASE offs = << >>
        <4>1. Len(offs) = 0
          BY <3>2
        <4>2. Tails(fields) = {}
          <5>1. IsFiniteSet(Tails(fields)) /\ Cardinality(Tails(fields)) = 0
            BY <1>1, <4>1, StructFacts DEF IInv
          <5> QED BY <5>1, FS_EmptySet
        <4>3. Len(input) = FixedLen(fields)
          BY <1>1, <4>2 DEF OffsetsRecoded
        <4> QED BY <2>1, <4>1, <4>3 DEF Found
      <3>3. CASE offs # << >>
        <4>1. 1 <= Len(offs) /\ offs[1] \in Nat
          BY <3>1, <3>3
        <4>2. FixedLen(fields) <= offs[1] /\ offs[1] <= FixedLen(fields)
          BY <1>1, <3>3 DEF OffsetsRecoded
        <4>3. offs[1] = FixedLen(fields)
          BY <1>2, <4>1, <4>2
        <4> QED BY <2>1, <4>1, <4>3 DEF Found
      <3> QED BY <3>2, <3>3
    <2>3. 0 + 1 = 1
      OBVIOUS
    <2> QED BY <1>4, <2>2, <2>3
  <1>6. ASSUME NEW i \in Nat, i \in T PROVE i + 1 \in T
    <2> SUFFICES ASSUME i + 1 <= L PROVE Found((i + 1) + 1) = TailStart(obj, (i + 1) + 1)
      OBVIOUS
    <2> DEFINE k == i + 1
    <2>1. k \in DOMAIN fields /\ Found(k) = TailStart(obj, k)
      BY <1>2, <1>6
    <2> HIDE DEF k, L
    <2>2. CASE k \notin Tails(fields)
      <3>1. TailsBefore(k + 1) = TailsBefore(k) /\ ~ InTail(fields[k])
        BY <2>1, <2>2, TailCount DEF IInv, Tails
      <3>2. Found(k + 1) = Found(k)
        BY <3>1 DEF Found, Rank
      <3>3. TailStart(obj, k + 1) = TailStart(obj, k)
        BY <1>4, <2>1, <3>1
      <3> QED BY <2>1, <3>2, <3>3 DEF k
    <2>3. CASE k \in Tails(fields)
      <3> DEFINE lo == Found(k)
                 hi == Found(k + 1)
                 t  == TailSize(fields[k], obj[k])
      <3>1. lo \in Nat /\ hi \in Nat /\ CanSlice(input, lo, hi)
            /\ TailBytes(k) = Slice(input, lo, hi)
        BY <1>1, <2>3, FoundFacts
      <3>2. Len(TailBytes(k)) = hi - lo
        BY <1>1, <3>1, SliceBytes
      <3>3. Len(TailBytes(k)) = t
        <4>1. fields[k] \in Fields /\ IsField(fields[k]) /\ InTail(fields[k])
          BY <2>1, <2>3, FieldFacts DEF IInv, Tails
        <4>2. Len(EncodeTail(fields[k], obj[k])) = t
          BY <1>3, <2>1, <4>1, EncodeTailBytes DEF Fits
        <4> QED BY <1>1, <2>3, <4>2
      <3>4. TailStart(obj, k + 1) = TailStart(obj, k) + t
        BY <1>4, <2>1, <2>3 DEF Tails
      <3> HIDE DEF lo, hi, t
      <3>5. hi = lo + t
        BY <3>1, <3>2, <3>3
      <3> QED BY <2>1, <3>4, <3>5 DEF lo, hi, k
    <2> QED BY <2>2, <2>3
  <1> HIDE DEF T
  <1>7. \A i \in Nat : i \in T
    BY <1>5, <1>6, SetInduction
  <1> SUFFICES ASSUME NEW i \in 1 .. L + 1 PROVE Found(i) = TailStart(obj, i)
    OBVIOUS
  <1>8. i - 1 \in Nat /\ i - 1 <= L /\ (i - 1) + 1 = i
    BY <1>2
  <1>9. Found((i - 1) + 1) = TailStart(obj, (i - 1) + 1)
    BY <1>7, <1>8 DEF T
  <1> QED BY <1>8, <1>9

(* An input without a freedom is the encoding of what it was decoded to.   *)
LEMMA AcceptedIsWritten ==
    ASSUME IInv, TypedInv, WrittenInv, RecodedInv, Accepted
    PROVE  input = wire
  <1> DEFINE L == Len(fields)
             P == [i \in 1 .. L + 1 |-> HeadOffset(fields, i)]
             Q == [i \in 1 .. L + 1 |-> TailStart(obj, i)]
  <1>1. /\ Encodes(wire, obj) /\ OffsetsRecoded /\ Len(offs) = Cardinality(Tails(fields))
        /\ wire \in Seq(Byte) /\ input \in Seq(Byte)
        /\ \A i \in DOMAIN fields : ~ InTail(fields[i]) => HeadBytes(i) = obj[i]
        /\ \A i \in Tails(fields) : TailBytes(i) = EncodeTail(fields[i], obj[i])
    BY AcceptedParts
  <1>2. \A i \in 1 .. L + 1 : Found(i) = TailStart(obj, i)
    BY FoundWhereWritten
  <1>3. /\ \A i \in DOMAIN fields : /\ HasType(fields[i], obj[i])
                                    /\ HeadWritten(wire, obj, i)
                                    /\ InTail(fields[i]) => TailWritten(wire, obj, i)
        /\ Len(wire) = TailStart(obj, L + 1)
    BY <1>1 DEF Encodes
  <1>4. /\ L \in Nat /\ DOMAIN fields = 1 .. L
        /\ TailStart(obj, 1) = FixedLen(fields) /\ FixedLen(fields) = HeadOffset(fields, L + 1)
        /\ \A i \in 1 .. L + 1 : TailStart(obj, i) \in Nat /\ HeadOffset(fields, i) \in Nat
        /\ \A i, j \in 1 .. L + 1 : i <= j =>
             /\ HeadOffset(fields, i) <= HeadOffset(fields, j)
             /\ TailStart(obj, i) <= TailStart(obj, j)
        /\ \A i \in DOMAIN fields :
             TailStart(obj, i + 1) = TailStart(obj, i)
               + (IF InTail(fields[i]) THEN TailSize(fields[i], obj[i]) ELSE 0)
    BY <1>3, StartFacts
  <1>5. /\ 1 \in 1 .. L + 1 /\ L + 1 \in 1 .. L + 1
        /\ \A i \in 1 .. L : i \in 1 .. L + 1 /\ i + 1 \in 1 .. L + 1 /\ i <= i + 1 /\ i + 1 <= L + 1
    BY <1>4
  <1>6. HeadOffset(fields, 1) = 0
    BY LayoutFacts, StructFacts DEF IInv
  <1>7. Len(input) = Len(wire)
    <2>1. ~ (Rank(L + 1) <= Len(offs))
      <3>1. TailsBefore(L + 1) = Tails(fields)
        <4>1. Tails(fields) \subseteq 1 .. L
          BY StructFacts DEF IInv
        <4> QED BY <1>4, <4>1 DEF TailsBefore
      <3>2. Len(offs) \in Nat
        BY DEF IInv, OffsetsInv
      <3> QED BY <1>1, <3>1, <3>2 DEF Rank
    <2>2. Found(L + 1) = Len(input)
      BY <2>1 DEF Found
    <2> QED BY <1>2, <1>3, <1>5, <2>2
  <1>8. Len(wire) \in Nat /\ FixedLen(fields) <= Len(wire)
    <2>1. 1 <= L + 1
      BY <1>4
    <2> QED BY <1>1, <1>3, <1>4, <1>5, <2>1
  <1>9. ASSUME NEW i \in DOMAIN fields PROVE HeadBytes(i) = HeadOf(obj, i)
    <2>1. CASE ~ InTail(fields[i])
      BY <1>1, <2>1 DEF HeadOf
    <2>2. CASE InTail(fields[i])
      <3> DEFINE h == HeadBytes(i)
      <3>1. i \in Tails(fields)
        BY <2>2 DEF Tails
      <3>2. h \in Seq(Byte) /\ Len(h) = 4
        <4> DEFINE lo == HeadOffset(fields, i)
                   hi == HeadOffset(fields, i + 1)
        <4>1. /\ lo \in Nat /\ hi = lo + 4 /\ hi <= FixedLen(fields)
          BY <2>2, StructFacts DEF IInv, Width
        <4> HIDE DEF lo, hi
        <4>2. CanSlice(input, lo, hi) /\ hi \in Nat /\ hi - lo = 4
          BY <1>7, <1>8, <1>4, <4>1 DEF CanSlice
        <4>3. Slice(input, lo, hi) \in Seq(Byte) /\ Len(Slice(input, lo, hi)) = 4
          BY <1>1, <4>1, <4>2, SliceBytes
        <4> QED BY <4>3 DEF HeadBytes, lo, hi
      <3>3. Rank(i) <= Len(offs)
        BY <1>1, <3>1, TailCount DEF IInv, Rank
      <3>4. ReadOffset(h) = TailStart(obj, i)
        <4>1. offs[Rank(i)] = ReadOffset(h)
          BY <1>1, <3>1, <3>3 DEF OffsetsRecoded
        <4>2. Found(i) = offs[Rank(i)]
          BY <3>3 DEF Found
        <4>3. Found(i) = TailStart(obj, i)
          BY <1>2, <1>4, <1>5
        <4> QED BY <4>1, <4>2, <4>3
      <3> HIDE DEF h
      <3>5. Slice(h, 0, 4) = WriteOffset(ReadOffset(h)) /\ Slice(h, 0, 4) = h
        <4>1. Slice(h, 0, 4) = WriteOffset(ReadOffset(h))
          BY <3>2, WrittenRead
        <4>2. Slice(h, 0, 4) = h
          BY <3>2 DEF Slice
        <4> QED BY <4>1, <4>2
      <3> QED BY <2>2, <3>4, <3>5 DEF HeadOf, h
    <2> QED BY <2>1, <2>2
  <1>10. \A i \in 1 .. L + 1 : P[i] = HeadOffset(fields, i) /\ Q[i] = TailStart(obj, i)
    OBVIOUS
  <1> HIDE DEF L, P, Q
  <1>11. Alike(input, wire, FixedLen(fields))
    <2>1. P[1] = 0 /\ P[L + 1] = FixedLen(fields)
      BY <1>4, <1>5, <1>6, <1>10
    <2>2. Alike(input, wire, P[1])
      BY <2>1 DEF Alike
    <2>3. ASSUME NEW i \in 1 .. L
          PROVE  /\ P[i] <= P[i + 1] /\ P[i + 1] <= Len(input) /\ P[i + 1] <= Len(wire)
                 /\ Slice(input, P[i], P[i + 1]) = Slice(wire, P[i], P[i + 1])
      <3>1. P[i] = HeadOffset(fields, i) /\ P[i + 1] = HeadOffset(fields, i + 1)
        BY <1>5, <1>10
      <3>2. P[i] <= P[i + 1] /\ P[i + 1] <= FixedLen(fields) /\ P[i + 1] \in Nat
        BY <1>4, <1>5, <3>1
      <3>3. Slice(input, P[i], P[i + 1]) = Slice(wire, P[i], P[i + 1])
        BY <1>3, <1>4, <1>9, <3>1 DEF HeadBytes, HeadWritten
      <3> QED BY <1>4, <1>5, <1>7, <1>8, <3>2, <3>3
    <2>4. PartsAlike(input, wire, L, P)
      BY <1>4, <1>10, <2>2, <2>3 DEF PartsAlike
    <2> QED BY <1>1, <1>4, <2>1, <2>4, AlikeInParts
  <1>12. Alike(input, wire, Len(wire))
    <2>1. Q[1] = FixedLen(fields) /\ Q[L + 1] = Len(wire)
      BY <1>3, <1>4, <1>5, <1>10
    <2>2. Alike(input, wire, Q[1])
      BY <1>11, <2>1
    <2>3. ASSUME NEW i \in 1 .. L
          PROVE  /\ Q[i] <= Q[i + 1] /\ Q[i + 1] <= Len(input) /\ Q[i + 1] <= Len(wire)
                 /\ Slice(input, Q[i], Q[i + 1]) = Slice(wire, Q[i], Q[i + 1])
      <3>1. Q[i] = TailStart(obj, i) /\ Q[i + 1] = TailStart(obj, i + 1)
        BY <1>5, <1>10
      <3>2. /\ Q[i] <= Q[i + 1] /\ Q[i + 1] <= Len(wire) /\ Q[i] \in Nat /\ Q[i + 1] \in Nat
        BY <1>3, <1>4, <1>5, <3>1
      <3>3. CASE i \in Tails(fields)
        <4>1. TailBytes(i) = Slice(input, Found(i), Found(i + 1))
          BY <1>1, <3>3, FoundFacts
        <4>2. Found(i) = Q[i] /\ Found(i + 1) = Q[i + 1]
          BY <1>2, <1>5, <3>1
        <4>3. Slice(wire, Q[i], Q[i + 1]) = EncodeTail(fields[i], obj[i])
          BY <1>3, <3>1, <3>3 DEF TailWritten, Tails
        <4> QED BY <1>1, <1>7, <3>2, <3>3, <4>1, <4>2, <4>3
      <3>4. CASE i \notin Tails(fields)
        <4>1. ~ InTail(fields[i]) /\ i \in DOMAIN fields
          BY <1>4, <3>4 DEF Tails
        <4>2. Q[i + 1] = Q[i]
          <5>1. TailStart(obj, i + 1) = TailStart(obj, i) + 0
            BY <1>4, <4>1
          <5>2. TailStart(obj, i) \in Nat
            BY <1>4, <1>5
          <5> QED BY <3>1, <5>1, <5>2
        <4>3. Slice(input, Q[i], Q[i]) = << >> /\ Slice(wire, Q[i], Q[i]) = << >>
          <5> DEFINE q == Q[i]
          <5>1. q \in Nat /\ CanSlice(input, q, q) /\ CanSlice(wire, q, q) /\ q - q = 0
            BY <1>7, <3>2, <4>2 DEF CanSlice
          <5> HIDE DEF q
          <5>2. /\ Slice(input, q, q) \in Seq(Byte) /\ Len(Slice(input, q, q)) = 0
                /\ Slice(wire, q, q) \in Seq(Byte) /\ Len(Slice(wire, q, q)) = 0
            BY <1>1, <5>1, SliceBytes
          <5>3. \A z \in Seq(Byte) : Len(z) = 0 => z = << >>
            OBVIOUS
          <5> QED BY <5>2, <5>3 DEF q
        <4> QED BY <1>7, <3>2, <4>2, <4>3
      <3> QED BY <3>3, <3>4
    <2>4. \A i \in 1 .. L + 1 : Q[i] \in Nat
      BY <1>4, <1>10
    <2>5. PartsAlike(input, wire, L, Q)
      BY <2>2, <2>3, <2>4 DEF PartsAlike
    <2> QED BY <1>1, <1>4, <2>1, <2>5, AlikeInParts
  <1> QED BY <1>1, <1>7, <1>12, SameElements DEF Alike

(* Bytes that UnmarshalSSZ accepts into a new object, and that marshalling *)
(* would not write for it, differ from what it would write by one of the   *)
(* freedoms alone: whatever the struct type, the object and the bytes.     *)
THEOREM OneObjectOneEncoding == Spec => []OneEncoding
  <1>1. IInv /\ TypedInv /\ WrittenInv /\ RecodedInv => OneEncoding
    <2> SUFFICES ASSUME IInv, TypedInv, WrittenInv, RecodedInv, Accepted, input # wire
                 PROVE  FALSE
      BY DEF OneEncoding, AlteredIsEqual, Accepted
    <2> QED BY AcceptedIsWritten
  <1> QED BY <1>1, Invariance, Typing, Writing, Recodes, PTL
===========================================================================
