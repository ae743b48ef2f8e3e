----------------------------- MODULE Encoding -----------------------------
(***************************************************************************)
(* What generated MarshalSSZTo, SizeSSZ and UnmarshalSSZ do with a single  *)
(* field: the helpers of encode.go and the per-type templates of           *)
(* sszgen/generator.                                                       *)
(*                                                                         *)
(* A struct type is a sequence of fields.  A field is a record of its kind *)
(* and of the numbers the ssz tags give it: "size" in bytes (of the field, *)
(* or of a list's element), the maximum "max", and "each", the maximum of  *)
(* an element or of the child's bytes.  The kinds are                      *)
(*   uint, bool          overwritten when decoded                          *)
(*   fixedBytes          []byte with ssz-size                              *)
(*   bytes, bitlist      []byte with ssz-max                               *)
(*   list                a slice of elements of fixed size                 *)
(*   dynlist             [][]byte with ssz-max on both dimensions          *)
(*   child               a pointer to a struct of one []byte               *)
(* A pointer is << >> when nil and <<contents>> otherwise.                 *)
(***************************************************************************)
EXTENDS Integers, Sequences, FiniteSets, SequencesExt, Sums

Byte == 0 .. 255
NoBytes == << >>

InTail(f) == f.kind \notin {"uint", "bool", "fixedBytes"}

(* What the field takes in the fixed part: itself, or a 4-byte offset.     *)
Width(f) == IF InTail(f) THEN 4 ELSE f.size

(* The position of field k in the fixed part, and the fixed part's length. *)
HeadOffset(fs, k) == SumUpTo([i \in DOMAIN fs |-> Width(fs[i])], k - 1)
FixedLen(fs)      == HeadOffset(fs, Len(fs) + 1)

Tails(fs) == {i \in DOMAIN fs : InTail(fs[i])}

(* Little endian, four bytes.                                              *)
WriteOffset(n) == <<n % 256, (n \div 256) % 256, (n \div 65536) % 256, (n \div 16777216) % 256>>
ReadOffset(b)  == b[1] + 256 * b[2] + 65536 * b[3] + 16777216 * b[4]

(* s[from:to]; Go panics unless from <= to <= len(s).                      *)
CanSlice(s, from, to) == from <= to /\ to <= Len(s)
Slice(s, from, to)    == SubSeq(s, from + 1, to)

(* new(T)                                                                  *)
Zero(f) == CASE f.kind \in {"uint", "bool"} -> [i \in 1 .. f.size |-> 0]
             [] OTHER -> << >>
New(fs) == [i \in DOMAIN fs |-> Zero(fs[i])]

---------------------------------------------------------------------------
(* Encoding                                                                *)

(* SizeSSZ and the offset computation go through the same template.  A nil *)
(* child is replaced by a new one on the way, whose bytes are empty.       *)
Allocated(f, v) == IF f.kind = "child" /\ v = << >> THEN <<NoBytes>> ELSE v

(* Variant: the offsets of the items are not counted.                      *)
TailSizeItemsOnly(f, v) ==
    CASE f.kind \in {"bytes", "bitlist"} -> Len(v)
      [] f.kind = "list"    -> Len(v) * f.size
      [] f.kind = "dynlist" -> Len(FlattenSeq(v))
      [] f.kind = "child"   -> 4 + Len(Allocated(f, v)[1])

(* The bytes the size template counts for a variable field.                *)
TailSize(f, v) ==
    CASE f.kind \in {"bytes", "bitlist"} -> Len(v)
      [] f.kind = "list"    -> Len(v) * f.size
      [] f.kind = "dynlist" -> 4 * Len(v) + Len(FlattenSeq(v))
      [] f.kind = "child"   -> 4 + Len(Allocated(f, v)[1])

(* What the variable fields before field k take.                           *)
TailSum(fs, o, k) ==
    SumUpTo([i \in DOMAIN fs |-> IF InTail(fs[i]) THEN TailSize(fs[i], o[i]) ELSE 0], k - 1)

SizeSSZ(fs, o) == FixedLen(fs) + TailSum(fs, o, Len(fs) + 1)

(* The checks of validate.go on the way of marshalling.  A bitlist's bytes *)
(* are held against its maximum number of bits.                            *)
Invalid(f, v) ==
    CASE f.kind = "fixedBytes" -> Len(v) # f.size
      [] f.kind \in {"bytes", "bitlist"} -> Len(v) > f.max
      [] f.kind = "list"    -> Len(v) > f.max \/ \E i \in DOMAIN v : Len(v[i]) # f.size
      [] f.kind = "dynlist" -> Len(v) > f.max \/ \E i \in DOMAIN v : Len(v[i]) > f.each
      [] f.kind = "child"   -> Len(v[1]) > f.each
      [] OTHER -> FALSE

(* Each item's offset, from 4 * len(items) on, then the items.             *)
EncodeItems(v) ==
    FlattenSeq([i \in DOMAIN v |->
                  WriteOffset(4 * Len(v) + Len(FlattenSeq(SubSeq(v, 1, i - 1))))])
      \o FlattenSeq(v)

EncodeTail(f, v) ==
    CASE f.kind \in {"bytes", "bitlist"} -> v
      [] f.kind = "list"    -> FlattenSeq(v)
      [] f.kind = "dynlist" -> EncodeItems(v)
      [] f.kind = "child"   -> WriteOffset(4) \o v[1]

---------------------------------------------------------------------------
(* Decoding                                                                *)

(* bits.Len8                                                               *)
Len8(x) == CHOOSE m \in 0 .. 8 : x < 2^m /\ (m > 0 => x >= 2^(m - 1))

(* The most significant bit of the last byte marks the length.             *)
ValidateBitlist(b, bitLimit) ==
    /\ b # << >>
    /\ Len(b) <= bitLimit \div 8 + 1
    /\ b[Len(b)] # 0
    /\ 8 * (Len(b) - 1) + Len8(b[Len(b)]) - 1 <= bitLimit

(* A bool is true for 1 and false for anything else; bytes are appended to *)
(* what the field holds already.                                           *)
DecodeFixed(f, old, b) ==
    CASE f.kind = "uint" -> b
      [] f.kind = "bool" -> IF b[1] = 1 THEN <<1>> ELSE <<0>>
      [] f.kind = "fixedBytes" -> old \o b

(* UnmarshalSSZ of the child: its size, its only offset, its bytes.        *)
ChildRefuses(f, b) ==
    \/ Len(b) < 4
    \/ ReadOffset(b) > Len(b)
    \/ ReadOffset(b) < 4
    \/ Len(b) - ReadOffset(b) > f.each

(* Variant: the length of variable bytes is not validated.                 *)
RefusesNoBytes(f, b) ==
    CASE f.kind = "bytes"   -> FALSE
      [] f.kind = "bitlist" -> ~ ValidateBitlist(b, f.max)
      [] f.kind = "list"    -> Len(b) % f.size # 0 \/ Len(b) \div f.size > f.max
      [] f.kind = "child"   -> ChildRefuses(f, b)

(* What the checks ahead of a variable field's decoding refuse.            *)
Refuses(f, b) ==
    CASE f.kind = "bytes"   -> Len(b) > f.max
      [] f.kind = "bitlist" -> ~ ValidateBitlist(b, f.max)
      [] f.kind = "list"    -> Len(b) % f.size # 0 \/ Len(b) \div f.size > f.max
      [] f.kind = "child"   -> ChildRefuses(f, b)

(* Variant: the elements of a list are appended, too.                      *)
DecodeTailAppending(f, old, b) ==
    CASE f.kind \in {"bytes", "bitlist"} -> old \o b
      [] f.kind = "list"  -> old \o [k \in 1 .. Len(b) \div f.size |->
                                        Slice(b, (k - 1) * f.size, k * f.size)]
      [] f.kind = "child" -> <<Allocated(f, old)[1] \o Slice(b, ReadOffset(b), Len(b))>>

(* Bytes are appended, list elements replaced, a nil child is created.     *)
DecodeTail(f, old, b) ==
    CASE f.kind \in {"bytes", "bitlist"} -> old \o b
      [] f.kind = "list"  -> [k \in 1 .. Len(b) \div f.size |->
                                 Slice(b, (k - 1) * f.size, k * f.size)]
      [] f.kind = "child" -> <<Allocated(f, old)[1] \o Slice(b, ReadOffset(b), Len(b))>>

(* DecodeDynamicLength: how many items the first offset announces.         *)
LengthRefused(f, b) ==
    /\ b # << >>
    /\ \/ Len(b) < 4
       \/ ReadOffset(b) % 4 # 0
       \/ ReadOffset(b) \div 4 > f.max
DynamicLength(b) == IF b = << >> THEN 0 ELSE ReadOffset(b) \div 4
===========================================================================
