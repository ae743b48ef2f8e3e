------------------------------- MODULE Codec ------------------------------
(***************************************************************************)
(* The generated SizeSSZ, MarshalSSZ, MarshalSSZTo and UnmarshalSSZ of one *)
(* object, as templates marshal.go, size.go and unmarshal.go write them,   *)
(* and ssz.MarshalSSZ and ssz.UnmarshalDynamic (encode.go), one action per *)
(* field or list item.                                                     *)
(*                                                                         *)
(* A caller holds an object and what it last marshalled, and makes up to   *)
(* MaxCalls calls.  UnmarshalSSZ is given bytes of Received(fields, wire), *)
(* and is called on a new object or on the one at hand.                    *)
(***************************************************************************)
EXTENDS Encoding

CONSTANTS
    Instances,        \* the objects a caller starts with: [fields, obj]
    Received(_, _),   \* what may arrive where given bytes were sent
    MaxCalls          \* bound on the calls

(* The fields the generator makes of a struct, by their tags, and the      *)
(* values a Go field of such a type has.                                   *)
Kinds == {"uint", "bool", "fixedBytes", "bytes", "bitlist", "list", "dynlist", "child"}
Fields == [kind : Kinds, size : Nat, max : Nat, each : Nat]
IsField(f) == /\ f.kind = "bool" => f.size = 1
              /\ f.kind = "list" => f.size # 0
HasType(f, v) ==
    CASE f.kind = "uint" -> v \in Seq(Byte) /\ Len(v) = f.size
      [] f.kind = "bool" -> v \in {<<0>>, <<1>>}
      [] f.kind \in {"fixedBytes", "bytes", "bitlist"} -> v \in Seq(Byte)
      [] f.kind \in {"list", "dynlist"} -> v \in Seq(Seq(Byte))
      [] f.kind = "child" -> v = << >> \/ (Len(v) = 1 /\ v \in Seq(Seq(Byte)))

ASSUME CallsAssumption == MaxCalls \in Nat

ASSUME InstancesAssumption ==
    \A x \in Instances :
        /\ x.fields \in Seq(Fields)
        /\ x.obj = [i \in DOMAIN x.fields |-> x.obj[i]]
        /\ \A i \in DOMAIN x.fields : /\ IsField(x.fields[i])
                                      /\ HasType(x.fields[i], x.obj[i])

VARIABLES
    fields,    \* the struct type: never changes
    obj,       \* the object
    wire,      \* what the last successful marshalling returned
    sent,      \* the object it was called on, as it was on return
    origin,    \* what obj is: the caller's, one being decoded into a new
               \* object, one so decoded, or one decoded into when used
    calls,     \* calls made
    call,      \* the call being made, or the last one
    phase,     \* where it is
    pc,        \* the field it is at
    out,       \* marshal: dst
    offset,    \* marshal: the offset the next variable field is given
    size,      \* what SizeSSZ returned
    input,     \* unmarshal: buf, called tail in the code
    offs,      \* unmarshal: the offsets read
    at,        \* unmarshal: how many variable fields have been begun
    items,     \* UnmarshalDynamic: [src, left, start, pos, indx]
    result     \* "none" while the call runs

caller  == <<fields, wire, sent, origin, calls, call>>
writing == <<out, offset, size>>
reading == <<input, offs, at, items>>
vars    == <<caller, obj, phase, pc, writing, reading, result>>

NoItems == [src |-> << >>, left |-> 0, start |-> 0, pos |-> 0, indx |-> 0]

Init ==
    /\ \E x \in Instances : fields = x.fields /\ obj = x.obj
    /\ wire = << >> /\ sent = << >> /\ origin = "caller"
    /\ calls = 0 /\ call = "none" /\ phase = "idle" /\ pc = 1
    /\ out = << >> /\ offset = 0 /\ size = 0
    /\ input = << >> /\ offs = << >> /\ at = 0 /\ items = NoItems
    /\ result = "ok"

Idle == phase = "idle" /\ result # "panic" /\ calls < MaxCalls

Begin(name, first) ==
    /\ Idle
    /\ calls' = calls + 1 /\ call' = name /\ phase' = first /\ pc' = 1

(* Nothing but the object outlives a call.                                 *)
ReadNothing == input' = << >> /\ offs' = << >> /\ at' = 0 /\ items' = NoItems
WriteNothing == out' = << >> /\ offset' = 0

Return(r)  == phase' = "idle" /\ result' = r
AtField(p) == phase = p /\ pc \in DOMAIN fields
AtTail(p)  == AtField(p) /\ InTail(fields[pc])
PastLast(p) == phase = p /\ pc \notin DOMAIN fields

---------------------------------------------------------------------------
(* SizeSSZ and MarshalSSZ                                                  *)

AllAllocated == [i \in DOMAIN obj |-> Allocated(fields[i], obj[i])]

CallSizeSSZ ==
    /\ Begin("SizeSSZ", "idle")
    /\ size' = SizeSSZ(fields, obj)
    /\ obj' = AllAllocated
    /\ result' = "ok"
    /\ WriteNothing /\ ReadNothing
    /\ UNCHANGED <<fields, wire, sent, origin>>

(* Variant: ssz.MarshalSSZ does not ask for the size.                      *)
MarshalSSZUnsized ==
    /\ Begin("MarshalSSZ", "head")
    /\ out' = << >> /\ offset' = FixedLen(fields)
    /\ result' = "none"
    /\ ReadNothing
    /\ UNCHANGED <<fields, wire, sent, origin, obj, size>>

(* ssz.MarshalSSZ makes room by SizeSSZ and calls MarshalSSZTo.            *)
CallMarshalSSZ ==
    /\ Begin("MarshalSSZ", "head")
    /\ size' = SizeSSZ(fields, obj)
    /\ obj' = AllAllocated
    /\ out' = << >> /\ offset' = FixedLen(fields)
    /\ result' = "none"
    /\ ReadNothing
    /\ UNCHANGED <<fields, wire, sent, origin>>

CallMarshalSSZTo ==
    /\ Begin("MarshalSSZTo", "head")
    /\ out' = << >> /\ offset' = FixedLen(fields)
    /\ result' = "none"
    /\ ReadNothing
    /\ UNCHANGED <<fields, wire, sent, origin, obj, size>>

MarshalFixed ==
    /\ AtField("head") /\ ~ InTail(fields[pc])
    /\ IF Invalid(fields[pc], obj[pc])
       THEN Return("error") /\ UNCHANGED <<out, pc>>
       ELSE /\ out' = out \o obj[pc] /\ pc' = pc + 1
            /\ UNCHANGED <<phase, result>>
    /\ UNCHANGED <<caller, obj, offset, size, reading>>

IsLastTail(k) == \A i \in Tails(fields) : i <= k

(* Variant: the offset is not advanced.                                    *)
MarshalOffsetStill ==
    /\ AtTail("head")
    /\ out' = out \o WriteOffset(offset)
    /\ pc' = pc + 1
    /\ UNCHANGED <<caller, obj, phase, offset, size, reading, result>>

(* The offset of the next variable field; the size template that computes  *)
(* it creates a nil child.  Nothing comes after the last one.              *)
MarshalOffset ==
    /\ AtTail("head")
    /\ out' = out \o WriteOffset(offset)
    /\ IF IsLastTail(pc) THEN UNCHANGED <<obj, offset>>
       ELSE /\ offset' = offset + TailSize(fields[pc], obj[pc])
            /\ obj' = [obj EXCEPT ![pc] = Allocated(fields[pc], @)]
    /\ pc' = pc + 1
    /\ UNCHANGED <<caller, phase, size, reading, result>>

EndMarshalHead ==
    /\ PastLast("head")
    /\ phase' = "tail" /\ pc' = 1
    /\ UNCHANGED <<caller, obj, writing, reading, result>>

(* A nil child has no method to call: dereferencing it panics.  A list of  *)
(* items reuses offset, which no later step reads.                         *)
MarshalTail ==
    /\ AtTail("tail")
    /\ IF fields[pc].kind = "child" /\ obj[pc] = << >>
       THEN Return("panic") /\ UNCHANGED <<out, pc>>
       ELSE IF Invalid(fields[pc], obj[pc])
       THEN Return("error") /\ UNCHANGED <<out, pc>>
       ELSE /\ out' = out \o EncodeTail(fields[pc], obj[pc]) /\ pc' = pc + 1
            /\ UNCHANGED <<phase, result>>
    /\ UNCHANGED <<caller, obj, offset, size, reading>>

EndMarshal ==
    /\ PastLast("tail")
    /\ Return("ok")
    /\ wire' = out /\ sent' = obj
    /\ UNCHANGED <<fields, origin, calls, call, obj, pc, writing, reading>>

(* for indx, i := range v.o { if !i.isFixed() {...} }, in both second loops *)
SkipFixed ==
    /\ AtField("tail") \/ AtField("dynamic")
    /\ ~ InTail(fields[pc])
    /\ pc' = pc + 1
    /\ UNCHANGED <<caller, obj, phase, writing, reading, result>>

---------------------------------------------------------------------------
(* UnmarshalSSZ                                                            *)

(* Variant: the length is only ever held against a minimum.                *)
UnmarshalAtLeast ==
    \E b \in Received(fields, wire) \cap Seq(Byte), fresh \in BOOLEAN :
        /\ Begin("UnmarshalSSZ", IF Len(b) < FixedLen(fields) THEN "idle" ELSE "fields")
        /\ result' = IF phase' = "idle" THEN "error" ELSE "none"
        /\ WriteNothing
        /\ input' = b /\ offs' = << >> /\ at' = 0 /\ items' = NoItems
        /\ origin' = IF fresh THEN "new" ELSE "used"
        /\ obj' = IF fresh THEN New(fields) ELSE obj
        /\ UNCHANGED <<fields, wire, sent, size>>

(* The length must be that of the fixed part, or at least that when there  *)
(* are variable fields.                                                    *)
CallUnmarshalSSZ ==
    \E b \in Received(fields, wire) \cap Seq(Byte), fresh \in BOOLEAN :
        /\ Begin("UnmarshalSSZ", IF \/ Len(b) < FixedLen(fields)
                                    \/ Tails(fields) = {} /\ Len(b) # FixedLen(fields)
                                 THEN "idle" ELSE "fields")
        /\ result' = IF phase' = "idle" THEN "error" ELSE "none"
        /\ WriteNothing
        /\ input' = b /\ offs' = << >> /\ at' = 0 /\ items' = NoItems
        /\ origin' = IF fresh THEN "new" ELSE "used"
        /\ obj' = IF fresh THEN New(fields) ELSE obj
        /\ UNCHANGED <<fields, wire, sent, size>>

(* What the fixed part holds for the field at hand.                        *)
FieldBytes == Slice(input, HeadOffset(fields, pc), HeadOffset(fields, pc + 1))

UnmarshalFixed ==
    /\ AtField("fields") /\ ~ InTail(fields[pc])
    /\ obj' = [obj EXCEPT ![pc] = DecodeFixed(fields[pc], @, FieldBytes)]
    /\ pc' = pc + 1
    /\ UNCHANGED <<caller, phase, writing, reading, result>>

(* Variant: an offset is not compared with the one before it.              *)
OffsetRefusedAlone(o) ==
    \/ o > Len(input)
    \/ offs = << >> /\ o < FixedLen(fields)

(* ErrOffset, and ErrInvalidVariableOffset for the first offset only.      *)
OffsetRefused(o) ==
    \/ o > Len(input)
    \/ offs # << >> /\ offs[Len(offs)] > o
    \/ offs = << >> /\ o < FixedLen(fields)

UnmarshalOffset ==
    /\ AtTail("fields")
    /\ IF OffsetRefused(ReadOffset(FieldBytes))
       THEN Return("error") /\ UNCHANGED <<offs, pc>>
       ELSE /\ offs' = Append(offs, ReadOffset(FieldBytes)) /\ pc' = pc + 1
            /\ UNCHANGED <<phase, result>>
    /\ UNCHANGED <<caller, obj, writing, input, at, items>>

(* Variant: the second loop counts from zero.                              *)
FieldsFromZero ==
    /\ PastLast("fields")
    /\ phase' = "dynamic" /\ pc' = 0
    /\ UNCHANGED <<caller, obj, writing, reading, result>>

(* All offsets are read before any variable field is decoded.              *)
EndUnmarshalFields ==
    /\ PastLast("fields")
    /\ phase' = "dynamic" /\ pc' = 1
    /\ UNCHANGED <<caller, obj, writing, reading, result>>

(* tail[o:next], or tail[o:] for the last variable field.                  *)
From == offs[at + 1]
To   == IF at + 1 = Len(offs) THEN Len(input) ELSE offs[at + 2]
Buf  == Slice(input, From, To)

(* The child a field refuses to decode has been created by then.           *)
UnmarshalTail ==
    /\ AtTail("dynamic") /\ fields[pc].kind # "dynlist"
    /\ at' = at + 1
    /\ IF ~ CanSlice(input, From, To)
       THEN Return("panic") /\ UNCHANGED <<obj, pc>>
       ELSE IF Refuses(fields[pc], Buf)
       THEN /\ Return("error")
            /\ obj' = [obj EXCEPT ![pc] = Allocated(fields[pc], @)]
            /\ UNCHANGED pc
       ELSE /\ obj' = [obj EXCEPT ![pc] = DecodeTail(fields[pc], @, Buf)]
            /\ pc' = pc + 1
            /\ UNCHANGED <<phase, result>>
    /\ UNCHANGED <<caller, writing, input, offs, items>>

(* DecodeDynamicLength, a new slice of that many elements, and the first   *)
(* offset of UnmarshalDynamic; no items, no further look at the bytes.     *)
BeginItems ==
    /\ AtTail("dynamic") /\ fields[pc].kind = "dynlist"
    /\ at' = at + 1
    /\ IF ~ CanSlice(input, From, To)
       THEN Return("panic") /\ UNCHANGED <<obj, pc, items>>
       ELSE IF LengthRefused(fields[pc], Buf)
       THEN Return("error") /\ UNCHANGED <<obj, pc, items>>
       ELSE LET num == DynamicLength(Buf) IN
            /\ obj' = [obj EXCEPT ![pc] = [i \in 1 .. num |-> NoBytes]]
            /\ IF num = 0
               THEN pc' = pc + 1 /\ UNCHANGED <<phase, items>>
               ELSE /\ items' = [src |-> Buf, left |-> num, start |-> ReadOffset(Buf),
                                 pos |-> 4, indx |-> 1]
                    /\ phase' = "items" /\ UNCHANGED pc
            /\ UNCHANGED result
    /\ UNCHANGED <<caller, writing, input, offs>>

(* Where the item ends: at the next offset, the last one with the bytes.   *)
ItemEnd == IF items.left = 1 THEN Len(items.src)
           ELSE ReadOffset(Slice(items.src, items.pos, items.pos + 4))

(* What UnmarshalDynamic refuses.                                          *)
ItemRefused ==
    \/ items.left # 1 /\ Len(items.src) - items.pos < 4
    \/ items.start > ItemEnd
    \/ ItemEnd > Len(items.src)

(* One round of UnmarshalDynamic, the callback included.                   *)
UnmarshalItem ==
    /\ phase = "items"
    /\ IF ItemRefused
       THEN Return("error") /\ UNCHANGED <<obj, pc, items>>
       ELSE IF ~ CanSlice(items.src, items.start, ItemEnd)
       THEN Return("panic") /\ UNCHANGED <<obj, pc, items>>
       ELSE IF ItemEnd - items.start > fields[pc].each
       THEN Return("error") /\ UNCHANGED <<obj, pc, items>>
       ELSE /\ obj' = [obj EXCEPT ![pc][items.indx] =
                          @ \o Slice(items.src, items.start, ItemEnd)]
            /\ IF items.left = 1
               THEN phase' = "dynamic" /\ pc' = pc + 1 /\ UNCHANGED items
               ELSE /\ items' = [items EXCEPT !.left = @ - 1, !.start = ItemEnd,
                                              !.pos = @ + 4, !.indx = @ + 1]
                    /\ UNCHANGED <<phase, pc>>
            /\ UNCHANGED result
    /\ UNCHANGED <<caller, writing, input, offs, at>>

EndUnmarshal ==
    /\ PastLast("dynamic")
    /\ Return("ok")
    /\ origin' = IF origin = "new" THEN "decoded" ELSE origin
    /\ UNCHANGED <<fields, wire, sent, calls, call, obj, pc, writing, reading>>

(* The caller is done, or the program has panicked.                        *)
Stop == phase = "idle" /\ ~ Idle /\ UNCHANGED vars

Next ==
    \/ CallSizeSSZ \/ CallMarshalSSZ \/ CallMarshalSSZTo
    \/ MarshalFixed \/ MarshalOffset \/ EndMarshalHead
    \/ MarshalTail \/ EndMarshal \/ SkipFixed
    \/ CallUnmarshalSSZ
    \/ UnmarshalFixed \/ UnmarshalOffset \/ EndUnmarshalFields
    \/ UnmarshalTail \/ BeginItems \/ UnmarshalItem \/ EndUnmarshal
    \/ Stop

Spec == Init /\ [][Next]_vars

---------------------------------------------------------------------------
(***************************************************************************)
(* What the generated methods promise.                                     *)
(***************************************************************************)
Calls == {"SizeSSZ", "MarshalSSZ", "MarshalSSZTo", "UnmarshalSSZ"}
Marshalling == call \in {"MarshalSSZ", "MarshalSSZTo"}

TypeOK ==
    /\ DOMAIN obj = DOMAIN fields
    /\ origin \in {"caller", "new", "decoded", "used"}
    /\ calls \in 0 .. MaxCalls
    /\ call \in Calls \cup {"none"}
    /\ phase \in {"idle", "head", "tail", "fields", "dynamic", "items"}
    /\ pc \in 1 .. Len(fields) + 1
    /\ offset \in Nat /\ size \in Nat
    /\ offs \in Seq(Nat)
    /\ at \in 0 .. Len(offs)
    /\ result \in {"none", "ok", "error", "panic"}

(* UnmarshalSSZ slices its input, and UnmarshalDynamic its own, only where *)
(* there is something to slice: whatever the bytes, it returns an error    *)
(* rather than panic.                                                      *)
UnmarshalNeverPanics == call = "UnmarshalSSZ" => result # "panic"

(* SizeSSZ, which ssz.MarshalSSZ calls first, creates every nil child, so  *)
(* MarshalSSZ never calls a method on a nil pointer.  MarshalSSZTo alone   *)
(* creates them only on the way to the next offset: where it panics, the   *)
(* struct's last variable field is a nil child.  This bounds the damage;   *)
(* that there is any is what MarshalFillsNilChildren is refuted by.        *)
PanicOnlyAtLastNilChild ==
    Marshalling /\ result = "panic" =>
        call = "MarshalSSZTo" /\ IsLastTail(pc) /\ obj[pc] = << >>

(* fuzz.go sets pointers to nil and counts on it that "marshal fills empty *)
(* values": no object with nil children makes marshalling panic.           *)
MarshalFillsNilChildren == Marshalling => result # "panic"

(* SizeSSZ and MarshalSSZTo are written by different templates: they agree *)
(* on the length, so that MarshalSSZ's buffer is exactly filled.           *)
SizeIsExact ==
    Marshalling /\ result = "ok" =>
        /\ Len(out) = SizeSSZ(fields, obj)
        /\ call = "MarshalSSZ" => Len(out) = size

(* Every bitlist has its length bit and no more bits than allowed.         *)
HasValidBitlists(o) ==
    \A i \in DOMAIN fields :
        fields[i].kind = "bitlist" => ValidateBitlist(o[i], fields[i].max)

DecodingSent == /\ call = "UnmarshalSSZ"
                /\ sent # << >> /\ input = wire
                /\ origin \in {"new", "decoded"}

(* What was marshalled is accepted and gives back the object, whether the  *)
(* object was the caller's or was itself decoded from other bytes.         *)
RoundTrip ==
    DecodingSent /\ HasValidBitlists(sent) =>
        result \in {"none", "ok"} /\ (result = "ok" => obj = sent)

(* Whatever UnmarshalSSZ accepted into a new object, canonical or not, can *)
(* be marshalled: its checks are no weaker than validate.go's.             *)
DecodedIsEncodable ==
    origin = "decoded" /\ Marshalling => result \in {"none", "ok"}

(* What UnmarshalSSZ may keep of an object that was used before is at the  *)
(* front of its byte slices, the child's included, which it appends to; a  *)
(* list's elements, a dynlist's items and the rest are those described.    *)
KeepsOnlyBytes ==
    call = "UnmarshalSSZ" /\ sent # << >> /\ input = wire /\ result = "ok" =>
        \A i \in DOMAIN fields :
            CASE fields[i].kind \in {"fixedBytes", "bytes", "bitlist"} ->
                     IsSuffix(sent[i], obj[i])
              [] fields[i].kind = "child" -> IsSuffix(sent[i][1], obj[i][1])
              [] OTHER -> obj[i] = sent[i]

(* The bytes that variable field i was decoded from.                       *)
TailBytes(i) ==
    LET n == Cardinality({k \in Tails(fields) : k <= i})
    IN  Slice(input, offs[n], IF n = Len(offs) THEN Len(input) ELSE offs[n + 1])

(* The freedoms of the encoding: the byte of a false bool, a gap before    *)
(* the first variable field, of the struct or of the child, and what       *)
(* follows a first offset of zero in an empty dynlist.                     *)
HasFreedom ==
    \/ \E i \in DOMAIN fields :
          fields[i].kind = "bool" /\ input[HeadOffset(fields, i) + 1] > 1
    \/ offs # << >> /\ offs[1] > FixedLen(fields)
    \/ \E i \in Tails(fields) :
          \/ fields[i].kind = "child" /\ ReadOffset(TailBytes(i)) > 4
          \/ fields[i].kind = "dynlist" /\ obj[i] = << >> /\ TailBytes(i) # << >>
AlteredIsEqual ==
    /\ origin = "decoded" /\ call = "UnmarshalSSZ" /\ result = "ok"
    /\ sent # << >> /\ input # wire /\ obj = sent

(* An object has one encoding but for these: other bytes decode to it only *)
(* where they use a freedom.                                               *)
OneEncoding == AlteredIsEqual => HasFreedom

(* Bytes put in among those of the last encoding, and bytes written over   *)
(* up to three of them, the first excepted.                                *)
Inserted ==
    \E i \in 0 .. Len(wire) - 1, n \in 1 .. 19 :
        /\ Len(input) = Len(wire) + n
        /\ input = SubSeq(wire, 1, i) \o SubSeq(input, i + 1, i + n) \o SubSeq(wire, i + 1, Len(wire))
Overwritten ==
    /\ Len(input) = Len(wire)
    /\ \E p \in 2 .. Len(wire) : \A i \in DOMAIN wire : input[i] # wire[i] => i \in p .. p + 2

(* spectests/structs_fuzz_test.go knows of no freedom: what was put in     *)
(* (TestFuzzUnmarshalAppend) or written over (TestFuzzUnmarshalShuffle) is *)
(* refused or decodes to another object.                                   *)
AlterationIsNoticed == AlteredIsEqual => ~ Inserted /\ ~ Overwritten
===========================================================================
