------------------------------- MODULE Layout -----------------------------
(***************************************************************************)
(* The generated methods of whole objects, containers within containers:   *)
(* SizeSSZ, MarshalSSZ, MarshalSSZTo, UnmarshalSSZ and HashTreeRoot.       *)
(* Module Codec looks at the bytes of a flat struct; here a call is one    *)
(* step and what matters is where everything lies, what is checked on the  *)
(* way and which nil children are created.                                 *)
(*                                                                         *)
(* The methods of a type are made from those of its parts, as the          *)
(* generator's templates nest.                                             *)
(***************************************************************************)
EXTENDS SSZTypes, FiniteSets

CONSTANTS
    Types,            \* the types, with the types of their parts
    TypeOf,           \* those a caller has objects of, by name
    Instances,        \* the objects a caller starts with: [type, obj]
    Received(_, _),   \* what may arrive where an encoding was sent
    Junk,             \* what bytes that are no offset may read as
    MaxUint32,        \* the greatest number an offset can be
    MaxCalls          \* bound on the calls

TypeRecords ==
    [t : Kinds, fix : BOOLEAN, size : Nat, max : Nat, unit : Nat, checked : BOOLEAN,
     ptr : BOOLEAN, parts : Seq(Types), heads : Seq(Nat), deep : Nat]

ASSUME TypesAssumption ==
    \A t \in Types :
        /\ t \in TypeRecords /\ WellFormed(t)
        /\ \A i \in DOMAIN t.parts : t.parts[i].deep < t.deep

ASSUME CallerAssumption ==
    /\ \A n \in DOMAIN TypeOf : TypeOf[n] \in Types /\ TypeOf[n].t = "struct"
    /\ \A x \in Instances : x.type \in DOMAIN TypeOf
    /\ Junk \subseteq Nat
    /\ MaxUint32 \in Nat

(* The type of a member, and its methods p among those of the parts.       *)
Part(t, i)  == t.parts[IF t.t = "struct" THEN i ELSE 1]
Of(t, p, i) == p[IF t.t = "struct" THEN i ELSE 1]

---------------------------------------------------------------------------
(***************************************************************************)
(* An object is [n, ok, of].                                               *)
(*   a vector or list   n is its length, ok whether every element has the  *)
(*                      length it must have                                *)
(*   a bitlist          n is its number of bits, -1 when there is no byte; *)
(*                      its highest bit is set                             *)
(*   a seq or struct    of are its items or fields, n is 1                 *)
(*   a nil pointer      n is 0                                             *)
(***************************************************************************)
Plain(n) == [n |-> n, ok |-> TRUE, of |-> << >>]
Made(of) == [n |-> 1, ok |-> TRUE, of |-> of]
Nil      == Plain(0)

(* Objects of d levels.                                                    *)
Objects[d \in Nat] ==
    [n : Int, ok : BOOLEAN, of : IF d = 0 THEN {<< >>} ELSE Seq(Objects[d - 1])]

Holds(t, p, v) ==
    /\ DOMAIN v.of = DOMAIN t.parts \/ t.t = "seq"
    /\ v.n = 1 /\ v.ok /\ \A i \in DOMAIN v.of : v.of[i] \in Of(t, p, i).values

Values(t, p) ==
    {v \in Objects[t.deep] :
        CASE t.t = "basic"             -> v = Plain(0)
          [] t.t \in {"vector", "list"} -> v.n >= 0 /\ v.of = << >>
          [] t.t = "bitlist"           -> v.n >= -1 /\ v.ok /\ v.of = << >>
          [] t.t = "seq"               -> Holds(t, p, v)
          [] t.t = "struct"            -> (t.ptr /\ v = Nil) \/ Holds(t, p, v)}

New(p) == Made([i \in DOMAIN p |-> p[i].zero])
Zero(t, p) == CASE t.t = "bitlist" -> Plain(-1)
                [] t.t = "seq"     -> Made(<< >>)
                [] t.t = "struct"  -> IF t.ptr THEN Nil ELSE New(p)
                [] OTHER           -> Plain(0)

(* if v == nil { v = new(T) }                                              *)
OrNew(t, p, v) == IF t.t = "struct" /\ v = Nil THEN New(p) ELSE v

(* What a member's methods are called on: containers create nil children   *)
(* first, the loops over items do not.                                     *)
Child(t, p, v, i) == IF t.t = "struct" THEN Of(t, p, i).OrNew[v.of[i]] ELSE v.of[i]

---------------------------------------------------------------------------
(* The steps of a loop, one for each member, end with the first that is    *)
(* not ok; the members it has come to are then as the steps left them.     *)
Least(S)      == CHOOSE i \in S : \A j \in S : i <= j
Stops(r)      == {i \in DOMAIN r : r[i].res # "ok"}
Outcome(r)    == IF Stops(r) = {} THEN "ok" ELSE r[Least(Stops(r))].res
Reached(r, i) == \A j \in Stops(r) : i <= j
After(r, of)  == [i \in DOMAIN of |-> IF Reached(r, i) THEN r[i].v ELSE of[i]]

(* The literal that a container's methods start from; n items.             *)
FixedSize(t, n) == IF t.t = "struct" THEN t.size ELSE n * Width(t.parts[1])

(* Where member i or its offset lies.                                      *)
HeadPos(t, i) ==
    IF t.t = "struct" THEN t.heads[i] ELSE (i - 1) * Width(t.parts[1])

(* What is not of fixed size, summed over the members before i.            *)
TailSum(t, sizes, i) ==
    SumUpTo([j \in DOMAIN sizes |-> IF Part(t, j).fix THEN 0 ELSE sizes[j]], i - 1)

---------------------------------------------------------------------------
(* SizeSSZ                                                                 *)
BitBytes(bits) == IF bits = -1 THEN 0 ELSE bits \div 8 + 1

Sized(v, size) == [res |-> "ok", v |-> v, size |-> size]

(* Nil children of variable size are created on the way, not elements of   *)
(* a list: their method is called on nil.                                  *)
MemberSizes(t, p, v) ==
    [i \in DOMAIN v.of |-> IF Part(t, i).fix THEN Sized(v.of[i], 0)
                           ELSE Of(t, p, i).SizeSSZ[Child(t, p, v, i)]]

SizeSSZ(t, p, v) ==
    LET r == MemberSizes(t, p, v) IN
    CASE t.fix            -> Sized(v, t.size)
      [] t.t = "list"     -> Sized(v, v.n * t.unit)
      [] t.t = "bitlist"  -> Sized(v, BitBytes(v.n))
      [] t.t = "seq" \/ (t.t = "struct" /\ ~ t.fix /\ v # Nil) ->
           [res |-> Outcome(r), v |-> Made(After(r, v.of)),
            size |-> FixedSize(t, Len(r))
                       + TailSum(t, [i \in DOMAIN r |-> r[i].size], Len(r) + 1)]
      [] t.t = "struct" /\ ~ t.fix /\ v = Nil -> [res |-> "panic", v |-> v, size |-> 0]

---------------------------------------------------------------------------
(***************************************************************************)
(* The pieces of an encoding: the values without parts, the offsets, and   *)
(* the gap that a first offset can make.  An offset says where it leads, a *)
(* bitlist which bit of its last byte ends it (-1: that byte is zero).     *)
(***************************************************************************)
Piece(path, from, to, kind, says) ==
    [path |-> path, from |-> from, to |-> to, kind |-> kind, says |-> says]
Alone(t, len, says) ==
    {Piece(<< >>, 0, len, IF t.t = "bitlist" THEN "bits" ELSE "bytes", says)}

(* Piece x of member i, which begins at start.                             *)
Moved(x, i, start) == Piece(<<i>> \o x.path, x.from + start, x.to + start, x.kind, x.says)

(* The members r, those of variable size beginning at starts.              *)
Begin(t, i, starts) == IF Part(t, i).fix THEN HeadPos(t, i) ELSE starts[i]
Pieces(t, r, starts, offsets) ==
    (UNION {{Moved(x, i, Begin(t, i, starts)) : x \in r[i].at} : i \in DOMAIN r})
    \cup {Piece(<<i>>, HeadPos(t, i), HeadPos(t, i) + 4, "offset", offsets[i])
             : i \in {j \in DOMAIN r : ~ Part(t, j).fix}}
    \cup {x \in {Piece(<< >>, HeadPos(t, Len(r) + 1), starts[1], "gap", 0)} : x.from < x.to}

---------------------------------------------------------------------------
(* MarshalSSZTo                                                            *)
Wrote(t, v, len, says) == [res |-> "ok", v |-> v, len |-> len, at |-> Alone(t, len, says)]
Fails(res, v) == [res |-> res, v |-> v, len |-> 0, at |-> {}]

(* Variant: a vector's length is not validated.                            *)
InvalidButVector(t, v) ==
    CASE t.t = "list"    -> v.n > t.max \/ ~ v.ok
      [] t.t = "bitlist" -> BitBytes(v.n) > t.max
      [] t.t = "seq"     -> Len(v.of) > t.max
      [] OTHER -> FALSE

(* validate.go, the elements' lengths included.  A bitlist's bytes are     *)
(* held against its maximum number of bits.                                *)
Invalid(t, v) ==
    CASE t.t = "vector"  -> v.n # t.max \/ ~ v.ok
      [] t.t = "list"    -> v.n > t.max \/ ~ v.ok
      [] t.t = "bitlist" -> BitBytes(v.n) > t.max
      [] t.t = "seq"     -> Len(v.of) > t.max
      [] OTHER -> FALSE

LastTail(t, i) == \A j \in i + 1 .. Len(t.parts) : t.parts[j].fix

(* The first loop writes the members of fixed size and the offsets of the  *)
(* others.  The size that an offset is advanced by is that of the member,  *)
(* whose nil children it creates; after a container's last offset nothing  *)
(* is added.                                                               *)
Heads(t, p, v) ==
    [i \in DOMAIN v.of |->
        IF Part(t, i).fix THEN Of(t, p, i).MarshalSSZTo[Child(t, p, v, i)]
        ELSE IF t.t = "struct" /\ LastTail(t, i) THEN Sized(v.of[i], 0)
        ELSE Of(t, p, i).SizeSSZ[Child(t, p, v, i)]]

(* The second loop writes the others, as the first has left them in of.    *)
Tails(t, p, h, of) ==
    [i \in DOMAIN of |-> IF Part(t, i).fix THEN h[i] ELSE Of(t, p, i).MarshalSSZTo[of[i]]]

(* Variant: the offsets themselves are not counted.                        *)
ItemsFromZero(t, n) == IF t.t = "struct" THEN t.size ELSE 0

(* Tails come after the fixed part, items of variable size after their     *)
(* offsets.                                                                *)
FirstOffset(t, n) == IF t.t = "struct" THEN t.size ELSE 4 * n

Encode(t, p, v) ==
    LET h  == Heads(t, p, v)
        of == After(h, v.of)
        r  == Tails(t, p, h, of)
        n  == Len(v.of)
        starts  == [i \in 1 .. n + 1 |-> HeadPos(t, n + 1)
                       + TailSum(t, [j \in 1 .. n |-> r[j].len], i)]
        offsets == [i \in 1 .. n |-> FirstOffset(t, n)
                       + TailSum(t, [j \in 1 .. n |-> IF Part(t, j).fix THEN 0 ELSE h[j].size], i)]
    IN  IF Outcome(h) # "ok" THEN Fails(Outcome(h), Made(of))
        ELSE IF Outcome(r) # "ok" THEN Fails(Outcome(r), Made(After(r, of)))
        ELSE [res |-> "ok", v |-> Made(After(r, of)), len |-> starts[n + 1],
              at |-> Pieces(t, r, starts, offsets)]

MarshalSSZTo(t, p, v) ==
    IF Invalid(t, v) THEN Fails("error", v)
    ELSE CASE t.t \in {"basic", "vector"} -> Wrote(t, v, t.size, 0)
           [] t.t = "list"    -> Wrote(t, v, v.n * t.unit, 0)
           [] t.t = "bitlist" -> Wrote(t, v, BitBytes(v.n), v.n % 8)
           [] t.t = "seq"     -> Encode(t, p, v)
           [] t.t = "struct"  -> IF v = Nil THEN Fails("panic", v) ELSE Encode(t, p, v)

---------------------------------------------------------------------------
(* HashTreeRootWith                                                        *)
HashRefuses(t, v) ==
    CASE t.t = "vector"  -> v.n # t.max \/ ~ v.ok
      [] t.t = "list"    -> v.n > t.max \/ ~ v.ok
      [] t.t = "bitlist" -> v.n = -1
      [] t.t = "seq"     -> Len(v.of) > t.max
      [] OTHER -> FALSE

Chunks(bits) == (bits + 255) \div 256

(* The members in their order: a container creates a nil child of fixed    *)
(* size, any other nil is called.                                          *)
MemberRoots(t, p, v) ==
    [i \in DOMAIN v.of |->
        Of(t, p, i).HashTreeRoot[IF Part(t, i).fix THEN Child(t, p, v, i) ELSE v.of[i]]]

(* Nothing but merkleization, which panics, holds a bitlist against its    *)
(* maximum.                                                                *)
HashTreeRoot(t, p, v) ==
    LET r == MemberRoots(t, p, v)
        hashed(res) == [res |-> res, v |-> v]
    IN  IF HashRefuses(t, v) THEN hashed("error")
        ELSE CASE t.t = "bitlist" -> hashed(IF Chunks(v.n) > Chunks(t.max) THEN "panic" ELSE "ok")
               [] t.t = "seq" \/ (t.t = "struct" /\ v # Nil) ->
                    [res |-> Outcome(r), v |-> Made(After(r, v.of))]
               [] t.t = "struct" /\ v = Nil -> hashed("panic")
               [] OTHER -> hashed("ok")

---------------------------------------------------------------------------
(* UnmarshalSSZ into a new object                                          *)

(* What bytes say to the decoder: the offsets and the ends of bitlists,    *)
(* <<position, value>>, and junk for all that was written as something     *)
(* else.  A slice is its bytes from .. to - 1.  Nothing checks that what   *)
(* is written is short enough for offsets of four bytes: an encoding that  *)
(* is too long for its offsets is no wire, and is never decoded.           *)
Wires  == [len : Nat, offs : SUBSET (Nat \X (0 .. MaxUint32)),
           ends : SUBSET (Nat \X (-1 .. 7)), junk : Nat]
Slices == [wire : Wires, from : Nat, to : Nat]

Length(b) == b.to - b.from
Sub(b, from, to) == [wire |-> b.wire, from |-> b.from + from, to |-> b.from + to]

At(says, pos, else) == LET here == {x \in says : x[1] = pos}
                       IN  IF here = {} THEN else ELSE (CHOOSE x \in here : TRUE)[2]
ReadOffset(b, pos) == At(b.wire.offs, b.from + pos, b.wire.junk)
EndBit(b)          == At(b.wire.ends, b.to, b.wire.junk % 8)

Decoded(v, at) == [res |-> "ok", v |-> v, at |-> at, gap |-> 0]
Fault(res)     == [res |-> res, v |-> Nil, at |-> {}, gap |-> 0]

(* Variant: the bits of a bitlist are not counted.                         *)
ValidBytes(max, len, bit) == len > 0 /\ len <= max \div 8 + 1 /\ bit # -1

ValidateBitlist(max, len, bit) ==
    /\ len > 0
    /\ len <= max \div 8 + 1
    /\ bit # -1
    /\ 8 * (len - 1) + bit <= max

(* DivideInt2                                                              *)
Divides(len, unit, max) == len % unit = 0 /\ len \div unit <= max

(* DecodeDynamicLength                                                     *)
LengthRefused(b, max) ==
    /\ Length(b) > 0
    /\ \/ Length(b) < 4
       \/ ReadOffset(b, 0) % 4 # 0
       \/ ReadOffset(b, 0) \div 4 > max

BytesRefused(t, b) ==
    CASE t.t = "struct" -> Length(b) < t.size \/ (t.fix /\ Length(b) # t.size)
      [] t.t = "seq" /\ t.parts[1].fix   -> ~ Divides(Length(b), t.parts[1].size, t.max)
      [] t.t = "seq" /\ ~ t.parts[1].fix -> LengthRefused(b, t.max)

NumMembers(t, b) ==
    CASE t.t = "struct" -> Len(t.parts)
      [] t.t = "seq" /\ t.parts[1].fix   -> Length(b) \div t.parts[1].size
      [] t.t = "seq" /\ ~ t.parts[1].fix -> IF Length(b) = 0 THEN 0 ELSE ReadOffset(b, 0) \div 4

(* The offset of the first member of variable size among i .. n: where the *)
(* one before it ends.                                                     *)
StartOf(t, b, n, i) ==
    LET tails == {j \in i .. n : ~ Part(t, j).fix}
    IN  IF tails = {} THEN Length(b) ELSE ReadOffset(b, HeadPos(t, Least(tails)))

(* Variant: offsets may descend.                                           *)
OffsetWithinInput(t, b, i) ==
    LET o == ReadOffset(b, HeadPos(t, i))
    IN  \/ o > Length(b)
        \/ (\A j \in 1 .. i - 1 : t.parts[j].fix) /\ o < t.size

(* ErrOffset, and ErrInvalidVariableOffset for the first offset.           *)
OffsetRefused(t, b, i) ==
    LET o == ReadOffset(b, HeadPos(t, i))
    IN  \/ o > Length(b)
        \/ \E j \in 1 .. i - 1 : /\ ~ t.parts[j].fix /\ \A k \in j + 1 .. i - 1 : t.parts[k].fix
                                 /\ ReadOffset(b, HeadPos(t, j)) > o
        \/ (\A j \in 1 .. i - 1 : t.parts[j].fix) /\ o < t.size

(* UnmarshalDynamic: an item ends where the next one starts, the last with *)
(* the bytes.                                                              *)
ItemRefused(b, n, i, start, end) ==
    (i < n /\ Length(b) - 4 * i < 4) \/ start > end \/ end > Length(b)

(* The members of fixed size, and the offsets of a container's others.     *)
ReadHeads(t, p, b, n) ==
    [i \in 1 .. n |->
        IF Part(t, i).fix
        THEN Of(t, p, i).UnmarshalSSZ[Sub(b, HeadPos(t, i), HeadPos(t, i) + Part(t, i).size)]
        ELSE IF t.t = "struct" /\ OffsetRefused(t, b, i) THEN Fault("error")
        ELSE Decoded(Nil, {})]

(* The others.  A slice with its bounds out of order or range panics.      *)
ReadTails(t, p, b, h, starts) ==
    [i \in DOMAIN h |->
        IF Part(t, i).fix THEN h[i]
        ELSE IF t.t = "seq" /\ ItemRefused(b, Len(h), i, starts[i], starts[i + 1])
        THEN Fault("error")
        ELSE IF starts[i] > starts[i + 1] \/ starts[i + 1] > Length(b) THEN Fault("panic")
        ELSE Of(t, p, i).UnmarshalSSZ[Sub(b, starts[i], starts[i + 1])]]

Decode(t, p, b) ==
    LET n == NumMembers(t, b)
        starts == [i \in 1 .. n + 1 |-> StartOf(t, b, n, i)]
        h == ReadHeads(t, p, b, n)
        r == ReadTails(t, p, b, h, starts)
    IN  IF Outcome(h) # "ok" THEN Fault(Outcome(h))
        ELSE IF Outcome(r) # "ok" THEN Fault(Outcome(r))
        ELSE [res |-> "ok", v |-> Made([i \in 1 .. n |-> r[i].v]),
              at |-> Pieces(t, r, starts, [i \in 1 .. n |-> ReadOffset(b, HeadPos(t, i))]),
              gap |-> (starts[1] - FixedSize(t, n)) + SumUpTo([i \in 1 .. n |-> r[i].gap], n)]

UnmarshalSSZ(t, p, b) ==
    LET len == Length(b)
        bit == EndBit(b)
    IN  CASE t.t = "basic"   -> Decoded(Plain(0), Alone(t, len, 0))
          [] t.t = "vector"  -> Decoded(Plain(t.max), Alone(t, len, 0))
          [] t.t = "list"    -> IF Divides(len, t.unit, t.max)
                                THEN Decoded(Plain(len \div t.unit), Alone(t, len, 0))
                                ELSE Fault("error")
          [] t.t = "bitlist" -> IF ValidateBitlist(t.max, len, bit)
                                THEN Decoded(Plain(8 * (len - 1) + bit), Alone(t, len, bit))
                                ELSE Fault("error")
          [] t.t \in {"seq", "struct"} -> IF BytesRefused(t, b) THEN Fault("error")
                                          ELSE Decode(t, p, b)

---------------------------------------------------------------------------
(* ValidBitlists: what ValidateBitlist would accept, at any depth.         *)
ValidBitlists(t, p, v) ==
    CASE t.t = "bitlist" -> v.n \in 0 .. t.max
      [] OTHER -> \A i \in DOMAIN v.of : Of(t, p, i).ValidBitlists[v.of[i]]

(* The methods of t out of those of its parts.                             *)
Methods(t, p) ==
    LET values == Values(t, p)
    IN  [values        |-> values,
         zero          |-> Zero(t, p),
         OrNew         |-> [v \in Objects[t.deep] |-> OrNew(t, p, v)],
         SizeSSZ       |-> [v \in Objects[t.deep] |-> SizeSSZ(t, p, v)],
         MarshalSSZTo  |-> [v \in Objects[t.deep] |-> MarshalSSZTo(t, p, v)],
         HashTreeRoot  |-> [v \in Objects[t.deep] |-> HashTreeRoot(t, p, v)],
         UnmarshalSSZ  |-> [b \in Slices |-> UnmarshalSSZ(t, p, b)],
         ValidBitlists |-> [v \in Objects[t.deep] |-> ValidBitlists(t, p, v)]]

Generated[t \in Types] == Methods(t, [i \in DOMAIN t.parts |-> Generated[t.parts[i]]])

---------------------------------------------------------------------------
(* A caller and an object                                                  *)

VARIABLES
    type,     \* the name of the object's type
    obj,      \* the object
    wire,     \* what it was last marshalled to
    sent,     \* the object it then was, and the pieces of its encoding
    done,     \* the calls that have succeeded on the object
    input,    \* what was last decoded
    got,      \* how the object was: the pieces found, the bytes and those skipped
    call, result, calls

vars == <<type, obj, wire, sent, done, input, got, call, result, calls>>

MethodsFor(types) == [n \in DOMAIN types |-> Generated[types[n]]]
MethodsOf == MethodsFor(TypeOf)
T == MethodsOf[type]

Nothing == [len |-> -1, offs |-> {}, ends |-> {}]
Said(e) == [len  |-> e.len,
            offs |-> {<<x.from, x.says>> : x \in {y \in e.at : y.kind = "offset"}},
            ends |-> {<<x.to, x.says>> : x \in {y \in e.at : y.kind = "bits" /\ y.from < y.to}}]

Init ==
    /\ \E x \in Instances : type = x.type /\ obj = x.obj
    /\ obj \in T.values
    /\ wire = Nothing /\ input = Nothing
    /\ sent = [obj |-> Nil, at |-> {}]
    /\ got = [at |-> {}, len |-> 0, gap |-> 0]
    /\ done = {} /\ call = "none" /\ result = "ok" /\ calls = 0

Call(name) ==
    /\ calls < MaxCalls /\ result # "panic"
    /\ calls' = calls + 1 /\ call' = name
    /\ UNCHANGED type

Done(r) == result' = r /\ done' = IF r = "ok" THEN done \cup {call'} ELSE done

(* What a method returns, and what it leaves of the object.                *)
Returns(x) == Done(x.res) /\ obj' = x.v

CallSizeSSZ ==
    /\ Call("SizeSSZ") /\ Returns(T.SizeSSZ[obj])
    /\ UNCHANGED <<wire, sent, input, got>>

Writes(e) ==
    /\ Returns(e)
    /\ IF e.res = "ok" THEN wire' = Said(e) /\ sent' = [obj |-> e.v, at |-> e.at]
                       ELSE UNCHANGED <<wire, sent>>
    /\ UNCHANGED <<input, got>>

CallMarshalSSZTo == Call("MarshalSSZTo") /\ Writes(T.MarshalSSZTo[obj])

(* ssz.MarshalSSZ makes room by SizeSSZ first.                             *)
MarshalSized(s) ==
    IF s.res # "ok" THEN Returns(s) /\ UNCHANGED <<wire, sent, input, got>>
    ELSE Writes(T.MarshalSSZTo[s.v])

CallMarshalSSZ == Call("MarshalSSZ") /\ MarshalSized(T.SizeSSZ[obj])

CallHashTreeRoot ==
    /\ Call("HashTreeRoot") /\ Returns(T.HashTreeRoot[obj])
    /\ UNCHANGED <<wire, sent, input, got>>

(* All the bytes of w.                                                     *)
Whole(w, junk) ==
    [wire |-> [len |-> w.len, offs |-> w.offs, ends |-> w.ends, junk |-> junk],
     from |-> 0, to |-> w.len]

(* A caller that gets an error goes on with the object it has.             *)
Receives(w, d) ==
    /\ result' = d.res
    /\ input' = w
    /\ IF d.res = "ok"
       THEN /\ obj' = d.v /\ done' = {"UnmarshalSSZ"}
            /\ got' = [at |-> d.at, len |-> w.len, gap |-> d.gap]
       ELSE UNCHANGED <<obj, got, done>>

CallUnmarshalSSZ ==
    /\ Call("UnmarshalSSZ")
    /\ wire # Nothing
    /\ \E w \in Received(type, wire), j \in Junk :
         /\ Whole(w, j) \in Slices
         /\ Receives(w, T.UnmarshalSSZ[Whole(w, j)])
    /\ UNCHANGED <<wire, sent>>

Stop == (calls = MaxCalls \/ result = "panic") /\ UNCHANGED vars

Next ==
    \/ CallSizeSSZ \/ CallMarshalSSZ \/ CallMarshalSSZTo
    \/ CallHashTreeRoot \/ CallUnmarshalSSZ
    \/ Stop

Spec == Init /\ [][Next]_vars

---------------------------------------------------------------------------
(***************************************************************************)
(* What the generated methods of one type promise each other.              *)
(***************************************************************************)

(* Each type's five methods carry its layout separately: the literal       *)
(* sizes, the positions of fields and the running offset.  What an object  *)
(* was marshalled to has the length that SizeSSZ returns, is read with     *)
(* nothing skipped, and every field, however deep, is found where it was   *)
(* written, with the value it had.                                         *)
RoundTrip ==
    call = "UnmarshalSSZ" /\ input = wire /\ T.ValidBitlists[sent.obj] =>
        /\ result = "ok"
        /\ obj = sent.obj /\ got.at = sent.at /\ got.gap = 0
        /\ wire.len = T.SizeSSZ[sent.obj].size

Here(at, p) == {x \in at : x.from <= p /\ p < x.to}
Ends(at)    == UNION {{x.from, x.to} : x \in at}

(* Whatever bytes arrive, the offsets in them never make UnmarshalSSZ      *)
(* slice out of range, nor read a byte as part of two fields, nor leave    *)
(* one unread but in the gap a first offset can make: the first byte, and  *)
(* any where a piece begins or ends, is in exactly one piece.              *)
InputPartitioned ==
    call = "UnmarshalSSZ" =>
        /\ result # "panic"
        /\ result = "ok" =>
             /\ \A x \in got.at : 0 <= x.from /\ x.from <= x.to /\ x.to <= input.len
             /\ \A p \in Ends(got.at) \cup {0} :
                  p < input.len => Cardinality(Here(got.at, p)) = 1

(* An object decoded from any accepted bytes can be measured, marshalled   *)
(* and hashed: no nil, no length and no bitlist that the other methods     *)
(* refuse, at any depth; and it is marshalled to what was read.            *)
DecodedIsUsable ==
    "UnmarshalSSZ" \in done =>
        /\ result # "panic"
        /\ call # "UnmarshalSSZ" => result = "ok"
        /\ call \in {"MarshalSSZ", "MarshalSSZTo"} => wire.len = got.len - got.gap

(* MarshalSSZTo and HashTreeRoot check an object separately; what one of   *)
(* them lets pass the other does, but for bitlists, whose bits only        *)
(* hashing counts.  (A nil child of variable size stops both, unless       *)
(* SizeSSZ or MarshalSSZ has created it.)                                  *)
HashAgreesWithMarshal ==
    T.ValidBitlists[obj] =>
        /\ call = "HashTreeRoot" /\ done \cap {"MarshalSSZ", "MarshalSSZTo"} # {} => result = "ok"
        /\ call \in {"MarshalSSZ", "MarshalSSZTo"} /\ "HashTreeRoot" \in done => result = "ok"
===========================================================================
