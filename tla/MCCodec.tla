------------------------------ MODULE MCCodec -----------------------------
(* Instances of Codec: struct types that between them have every kind of   *)
(* field, alone and in company; objects with empty, partial, full and      *)
(* oversized fields and nil children; and received bytes that differ from  *)
(* those sent in one byte, in their length or by an insertion.             *)
EXTENDS Codec

Field(k, s, m, e) == [kind |-> k, size |-> s, max |-> m, each |-> e]
Uint       == Field("uint", 1, 0, 0)
Bool       == Field("bool", 1, 0, 0)
FixedBytes == Field("fixedBytes", 2, 0, 0)
Bytes(m)   == Field("bytes", 0, m, 0)
Bitlist    == Field("bitlist", 0, 9, 0)
List       == Field("list", 2, 2, 0)
Dynlist    == Field("dynlist", 0, 2, 1)
Child      == Field("child", 0, 0, 1)

MCStructs == <<
    <<Uint, FixedBytes>>,                \* Checkpoint, with a fixed size
    <<Bytes(2)>>,                        \* ErrorResponse
    <<Uint, Bool>>,
    <<Bytes(1), Uint, Bytes(2)>>,
    <<Bitlist, FixedBytes, List>>,
    <<Dynlist, Bytes(1)>>,               \* Transactions, ExtraData
    <<Child, Bytes(1)>>,
    <<Uint, Child>>                      \* AggregateAndProof
    >>

Values(f) ==
    CASE f.kind = "uint"       -> {<<7>>}
      [] f.kind = "bool"       -> {<<0>>, <<1>>}
      [] f.kind = "fixedBytes" -> {<< >>, <<1, 2>>, <<1, 2, 3>>}
      [] f.kind = "bytes"      -> {[i \in 1 .. n |-> i] : n \in 0 .. f.max + 1}
      [] f.kind = "bitlist"    -> {<< >>, <<1>>, <<4, 2>>, <<4, 4>>, <<4, 0>>}
      [] f.kind = "list"       -> {<< >>, <<<<5, 6>>>>, <<<<5, 6, 7>>>>, <<<<5, 6>>, <<7, 8>>>>,
                                   <<<<5, 6>>, <<7, 8>>, <<9, 9>>>>}
      [] f.kind = "dynlist"    -> {<< >>, <<<< >>>>, <<<<9>>, << >>>>, <<<< >>, <<9>>>>,
                                   <<<<9, 9>>>>, <<<<9>>, <<8>>, <<7>>>>}
      [] f.kind = "child"      -> {<< >>, <<<< >>>>, <<<<3>>>>, <<<<3, 4>>>>}

(* Structs of one, two and three fields.                                   *)
Objects(fs) ==
    CASE Len(fs) = 1 -> {<<a>> : a \in Values(fs[1])}
      [] Len(fs) = 2 -> {<<a, b>> : a \in Values(fs[1]), b \in Values(fs[2])}
      [] Len(fs) = 3 -> {<<a, b, c>> : a \in Values(fs[1]), b \in Values(fs[2]),
                                       c \in Values(fs[3])}

MCInstances ==
    UNION {{[fields |-> fs, obj |-> o] : o \in Objects(fs)} : fs \in ToSet(MCStructs)}

(* Every byte one more, or zero, or a small or large offset.               *)
Changed(w)   == UNION {{[w EXCEPT ![i] = x] : x \in {w[i] + 1, 0, 8, 64}} : i \in DOMAIN w}
Truncated(w) == {SubSeq(w, 1, n) : n \in 0 .. Len(w) - 1}
Extended(w)  == {InsertAt(w, i, 1) : i \in 1 .. Len(w) + 1}
(* An offset more in front: with the right one, the struct of a single     *)
(* variable field is followed by a gap.                                   *)
Prefixed(w)  == {WriteOffset(n) \o w : n \in {4, 8, 12}}

(* An empty dynlist of four bytes, and a child's gap.                      *)
Crafted == {<<8, 0, 0, 0, 12, 0, 0, 0, 0, 0, 0, 0>>,
            <<8, 0, 0, 0, 13, 0, 0, 0, 5, 0, 0, 0, 1>>}

MCReceived(fs, w) ==
    {w} \cup Changed(w) \cup Truncated(w) \cup Extended(w) \cup Prefixed(w) \cup Crafted
===========================================================================
