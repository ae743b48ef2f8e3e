----------------------------- MODULE SSZTypes -----------------------------
(***************************************************************************)
(* The types generated code is written for, at the level of lengths: what  *)
(* a field takes in the encoding and which checks its methods make, not    *)
(* what it holds.                                                          *)
(*                                                                         *)
(* The kinds (t) of type are                                               *)
(*   basic     always "size" bytes, nothing to check                       *)
(*   vector    a slice that must have "max" elements                       *)
(*   list      a slice of at most "max" elements of "unit" bytes each      *)
(*   bitlist   a []byte of at most "max" bits and a length bit             *)
(*   seq       a slice of at most "max" structs or byte lists              *)
(*   struct    a container; "ptr" when it is held by a pointer             *)
(* A vector or list is "checked" when its elements have a length to check. *)
(* The parts of a seq are <<the type of its items>>, those of a struct the *)
(* types of its fields, which lie, they or their offsets, at its heads;    *)
(* every part is less deep than the type.                                  *)
(***************************************************************************)
EXTENDS Integers, Sequences, FiniteSetsExt, Sums

Kinds == {"basic", "vector", "list", "bitlist", "seq", "struct"}

Leaf(t, fix, size, max, unit, checked) ==
    [t |-> t, fix |-> fix, size |-> size, max |-> max, unit |-> unit, checked |-> checked,
     ptr |-> FALSE, parts |-> << >>, heads |-> << >>, deep |-> 0]

Basic(n)      == Leaf("basic", TRUE, n, 0, 0, FALSE)
Uint(n)       == Basic(n)
Bool          == Basic(1)
Time          == Basic(8)
ByteArray(n)  == Basic(n)
Array(e, n)   == Basic(n * e.size)

ByteVector(n) == Leaf("vector", TRUE, n, n, 0, FALSE)
Vector(e, n)  == Leaf("vector", TRUE, n * e.size, n, 0, e.t = "vector")

ByteList(m)   == Leaf("list", FALSE, 0, m, 1, FALSE)
Bitlist(m)    == Leaf("bitlist", FALSE, 0, m, 0, FALSE)

(* In the fixed part: the value, or the offset to it.                      *)
Width(t) == IF t.fix THEN t.size ELSE 4

Nesting(t, fix, size, max, ptr, parts) ==
    [t |-> t, fix |-> fix, size |-> size, max |-> max, unit |-> 0, checked |-> FALSE,
     ptr |-> ptr, parts |-> parts,
     heads |-> [i \in 1 .. Len(parts) + 1 |-> SumUpTo([j \in DOMAIN parts |-> Width(parts[j])], i - 1)],
     deep |-> 1 + Max({0} \cup {parts[i].deep : i \in DOMAIN parts})]

List(e, m) ==
    IF e.t \in {"basic", "vector"} THEN Leaf("list", FALSE, 0, m, e.size, e.t = "vector")
    ELSE Nesting("seq", FALSE, 0, m, FALSE, <<e>>)

(* The size is that of the fixed part: a container is of fixed size when   *)
(* every field is.  Fields are pointers unless they are Val.               *)
Struct(size, fields) ==
    Nesting("struct", \A i \in DOMAIN fields : fields[i].fix, size, 0, TRUE, fields)
Val(struct) == [struct EXCEPT !.ptr = FALSE]

(* What the generator makes of types: the size in a container's methods is *)
(* the sum over its fields, the size of a list's elements is not 0.        *)
WellFormed(t) ==
    CASE t.t \in {"basic", "vector"} -> t.fix
      [] t.t = "list"    -> ~ t.fix /\ t.unit > 0
      [] t.t = "bitlist" -> ~ t.fix /\ t.max > 0
      [] t.t = "seq"     -> /\ ~ t.fix /\ Len(t.parts) = 1
                            /\ t.parts[1].fix => t.parts[1].size > 0
      [] t.t = "struct"  ->
           /\ t.fix = \A i \in DOMAIN t.parts : t.parts[i].fix
           /\ Len(t.heads) = Len(t.parts) + 1 /\ t.heads[1] = 0
           /\ \A i \in DOMAIN t.parts : t.heads[i + 1] = t.heads[i] + Width(t.parts[i])
           /\ t.size = t.heads[Len(t.parts) + 1]
===========================================================================
