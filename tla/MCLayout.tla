----------------------------- MODULE MCLayout -----------------------------
(* Instances of Layout.  Every type is measured, marshalled, decoded and   *)
(* hashed with its lists empty, of one and of two elements; those in       *)
(* Deviant also with one field, theirs or a child's, that is nil, of a     *)
(* wrong length or at its limit.  What arrives differs from what was sent  *)
(* in one offset, in the end of a bitlist or in its length, for the types  *)
(* in Altered and encodings of at most MaxOffsets offsets.                 *)
EXTENDS Layout, SpecTypes, FixtureTypes, Functions, TLC

CONSTANTS Deviant, Altered, MaxOffsets

AllTypes == Containers @@ Fixtures
MCTypeOf == AllTypes

WithParts(S) == S \cup UNION {{t.parts[i] : i \in DOMAIN t.parts} : t \in S}
MCTypes == WithParts(WithParts(WithParts(WithParts(Range(AllTypes)))))

(* The object whose lists have n elements each, and bitlists 8 n bits.     *)
RECURSIVE Full(_, _)
Full(t, n) ==
    CASE t.t = "basic"   -> Plain(0)
      [] t.t = "vector"  -> Plain(t.max)
      [] t.t = "list"    -> Plain(n)
      [] t.t = "bitlist" -> Plain(7 * n)
      [] t.t = "seq"     -> Made([i \in 1 .. n |-> Full(t.parts[1], n)])
      [] t.t = "struct"  -> Made([i \in DOMAIN t.parts |-> Full(t.parts[i], n)])

(* The values that differ from v in one place, at most depth structs deep. *)
RECURSIVE Deviations(_, _, _)
Deviations(t, v, depth) ==
    LET last == Len(v.of) IN
    CASE t.t = "basic"   -> {}
      [] t.t = "vector"  -> {Plain(t.max - 1), Plain(t.max + 1)}
                              \cup (IF t.checked THEN {[v EXCEPT !.ok = FALSE]} ELSE {})
      [] t.t = "list"    -> {Plain(t.max)}
                              \cup (IF t.max * t.unit < 2^30 THEN {Plain(t.max + 1)} ELSE {})
                              \cup (IF t.checked THEN {[v EXCEPT !.ok = FALSE]} ELSE {})
      [] t.t = "bitlist" -> {Plain(n) : n \in {-1, t.max, t.max + 1, 8 * t.max}}
      [] t.t = "seq"     ->
           (IF t.max <= 16
            THEN {Made([i \in 1 .. m |-> Full(t.parts[1], 0)]) : m \in {t.max, t.max + 1}} ELSE {})
           \cup (IF t.parts[1].ptr THEN {[v EXCEPT !.of[last] = Nil]} ELSE {})
           \cup {[v EXCEPT !.of[last] = x] : x \in Deviations(t.parts[1], v.of[last], depth)}
      [] t.t = "struct"  ->
           (IF t.ptr THEN {Nil} ELSE {})
           \cup IF depth = 0 THEN {}
                ELSE UNION {{[v EXCEPT !.of[i] = x] : x \in Deviations(t.parts[i], v.of[i], depth - 1)}
                              : i \in DOMAIN t.parts}

Tried(n, t) ==
    {[type |-> n, obj |-> Full(t, k)] : k \in 0 .. 2}
    \cup IF n \in Deviant THEN {[type |-> n, obj |-> o] : o \in Deviations(t, Full(t, 1), 2) \ {Nil}}
                          ELSE {}
AllTried(types) == UNION {Tried(n, types[n]) : n \in DOMAIN types}
MCInstances == AllTried(AllTypes)

(* An offset may be off by one or four, zero, or that of the length.       *)
Replaced(says, x, value) == (says \ {x}) \cup {<<x[1], value>>}
Shifted(w) == UNION {{[w EXCEPT !.offs = Replaced(@, x, o)] :
                        o \in {x[2] - 1, x[2] + 4, 0, w.len, w.len + 1} \cap Nat}
                       : x \in w.offs}
Reended(w) == UNION {{[w EXCEPT !.ends = Replaced(@, x, b)] : b \in {-1, (x[2] + 1) % 8}}
                       : x \in w.ends}
Resized(w) == {[w EXCEPT !.len = n] : n \in {w.len - 1, w.len + 1, w.len + 4, 0} \cap Nat}

MCReceived(n, w) ==
    IF n \in Altered /\ Cardinality(w.offs) <= MaxOffsets
    THEN {w} \cup Shifted(w) \cup Reended(w) \cup Resized(w) ELSE {w}
===========================================================================
