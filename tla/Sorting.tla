------------------------------ MODULE Sorting -----------------------------
(***************************************************************************)
(* The sorted slices of the proof code.                                    *)
(***************************************************************************)
EXTENDS Integers, Sequences, FiniteSets

(***************************************************************************)
(* sort.Sort(sort.Reverse(sort.IntSlice(s))): the elements of a finite     *)
(* family of integers in decreasing order, equal elements side by side.    *)
(* The element at position i is the one that fewer than i elements exceed  *)
(* and at least i elements reach.                                          *)
(***************************************************************************)
Elements(s) == {s[j] : j \in DOMAIN s}

Above(s, x)   == {j \in DOMAIN s : s[j] > x}
AtLeast(s, x) == {j \in DOMAIN s : s[j] >= x}

SortDesc(s) ==
    [i \in 1 .. Cardinality(DOMAIN s) |->
        CHOOSE x \in Elements(s) :
            Cardinality(Above(s, x)) < i /\ i <= Cardinality(AtLeast(s, x))]

(* A Go map used as a set, collected into a slice and sorted.              *)
SetToSortedDesc(S) == SortDesc([x \in S |-> x])
===========================================================================
