--------------------------- MODULE MCMultiproof ---------------------------
(* Instances of Multiproof: a full tree of depth Depth, every choice of up *)
(* to MaxLeaves indices, honest arguments and arguments that differ from   *)
(* them in one leaf, in one hash or in a number of them.                   *)
EXTENDS Multiproof

CONSTANTS Depth, MaxLeaves, Tampered

MCNodes == 1 .. 2^(Depth + 1) - 1

(* A chunk of data is told by its index.  Of the chunks of the tree one is *)
(* zero, and two on the same side are equal.                               *)
MCValue ==
    LET chunk(k) == IF k = 2^Depth + 4 THEN ZeroBytes
                    ELSE [c \in 1 .. HashLen |->
                            <<c, IF k = 2^Depth + 2 THEN 2^Depth ELSE k>>]
        v[k \in MCNodes] == IF k >= 2^Depth THEN chunk(k)
                            ELSE hashFn(v[2 * k], v[2 * k + 1])
    IN  v
Junk == [c \in 1 .. HashLen |-> <<c, 0>>]

(* Other bytes, none, too few and too many.                                *)
Wrong(v) == {Junk, Nil, SubSeq(v, 1, HashLen - 1), v \o <<<<0>>>>}

(* Up to two indices in every order, repetitions included; more in one.    *)
IndexLists ==
    UNION {[1 .. n -> MCNodes] : n \in 1 .. 2}
      \cup UNION {{s \in [1 .. n -> MCNodes] :
                      \A i \in 1 .. n - 1 : s[i] < s[i + 1]} : n \in 3 .. MaxLeaves}

(* What ProveMulti is asked for: the siblings along the paths that are     *)
(* neither on a path nor leaves themselves.                                *)
Siblings(S) ==
    LET up == S \cup UNION {Ancestors[k] : k \in S}
    IN  SetToSortedDesc({getSibling(k) : k \in up \ {1}} \ up)

ValuesAt(s) == [i \in 1 .. Len(s) |-> Value[s[i]]]
Spoilt(s)   == UNION {{[s EXCEPT ![i] = v] : v \in Wrong(s[i])} : i \in DOMAIN s}

HonestInput(ix) == [indices |-> ix, leaves |-> ValuesAt(ix),
                    proof |-> ValuesAt(Siblings(Elements(ix)))]

TamperedInputs(a) ==
    {[a EXCEPT !.leaves = l] : l \in Spoilt(a.leaves) \cup {Tail(a.leaves)}}
      \cup {[a EXCEPT !.proof = p] : p \in Spoilt(a.proof) \cup {Append(a.proof, Junk)}}

(* No index, no leaf, no hash: the work list is empty from the start.      *)
NothingAsked == [indices |-> << >>, leaves |-> << >>, proof |-> << >>]

MCInputs ==
    LET honest == {HonestInput(ix) : ix \in IndexLists}
    IN  IF Tampered
        THEN honest \cup UNION {TamperedInputs(a) : a \in honest} \cup {NothingAsked}
        ELSE honest
===========================================================================
