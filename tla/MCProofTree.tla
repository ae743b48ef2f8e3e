---------------------------- MODULE MCProofTree ----------------------------
(* A list's tree of depth 3: chunks at 8 to 11, a zero subtree of depth 1   *)
(* inside, and an empty right half that is a single node.                   *)
EXTENDS ProofTree

MCNodes == 1 .. 11
MCTargets == MCNodes \cup {12, 23}  \* below the leaves 6 and 11

MCzeroHashes ==
    LET z[l \in 0 .. 3] == IF l = 0 THEN ZeroBytes ELSE hashFn(z[l - 1], z[l - 1])
    IN  z

(* Chunks 10 and 11 are zero; 6 and 7 are zero nodes of depth 1 and 0.     *)
MCValue ==
    LET v[n \in MCNodes] ==
            CASE n \in {7, 8, 9} -> [c \in 1 .. HashLen |-> <<c, n>>]
              [] n \in {10, 11} -> ZeroBytes
              [] n = 6 -> MCzeroHashes[1]
              [] OTHER -> hashFn(v[2 * n], v[2 * n + 1])
    IN  v

MCpath ==
    LET p[n \in MCTargets] == IF n = 1 THEN << >> ELSE <<n>> \o p[n \div 2]
    IN  p

(* Other bytes, and none.                                                  *)
MCForeign == {[c \in 1 .. HashLen |-> <<c, 99>>], Nil}

MCRequests == UNION {{s \in [1 .. n -> MCNodes \ {1}] : \A j \in 1 .. n - 1 : s[j] < s[j + 1]} :
                        n \in 1 .. 2}
============================================================================
