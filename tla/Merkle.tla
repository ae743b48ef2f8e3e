------------------------------ MODULE Merkle ------------------------------
(***************************************************************************)
(* Chunks, hashes and the Merkle root that SSZ defines.                    *)
(*                                                                         *)
(* A cell is the smallest unit the hashing code appends (8 bytes, one      *)
(* uint64); U cells make a chunk (32 bytes).  A cell is a tuple: <<v>>     *)
(* for data, <<l, r>> for the head of the digest of chunks l and r.        *)
(* sha256 is a free pairing of chunks: equal digests, equal inputs.        *)
(***************************************************************************)
EXTENDS Integers, Sequences

CONSTANTS U,            \* cells per chunk
          MaxTreeDepth  \* bound: the deepest tree a run builds

ASSUME ChunkAssumption == U \in Nat \ {0} /\ MaxTreeDepth \in Nat

Zero       == <<0>>     \* a cell of zero bytes
Stale      == <<-1>>    \* a cell left over from an earlier use of a buffer
DigestTail == <<-2>>    \* the cells of a digest after its head

Zeros(n)  == [i \in 1 .. n |-> Zero]
ZeroChunk == Zeros(U)

(* sha256 of the 64 bytes of two chunks.                                   *)
hashPair(l, r) == [i \in 1 .. U |-> IF i = 1 THEN <<l, r>> ELSE DigestTail]

(* hasher.go init: zeroHashes[i] is the root of a zero tree of depth i.    *)
zeroHashes ==
    LET zh[i \in 0 .. MaxTreeDepth] ==
            IF i = 0 THEN ZeroChunk ELSE hashPair(zh[i - 1], zh[i - 1])
    IN  zh

CeilDiv(a, b) == (a + b - 1) \div b
MaxOf(a, b)   == IF a >= b THEN a ELSE b

(* Chunk number j, counted from 0, of a sequence of cells.                 *)
ChunkAt(cells, j) == SubSeq(cells, j * U + 1, (j + 1) * U)

(* The cells up to the next chunk boundary.                                *)
Padded(cells) == cells \o Zeros(CeilDiv(Len(cells), U) * U - Len(cells))

(* The value 2^d, least such that 2^d >= n.                                *)
DepthFor(n) == CHOOSE d \in 0 .. MaxTreeDepth :
                  2^d >= n /\ \A e \in 0 .. d - 1 : 2^e < n

(***************************************************************************)
(* The reference: pad the cells to chunks, put the chunks at the bottom of *)
(* a full binary tree that has room for limit chunks, zero chunks in what  *)
(* is left, and hash every level.  Not how the code does it.               *)
(***************************************************************************)
Root(cells, limit) ==
    LET d     == DepthFor(limit)
        p     == Padded(cells)
        level[e \in 0 .. d] ==
            IF e = 0
            THEN [j \in 0 .. 2^d - 1 |-> IF (j + 1) * U <= Len(p) THEN ChunkAt(p, j)
                                         ELSE ZeroChunk]
            ELSE [j \in 0 .. 2^(d - e) - 1 |->
                    hashPair(level[e - 1][2 * j], level[e - 1][2 * j + 1])]
    IN  level[d][0]

(* A length as a chunk: one little-endian uint64, then zeros.              *)
LengthChunk(n) == <<<<n>>>> \o Zeros(U - 1)
===========================================================================
