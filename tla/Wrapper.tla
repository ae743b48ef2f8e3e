------------------------------ MODULE Wrapper ------------------------------
(***************************************************************************)
(* wrapper.go and the tree builder of tree.go: the other HashWalker, which *)
(* keeps the nodes of the tree instead of their hashes.                    *)
(*                                                                         *)
(* A node is a record: root what hashNode returns for it, empty its        *)
(* isEmpty mark, kids its two children or none.  A wrapper is a record:    *)
(* nodes its stack of nodes, buf the cells not yet made into nodes.        *)
(***************************************************************************)
EXTENDS Merkle

Leaf(chunk)     == [root |-> chunk, empty |-> FALSE, kids |-> << >>]
NewEmptyNode(c) == [root |-> c, empty |-> TRUE, kids |-> << >>]

(* Variant: the children end up on the wrong sides.                        *)
NewNodeWithRL(l, r) ==
    [root |-> hashPair(l.root, r.root), empty |-> FALSE, kids |-> <<r, l>>]

(* hashNode of a branch is the hash of its children's; a right child that  *)
(* isEmpty contributes the value it was made with, which is its root.      *)
NewNodeWithLR(l, r) ==
    [root |-> hashPair(l.root, r.root), empty |-> FALSE, kids |-> <<l, r>>]

(* isPowerOfTwo is n & (n-1) == 0, true of 0.                              *)
isPowerOfTwo(n) == n = 0 \/ \E d \in 0 .. MaxTreeDepth : n = 2^d

(* Variant of TreeFromNodes: the zero hash of the level above.             *)
TreeFromNodesOffByOne(leaves, limit) ==
    LET depth == DepthFor(limit)
        level[k \in 0 .. depth] ==
            LET first == 2^k
                last  == (2^depth + Len(leaves) - 1) \div 2^(depth - k)
            IN  [i \in first .. last |->
                    IF k = depth THEN leaves[i - 2^depth + 1]
                    ELSE IF 2 * i + 1 \in DOMAIN level[k + 1]
                    THEN NewNodeWithLR(level[k + 1][2 * i], level[k + 1][2 * i + 1])
                    ELSE NewNodeWithLR(level[k + 1][2 * i],
                                       NewEmptyNode(zeroHashes[depth - k]))]
    IN  IF leaves = << >> THEN NewEmptyNode(zeroHashes[depth]) ELSE level[0][1]

(* More leaves than a limit of 2^depth has room for: the levels overlap in *)
(* the one map from index to node.  Each is written from its end down, so  *)
(* a branch finds a child that its own level has replaced already.         *)
Overfull(leaves, depth) ==
    LET last(k) == (2^depth + Len(leaves) - 1) \div 2^(depth - k)
        map[k \in 0 .. depth] ==
            IF k = depth
            THEN [i \in 2^depth .. last(depth) |-> leaves[i - 2^depth + 1]]
            ELSE LET below == map[k + 1]
                     new[i \in 2^k .. last(k)] ==
                        LET child(j) == IF j <= last(k) THEN new[j]
                                        ELSE IF j \in DOMAIN below THEN below[j]
                                        ELSE NewEmptyNode(zeroHashes[depth - k - 1])
                        IN  NewNodeWithLR(child(2 * i), child(2 * i + 1))
                 IN  [i \in DOMAIN below \cup DOMAIN new |->
                         IF i \in DOMAIN new THEN new[i] ELSE below[i]]
    IN  IF depth = 0 THEN leaves[1]
        ELSE IF depth = 1 THEN NewNodeWithLR(leaves[1], leaves[2])
        ELSE map[0][1]

(* TreeFromNodes for a limit that is a positive power of two.  The map     *)
(* from index to node is built level by level, from depth up to the root;  *)
(* a level ends at half the end of the one below, and a left child without *)
(* a right one gets the zero hash of its level beside it.                  *)
TreeFromNodes(leaves, limit) ==
    LET depth == DepthFor(limit)
        level[k \in 0 .. depth] ==
            LET first == 2^k
                last  == (2^depth + Len(leaves) - 1) \div 2^(depth - k)
            IN  [i \in first .. last |->
                    IF k = depth THEN leaves[i - 2^depth + 1]
                    ELSE IF 2 * i + 1 \in DOMAIN level[k + 1]
                    THEN NewNodeWithLR(level[k + 1][2 * i], level[k + 1][2 * i + 1])
                    ELSE NewNodeWithLR(level[k + 1][2 * i],
                                       NewEmptyNode(zeroHashes[depth - k - 1]))]
    IN  IF leaves = << >> THEN NewEmptyNode(zeroHashes[depth])
        ELSE IF Len(leaves) > limit THEN Overfull(leaves, depth) ELSE level[0][1]

NewWrapper == [nodes |-> << >>, buf |-> << >>, stuck |-> FALSE]

(* Index counts nodes; what is still in the buffer is not counted.         *)
wIndex(w) == Len(w.nodes)

AddNode(w, node) == [w EXCEPT !.nodes = Append(@, node)]

(* Append, AppendUint64: cells wait in the buffer.                         *)
wAppend(w, cells)   == [w EXCEPT !.buf = @ \o cells]
wFillUpTo32(w)      == [w EXCEPT !.buf = Padded(@)]
wAppendBytes32(w, cells) == wFillUpTo32(wAppend(w, cells))

(* appendBytesAsNodes: one leaf per chunk, padded; no bytes, a zero chunk. *)
appendBytesAsNodes(w, cells) ==
    LET b == IF cells = << >> THEN ZeroChunk ELSE Padded(cells)
    IN  [w EXCEPT !.nodes = @ \o [j \in 1 .. Len(b) \div U |-> Leaf(ChunkAt(b, j - 1))]]

(* if len(w.buf) != 0: the buffer becomes leaves before anything is built. *)
Flushed(w) == IF w.buf = << >> THEN w
              ELSE [appendBytesAsNodes(w, w.buf) EXCEPT !.buf = << >>]

TailNodes(w, i) == SubSeq(w.nodes, i + 1, Len(w.nodes))

(* Commit: getLimit is the next power of two, 0 when there is no node, and *)
(* then the depth is log2(0): the table of zero hashes is never finished.  *)
Commit(w, i) ==
    LET tail == TailNodes(w, i)
    IN  IF tail = << >> THEN [w EXCEPT !.stuck = TRUE]
        ELSE AddNode([w EXCEPT !.nodes = SubSeq(@, 1, i)],
                     TreeFromNodes(tail, 2^DepthFor(Len(tail))))

(* CommitWithMixin panics unless the limit is a power of two; 0 passes for *)
(* one, and its table of zero hashes is never finished either.             *)
CommitWithMixin(w, i, num, limit) ==
    IF limit = 0 \/ ~ isPowerOfTwo(limit) THEN [w EXCEPT !.stuck = TRUE]
    ELSE AddNode([w EXCEPT !.nodes = SubSeq(@, 1, i)],
                 NewNodeWithLR(TreeFromNodes(TailNodes(w, i), limit),
                               Leaf(LengthChunk(num))))

wMerkleize(w, indx) == Commit(Flushed(w), indx)
wMerkleizeWithMixin(w, indx, num, limit) == CommitWithMixin(Flushed(w), indx, num, limit)

(* PutUint64 and the other fixed-width puts: a leaf, past the buffer.      *)
wPutUint64(w, cell) == AddNode(w, Leaf(Padded(<<cell>>)))

(* PutBytes is AddBytes.                                                   *)
wPutBytes(w, cells) ==
    IF Len(cells) <= U THEN AddNode(w, Leaf(Padded(cells)))
    ELSE Commit(appendBytesAsNodes(w, cells), wIndex(w))

(* PutBitlist takes the trimmed content and does not look at the buffer.   *)
wPutBitlist(w, trimmed, size, maxSize) ==
    CommitWithMixin(appendBytesAsNodes(w, trimmed), wIndex(w), size, CeilDiv(maxSize, U))

(* Get: down from the root along the bits of a generalized index; a nil    *)
(* child on the way is "Node not found in tree".                           *)
NotFound == [root |-> << >>, empty |-> FALSE, kids |-> << >>]
Get(node, index) ==
    LET at[g \in 1 .. index] ==
            IF g = 1 THEN node
            ELSE IF at[g \div 2].kids = << >> THEN NotFound
            ELSE at[g \div 2].kids[(g % 2) + 1]
    IN  at[index]
===========================================================================
