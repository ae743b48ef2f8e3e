------------------------------ MODULE Hasher ------------------------------
(***************************************************************************)
(* hasher.go: the append-only buffer that HashTreeRoot walks write to and  *)
(* merkleize the tail of in place.                                         *)
(*                                                                         *)
(* A hasher is a record: buf the live cells, cap the capacity of the Go    *)
(* slice, high how far its backing array has been written.  The cells      *)
(* after buf are Stale up to high, zero up to cap and out of reach beyond. *)
(* Operations return the hasher; panic is set when the code panics.        *)
(***************************************************************************)
EXTENDS Merkle

NewHasher == [buf |-> << >>, cap |-> 0, high |-> 0, panic |-> FALSE]

(* h.buf = h.buf[:0]: the array, and what is in it, stays.                 *)
Reset(h) == [h EXCEPT !.buf = << >>]

Index(h) == Len(h.buf)

(* Variant: the array is never grown.                                      *)
AppendInPlace(h, cells) == [h EXCEPT !.buf = @ \o cells]

(* Go's append: in place while the capacity lasts, else a new array of     *)
(* twice the capacity, or of what is needed, that is zero after its length.*)
Append_(h, cells) ==
    LET need == Len(h.buf) + Len(cells)
    IN  IF need <= h.cap
        THEN [h EXCEPT !.buf = @ \o cells, !.high = MaxOf(@, need)]
        ELSE [h EXCEPT !.buf = @ \o cells, !.high = need, !.cap = MaxOf(need, 2 * @)]

(* AppendBytes32 pads by the length of its argument, not of the buffer.    *)
AppendBytes32(h, cells) ==
    Append_(Append_(h, cells), Zeros(Len(Padded(cells)) - Len(cells)))

FillUpTo32(h) == Append_(h, Zeros(Len(Padded(h.buf)) - Len(h.buf)))

(* AppendUint64 once per item.                                             *)
AppendUint64s(h, cells) ==
    LET upTo[n \in 0 .. Len(cells)] ==
            IF n = 0 THEN h ELSE Append_(upTo[n - 1], <<cells[n]>>)
    IN  upTo[Len(cells)]

(* input[:32] re-slices beyond the length: the cells there are whatever    *)
(* the array holds.                                                        *)
FirstChunk(h, indx) ==
    [i \in 1 .. U |-> IF indx + i <= Len(h.buf) THEN h.buf[indx + i]
                      ELSE IF indx + i <= h.high THEN Stale ELSE Zero]

(* Variant: every level is filled up with the zero chunk.                  *)
hashLayerZeroChunk(input, i) ==
    LET layerLen == Len(input) \div U
        even     == IF layerLen % 2 = 1 THEN input \o ZeroChunk ELSE input
        pairs    == (layerLen + 1) \div 2
    IN  [c \in 1 .. pairs * U |->
            LET j == (c - 1) \div U
            IN  hashPair(ChunkAt(even, 2 * j), ChunkAt(even, 2 * j + 1))[c - j * U]]

(* One round of the loop of merkleizeImpl: an odd number of whole chunks   *)
(* gets a zero hash of level i appended; the pairs are hashed; cells past  *)
(* the last pair are dropped by input[:outputLen].                         *)
hashLayer(input, i) ==
    LET layerLen == Len(input) \div U
        even     == IF layerLen % 2 = 1 THEN input \o zeroHashes[i] ELSE input
        pairs    == (layerLen + 1) \div 2
    IN  [c \in 1 .. pairs * U |->
            LET j == (c - 1) \div U
            IN  hashPair(ChunkAt(even, 2 * j), ChunkAt(even, 2 * j + 1))[c - j * U]]

(* merkleizeImpl(input[:0], input, limit) with input = h.buf[indx:].  A    *)
(* limit of 0 stands for the number of chunks of the input.                *)
merkleizeImpl(h, indx, lim) ==
    LET input == SubSeq(h.buf, indx + 1, Len(h.buf))
        count == CeilDiv(Len(input), U)
        limit == IF lim = 0 THEN count ELSE lim
        depth == DepthFor(limit)
        layer[i \in 0 .. depth] ==
            IF i = 0 THEN input ELSE hashLayer(layer[i - 1], i - 1)
    IN  IF limit <= 1
        THEN IF count = 1 THEN FirstChunk(h, indx) ELSE ZeroChunk
        ELSE IF input = << >> THEN zeroHashes[depth] ELSE layer[depth]

(* Variant: a full input is refused.                                       *)
merkleizePanicsWhenFull(h, indx, lim) ==
    LET count == CeilDiv(Len(h.buf) - indx, U)
    IN  \/ lim # 0 /\ count >= lim
        \/ count = 1 /\ lim <= 1 /\ indx + U > h.cap

(* count > limit, and input[:32] beyond the capacity.                      *)
merkleizePanics(h, indx, lim) ==
    LET count == CeilDiv(Len(h.buf) - indx, U)
    IN  \/ lim # 0 /\ count > lim
        \/ count = 1 /\ lim <= 1 /\ indx + U > h.cap

(* How far merkleizeImpl writes the array: it appends a zero hash to a     *)
(* first layer with an odd number of chunks, and its result from indx on.  *)
reach(h, indx, lim) ==
    LET len    == Len(h.buf) - indx
        layers == lim > 1 \/ CeilDiv(len, U) > 1
    IN  MaxOf(indx + U, IF layers /\ (len \div U) % 2 = 1 THEN Len(h.buf) + U
                        ELSE Len(h.buf))

(* In place while the capacity lasts; a new array leaves this one alone.   *)
Touch(h, n) == IF n <= h.cap THEN [h EXCEPT !.high = MaxOf(@, n)] ELSE h

(* h.buf = append(h.buf[:indx], result...)                                 *)
Replace(h, indx, result) == Append_([h EXCEPT !.buf = SubSeq(@, 1, indx)], result)

Merkleize(h, indx) ==
    IF merkleizePanics(h, indx, 0) THEN [h EXCEPT !.panic = TRUE]
    ELSE Replace(Touch(h, reach(h, indx, 0)), indx, merkleizeImpl(h, indx, 0))

(* The mixin goes behind the root of the input: two chunks from indx.      *)
MerkleizeWithMixin(h, indx, num, limit) ==
    LET f == FillUpTo32(h)
    IN  IF merkleizePanics(f, indx, limit) THEN [f EXCEPT !.panic = TRUE]
        ELSE Replace(Touch(Touch(f, reach(f, indx, limit)), indx + 2 * U), indx,
                     hashPair(merkleizeImpl(f, indx, limit), LengthChunk(num)))

(* PutUint64 and the other fixed-width puts, PutBool: one padded chunk.    *)
PutUint64(h, cell) == AppendBytes32(h, <<cell>>)

PutBytes(h, cells) ==
    IF Len(cells) <= U THEN AppendBytes32(h, cells)
    ELSE Merkleize(AppendBytes32(h, cells), Index(h))

(* parseBitlist, after the delimiter bit: the content without its trailing *)
(* zeros.                                                                  *)
parseBitlist(cells) ==
    LET nonzero == {i \in 1 .. Len(cells) : cells[i] # Zero}
    IN  SubSeq(cells, 1, CHOOSE n \in 0 .. Len(cells) :
                            /\ n = 0 \/ n \in nonzero
                            /\ \A i \in nonzero : i <= n)

PutBitlist(h, cells, maxSize) ==
    MerkleizeWithMixin(AppendBytes32(h, parseBitlist(cells)), Index(h),
                       Len(cells), CeilDiv(maxSize, U))

(* CalculateLimit(maxCapacity, numItems, size), items of one cell.         *)
CalculateLimit(maxCapacity, numItems) ==
    IF maxCapacity # 0 THEN CeilDiv(maxCapacity, U) ELSE MaxOf(numItems, 1)
===========================================================================
