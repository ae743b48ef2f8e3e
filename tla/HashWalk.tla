----------------------------- MODULE HashWalk -----------------------------
(***************************************************************************)
(* The HashTreeRootWith methods that sszgen generates (generator/hash.go)  *)
(* run on both HashWalkers at once: the Hasher behind HashTreeRoot and the *)
(* Wrapper behind GetTree.  The object is made up as the walk goes: each   *)
(* step emits a field, opens a nested container or list, or closes one.    *)
(*                                                                         *)
(* Each open frame also collects the roots the SSZ definition gives to its *)
(* members; these are the reference the two walkers are compared with.     *)
(* One hasher serves walk after walk, as one taken from the pool does.     *)
(***************************************************************************)
EXTENDS Hasher, Wrapper, SequencesExt

CONSTANTS
    Plans    \* named bounds on a behaviour, one of which it keeps to:
             \*   fields      field shapes: [kind, n items, z zero cells, cap the limit]
             \*   maxOps      fields emitted
             \*   maxMembers  members of one container or list
             \*   maxNesting  open containers and lists
             \*   maxWalks    walks with the same hasher
             \*   listLimits  the limits of lists of containers, byte lists and
             \*               byte vectors, and the lengths of vectors of the last

(* Vectors are not empty, a bitlist has room for a bit, and every tree its *)
(* place in one of MaxTreeDepth.  The other limits may be 0.               *)
IsShape(f) ==
    /\ f.n \in Nat /\ f.z \in Nat /\ f.cap \in Nat
    /\ f.kind \in {"bytes", "uints"} => f.n > 0 /\ CeilDiv(f.n, U) <= 2^MaxTreeDepth
    /\ f.kind = "roots" => f.n > 0 /\ f.n <= 2^MaxTreeDepth
    /\ f.kind \in {"dynbytes", "bitlist", "uintlist"} => CeilDiv(f.cap, U) <= 2^MaxTreeDepth
    /\ f.kind = "bitlist" => f.cap > 0
    /\ f.kind = "rootlist" => f.cap <= 2^MaxTreeDepth

ASSUME PlansAssumption ==
    \A p \in DOMAIN Plans :
       /\ \A f \in Plans[p].fields : IsShape(f)
       /\ Plans[p].maxOps \in Nat /\ Plans[p].maxNesting \in Nat
       /\ Plans[p].maxWalks \in Nat \ {0}
       /\ Plans[p].maxMembers \in 0 .. 2^MaxTreeDepth
       /\ Plans[p].listLimits \subseteq 0 .. 2^MaxTreeDepth

VARIABLES
    plan,     \* the name of the bounds
    h,        \* the hasher
    w,        \* the wrapper
    stack,    \* the open frames, the outermost one receiving the root
    ops,      \* fields emitted so far
    walks,    \* walks begun so far
    done,     \* the walk has ended and its result is on the walkers
    closed    \* the last merkleization: its chunks, limit and mixin

vars == <<plan, h, w, stack, ops, walks, done, closed>>

Fields     == Plans[plan].fields
MaxOps     == Plans[plan].maxOps
MaxMembers == Plans[plan].maxMembers
MaxNesting == Plans[plan].maxNesting
MaxWalks   == Plans[plan].maxWalks
ListLimits == Plans[plan].listLimits

NotClosed == [chunks |-> << >>, limit |-> 1, mixin |-> FALSE]

(* The lists whose members are walked one by one.                          *)
ListKinds == {"containers", "byteLists", "byteVectors"}

Frame(kind, hi, wi, limit) ==
    [kind |-> kind, hIndx |-> hi, wIndx |-> wi, limit |-> limit, roots |-> << >>]

Top == Last(stack)

(* A walk starts on the walkers as they are; the frame below the root      *)
(* container receives the root.                                            *)
RootFrames(hh) == <<Frame("result", 0, 0, 0), Frame("container", Index(hh), 0, 0)>>

Init ==
    /\ plan \in DOMAIN Plans
    /\ h = NewHasher /\ w = NewWrapper
    /\ stack = RootFrames(NewHasher)
    /\ ops = 0 /\ walks = 1 /\ done = FALSE
    /\ closed = NotClosed

(* Distinct data cells, new ones for every field.                          *)
Data(n) == [i \in 1 .. n |-> <<10 * (ops + 1) + i>>]

(* HashTreeRoot and GetTree are two calls: where the tree is never built   *)
(* the hasher walks on, and the wrapper stays as it is.  A panic of the    *)
(* hasher ends the walk.                                                   *)
Running == ~ done /\ ~ h.panic

Walks(ww) == IF w.stuck THEN w ELSE ww

(* Room for one more member in the innermost frame.                        *)
Room == Len(Top.roots) < (IF Top.kind = "container" THEN MaxMembers ELSE Top.limit)

AddRoot(frames, root) ==
    [frames EXCEPT ![Len(frames)].roots = Append(@, root)]

(* A field leaves hh and ww behind; its root is that of cells under limit, *)
(* with num mixed in for a list.                                           *)
Emit(hh, ww, cells, limit, num, mixin) ==
    LET root == IF mixin THEN hashPair(Root(cells, limit), LengthChunk(num))
                ELSE Root(cells, limit)
        p    == Padded(cells)
    IN  /\ h' = hh /\ w' = Walks(ww)
        /\ stack' = AddRoot(stack, root)
        /\ ops' = ops + 1
        /\ closed' = [chunks |-> [j \in 1 .. Len(p) \div U |-> ChunkAt(p, j - 1)],
                      limit |-> limit, mixin |-> mixin]
        /\ UNCHANGED <<plan, walks, done>>

CanEmit(kind, f) == /\ Running /\ Top.kind = kind /\ Room /\ ops < MaxOps
                    /\ f \in Fields

(* hh.PutUint64(v), and the other fixed-width fields.                      *)
PutUint(f) ==
    /\ CanEmit("container", f) /\ f.kind = "uint"
    /\ LET v == Data(1)
       IN  Emit(PutUint64(h, v[1]), wPutUint64(w, v[1]), v, 1, 0, FALSE)

(* hh.PutBytes(v) for byte vectors: fields, and the elements of lists and  *)
(* vectors of them unless they are a chunk long, which PutRoots has.       *)
PutFixedBytes(f) ==
    /\ f.kind = "bytes"
    /\ \/ CanEmit("container", f)
       \/ f.n # U /\ (CanEmit("byteVectors", f) \/ CanEmit("vector", f))
    /\ LET b == Data(f.n)
       IN  Emit(PutBytes(h, b), wPutBytes(w, b), b, CeilDiv(f.n, U), 0, FALSE)

(* Byte lists: Append in a container, AppendBytes32 in a list of them.     *)
PutDynamicBytes(f) ==
    /\ f.kind = "dynbytes" /\ f.n <= f.cap
    /\ CanEmit("container", f) \/ CanEmit("byteLists", f)
    /\ LET b  == Data(f.n)
           hh == IF Top.kind = "container" THEN Append_(h, b) ELSE AppendBytes32(h, b)
           ww == IF Top.kind = "container" THEN wAppend(w, b) ELSE wAppendBytes32(w, b)
           limit == CeilDiv(f.cap, U)
       IN  Emit(MerkleizeWithMixin(hh, Index(h), f.n, limit),
                wMerkleizeWithMixin(ww, wIndex(w), f.n, limit), b, limit, f.n, TRUE)

(* hh.PutBitlist(v, cap): f.n cells of bits and then f.z cells of zeros.   *)
(* Nothing but an empty slice is refused here, so they may be too many.    *)
PutBits(f) ==
    /\ CanEmit("container", f) /\ f.kind = "bitlist"
    /\ LET b == Data(f.n) \o Zeros(f.z)
       IN  Emit(PutBitlist(h, b, f.cap), wPutBitlist(w, parseBitlist(b), Len(b), f.cap),
                b, CeilDiv(f.cap, U), Len(b), TRUE)

(* Vectors of uint64: AppendUint64 per item, then Merkleize.               *)
PutUintVector(f) ==
    /\ CanEmit("container", f) /\ f.kind = "uints"
    /\ LET v == Data(f.n)
       IN  Emit(Merkleize(AppendUint64s(h, v), Index(h)),
                wMerkleize(wAppend(w, v), wIndex(w)), v, CeilDiv(f.n, U), 0, FALSE)

(* Lists of uint64: FillUpTo32 and the limit of CalculateLimit.  The       *)
(* reference has room for the chunks of cap items, and for one at least.   *)
PutUintList(f) ==
    /\ CanEmit("container", f) /\ f.kind = "uintlist" /\ f.n <= f.cap
    /\ LET v     == Data(f.n)
           limit == CalculateLimit(f.cap, f.n)
       IN  Emit(MerkleizeWithMixin(FillUpTo32(AppendUint64s(h, v)), Index(h), f.n, limit),
                wMerkleizeWithMixin(wFillUpTo32(wAppend(w, v)), wIndex(w), f.n, limit),
                v, MaxOf(CeilDiv(f.cap, U), 1), f.n, TRUE)

(* Vectors and lists of 32-byte roots: Append per item.                    *)
PutRoots(f) ==
    /\ CanEmit("container", f) /\ f.kind = "roots"
    /\ LET v == Data(f.n * U)
       IN  Emit(Merkleize(Append_(h, v), Index(h)), wMerkleize(wAppend(w, v), wIndex(w)),
                v, f.n, 0, FALSE)

PutRootList(f) ==
    /\ CanEmit("container", f) /\ f.kind = "rootlist" /\ f.n <= f.cap
    /\ LET v == Data(f.n * U)
       IN  Emit(MerkleizeWithMixin(Append_(h, v), Index(h), f.n, f.cap),
                wMerkleizeWithMixin(wAppend(w, v), wIndex(w), f.n, f.cap),
                v, f.cap, f.n, TRUE)

(* A nested container, as a field or as an element: elem.HashTreeRootWith. *)
OpenContainer ==
    /\ Running /\ Room /\ Len(stack) <= MaxNesting /\ ops < MaxOps
    /\ Top.kind \in {"container", "containers"}
    /\ stack' = Append(stack, Frame("container", Index(h), wIndex(w), 0))
    /\ closed' = NotClosed
    /\ UNCHANGED <<plan, h, w, ops, walks, done>>

(* subIndx := hh.Index() of a list of containers, byte lists or byte       *)
(* vectors, or of a vector of the last.                                    *)
OpenList(kind, limit) ==
    /\ Running /\ Room /\ Len(stack) <= MaxNesting /\ ops < MaxOps
    /\ Top.kind = "container" /\ (kind = "vector" => limit > 0)
    /\ stack' = Append(stack, Frame(kind, Index(h), wIndex(w), limit))
    /\ closed' = NotClosed
    /\ UNCHANGED <<plan, h, w, ops, walks, done>>

(* The innermost frame becomes one root of the frame around it.            *)
Close(hh, ww, limit, num, mixin) ==
    LET cells == FlattenSeq(Top.roots)
        root  == IF mixin THEN hashPair(Root(cells, limit), LengthChunk(num))
                 ELSE Root(cells, limit)
    IN  /\ h' = hh /\ w' = Walks(ww)
        /\ stack' = AddRoot(Front(stack), root)
        /\ closed' = [chunks |-> Top.roots, limit |-> limit, mixin |-> mixin]
        /\ UNCHANGED <<plan, ops, walks, done>>

(* hh.Merkleize(indx) of a container, which may have no field at all, and  *)
(* of a vector once it is full.                                            *)
CloseContainer ==
    /\ Running
    /\ Top.kind = "container" \/ (Top.kind = "vector" /\ Len(Top.roots) = Top.limit)
    /\ Close(Merkleize(h, Top.hIndx), wMerkleize(w, Top.wIndx),
             Len(Top.roots), 0, FALSE)

(* hh.MerkleizeWithMixin(subIndx, num, limit)                              *)
CloseList ==
    /\ Running /\ Top.kind \in ListKinds
    /\ LET num == Len(Top.roots)
       IN  Close(MerkleizeWithMixin(h, Top.hIndx, num, Top.limit),
                 wMerkleizeWithMixin(w, Top.wIndx, num, Top.limit), Top.limit, num, TRUE)

(* hh.HashRoot() and w.Node(): the walk is over.                           *)
Finish ==
    /\ Running /\ Top.kind = "result"
    /\ done' = TRUE
    /\ UNCHANGED <<plan, h, w, stack, ops, walks, closed>>

(* HasherPool.Put resets the hasher, after a result or after an error in   *)
(* the middle of a walk (a length that validation refuses); the next walk  *)
(* gets the same hasher, and a wrapper of its own.                         *)
NextWalk ==
    /\ done \/ Running
    /\ walks < MaxWalks
    /\ walks' = walks + 1
    /\ h' = Reset(h) /\ w' = NewWrapper
    /\ stack' = RootFrames(h')
    /\ done' = FALSE /\ closed' = NotClosed
    /\ UNCHANGED <<plan, ops>>

Next ==
    \/ \E f \in Fields :
          \/ PutUint(f) \/ PutFixedBytes(f) \/ PutDynamicBytes(f) \/ PutBits(f)
          \/ PutUintVector(f) \/ PutUintList(f) \/ PutRoots(f) \/ PutRootList(f)
    \/ OpenContainer
    \/ \E kind \in ListKinds \cup {"vector"}, limit \in ListLimits : OpenList(kind, limit)
    \/ CloseContainer \/ CloseList
    \/ Finish \/ NextWalk

Spec == Init /\ [][Next]_vars

---------------------------------------------------------------------------
(* After a panic nobody looks at the tree.                                 *)
TypeOK ==
    /\ DOMAIN h = {"buf", "cap", "high", "panic"}
    /\ Len(h.buf) <= h.high /\ h.high <= h.cap
    /\ DOMAIN w = {"nodes", "buf", "stuck"}
    /\ ~ h.panic => \A i \in 1 .. Len(w.nodes) : Len(w.nodes[i].root) = U
    /\ \A i \in 1 .. Len(stack) :
          stack[i].kind \in {"result", "container", "vector"} \cup ListKinds
    /\ ops \in 0 .. MaxOps /\ walks \in 1 .. MaxWalks /\ done \in BOOLEAN

(* The roots of all members of all open frames, outermost first.           *)
OpenRoots == FlattenSeq([i \in 1 .. Len(stack) |-> stack[i].roots])

(* Between two members the hasher's buffer is exactly the SSZ roots of the *)
(* members of the open frames, whatever the hasher was used for before:    *)
(* merkleizing in place in a shared buffer neither touches what lies under *)
(* the frame nor lets stale bytes of earlier walks in.                     *)
HasherHoldsSSZRoots ==
    ~ h.panic => h.buf = FlattenSeq(OpenRoots)

(* The same for the tree under construction: the nodes on the wrapper's    *)
(* stack have these roots, and no byte is left waiting in its buffer.      *)
WrapperHoldsSSZRoots ==
    ~ h.panic /\ ~ w.stuck =>
       /\ w.buf = << >>
       /\ [i \in 1 .. Len(w.nodes) |-> w.nodes[i].root] = OpenRoots

(* In the tree that GetTree returns, member i of a container sits at       *)
(* generalized index 2^d + i, of a list at 2^(d+1) + i below the length:   *)
(* the indices that proofs are asked for.  The only members without a node *)
(* are zero chunks (the end of a bitlist, which parseBitlist trims); those *)
(* of an over-long bitlist beyond its limit have no place.                 *)
MembersAtTheirIndices ==
    LET first == 2^(DepthFor(closed.limit) + (IF closed.mixin THEN 1 ELSE 0))
    IN  ~ h.panic /\ ~ w.stuck =>
          \A i \in 1 .. Len(closed.chunks) :
             i <= closed.limit =>
               LET node == Get(Last(w.nodes), first + i - 1)
               IN  IF node = NotFound THEN closed.chunks[i] = ZeroChunk
                   ELSE node.root = closed.chunks[i]

(* Data beyond the limit, and a limit without a tree.                      *)
OverLimit == \E j \in 1 .. Len(closed.chunks) :
                j > closed.limit /\ closed.chunks[j] # ZeroChunk
NoTree    == closed.limit = 0 \/ (closed.mixin /\ ~ isPowerOfTwo(closed.limit))

(* What stops a walker, and nothing else does.  The hasher panics ("BUG:   *)
(* count higher than limit") at data beyond a limit, never at the re-slice *)
(* of a short input; the tree is never built where a limit is 0 (an empty  *)
(* container, a list of no room) or a list's is not a power of two.        *)
StopsOnlyAtLimits ==
    [][/\ ~ h.panic => (h'.panic <=> OverLimit')
       /\ ~ w.stuck => (w'.stuck <=> NoTree')]_vars

(* The two walkers agree (spectests/structs_test.go 220-227: the root of   *)
(* GetTree equals HashTreeRoot).                                           *)
TreeRootEqualsHashTreeRoot ==
    done /\ ~ w.stuck => Len(w.nodes) = 1 /\ h.buf = w.nodes[1].root
===========================================================================
