# fastssz in TLA+

A verification project for fastssz, a Go library for the Simple Serialize (SSZ)
encoding of Ethereum's consensus layer, and `sszgen`, the generator that writes
the methods of user types. TLA+ modules model the library's logic, TLC checks
them on small instances, TLAPS proves what matters most for every instance.

## 1. The system

### Components

| component | source | state | operations |
|---|---|---|---|
| Hasher | `hasher.go` | one byte buffer `buf` (a Go slice with a capacity and old bytes behind its length), a 32-byte scratch `tmp` | `Append*`, `Put*`, `FillUpTo32`, `Index`, `Merkleize`, `MerkleizeWithMixin`, `HashRoot`, `Reset` |
| Hash function | `hash.go` | none | `NativeHashWrapper`: hashes a layer of pairs in place |
| HasherPool | `hasher.go` 46-55, 308-326 | a `sync.Pool` of hashers shared by all goroutines | `Get`, `Put`, `HashWithDefaultHasher` |
| Wrapper | `wrapper.go` | a stack of tree nodes, a byte buffer | the same interface as Hasher; `Commit`, `CommitWithMixin`, `Node` |
| Tree | `tree.go` | nodes with children and a cached `value` | `TreeFromNodes`, `Get`, `Hash`, `Prove`, `ProveMulti`, `Compress`, `Decompress` |
| Proofs | `proof.go` | locals of the verifiers | `VerifyProof`, `VerifyMultiproof`, `getRequiredIndices` |
| Encoding helpers | `encode.go` | none | `MarshalSSZ`, integers, offsets, `ValidateBitlist`, `DecodeDynamicLength`, `UnmarshalDynamic`, `Extend*` |
| Generated methods | templates `marshal.go`, `unmarshal.go`, `size.go`, `validate.go`, `hash.go` of `sszgen/generator` | the object; locals `dst`, `offset`, `buf`, `tail`, `o0`, `o1` ... | `SizeSSZ`, `MarshalSSZ`, `MarshalSSZTo`, `UnmarshalSSZ`, `HashTreeRootWith` |
| Generator | `sszgen/generator` | the parsed packages, the IR (`Value`), imports per file | `GetSSZTags`, `generateIR`, templates for marshal, unmarshal, size, validate, hash, tree |
| Command line | `sszgen/main.go` | none | flags, output |
| Committed generated code | `spectests`, `sszgen/testcases`, `tests`, `fuzz` | the objects of 74 types | their five methods |
| Fuzzing, tests | `fuzz`, `spectests`, `tests`, `testutil.go` | none | random mutation of encodings, comparison with the consensus test vectors |

### How they interact

`obj.HashTreeRoot()` calls `HashWithDefaultHasher`, which takes a Hasher from the
pool, runs the generated `HashTreeRootWith` on it, reads the one chunk that is
left with `HashRoot`, resets the Hasher and puts it back. `obj.GetTree()` runs
*the same generated method* on a Wrapper, which keeps the nodes of the tree in
place of their hashes. The two are meant to agree: proofs are made from the
Wrapper's tree (`Prove`, `ProveMulti`) and verified against the Hasher's root
(`VerifyProof`, `VerifyMultiproof`). The generated method is a recursion over
the type: every container and list takes `Index()`, lets its members append to
the shared buffer, and merkleizes the tail from its index.

`ssz.MarshalSSZ(obj)` asks `obj.SizeSSZ()` for the room and calls
`obj.MarshalSSZTo`, which writes the fixed part with an offset for each variable
field and then the variable fields. `obj.UnmarshalSSZ(buf)` reads the fixed part
and all offsets, then slices the input along them; a list of variable items goes
through `DecodeDynamicLength` and `UnmarshalDynamic`, which does the same one
level down, and a child's methods are called recursively.

### What is hard

- *Shared buffers.* Nested walks merkleize the tail of one buffer in place, over
  indices taken earlier; the capacity behind the length holds bytes of earlier
  walks, of other objects, since hashers are pooled.
- *Two walkers, one contract.* The Wrapper counts nodes where the Hasher counts
  bytes, and keeps bytes back in a buffer that `Index` does not see.
- *Boundaries.* Partial chunks, odd layers, empty lists, limits far above the
  length, limits that are not powers of two, levels of zero hashes.
- *Goroutines* share the pool; a walk may return an error or panic half way.
- *State in the tree.* A branch has no value until somebody hashes it; `Prove`
  hashes some and reads others.
- *Work lists.* `VerifyMultiproof` appends to the list that it iterates over.
- *Untrusted input.* Proofs and encodings come from elsewhere; offsets in them
  say where to slice.
- *Shared memory.* `hashNode` appends to slices that may be the caller's, and
  several goroutines may do so.
- *Map order.* The generator visits files in any order and keeps what the files
  before left: encoded structs, imports, sizes.
- *Tags* are read by two scanners, and the dimensions of several lists are dealt
  out to the levels of a type.
- *Four templates, one layout.* Size, marshal, unmarshal and validate each know
  how long a field is and what it may hold.

The list of hazards, each at its line with the properties that guard it, is
`PROJECT.json`, "hazards".

### What makes each component correct

| component | properties |
|---|---|
| VerifyMultiproof | sound (`AcceptedLeavesAreInTree`); never false on an honest proof (`HonestProofNeverFalse`); the required indices are an exact complement (`RequiredIndicesComplete`); linear and terminating (`NoNodeHashedTwice`, `Termination`); complete for indices on one path (`HonestPathAccepted`), but not for all (`HonestProofAccepted`, see section 5) |
| VerifyProof, Prove | sound (`AcceptedLeafIsInTree`), complete (`MadeProofAccepted`) |
| ProveMulti, Compress | the leaves read before hashing are not out of date after it (`LeavesUpToDate`); `CompressionLossless` |
| Hasher | the buffer is exactly the SSZ roots of the members of the open containers (`HasherHoldsSSZRoots`); it panics at data beyond a limit and nowhere else (`StopsOnlyAtLimits`); the chunks that `Merkleize` does not pad are left out (`TreeRootEqualsHashTreeRoot`, section 5) |
| Wrapper, tree builder | the node stack has these roots (`WrapperHoldsSSZRoots`), and every member is at its generalized index (`MembersAtTheirIndices`); no tree is built where a limit is 0 or no power of two, and nowhere else (`StopsOnlyAtLimits`) |
| HasherPool | exclusive use (`ExclusiveUse`), clean hashers (`PooledHashersEmpty`), and callers cannot tell that there is a pool (`ImplementsHashCalls`, `EveryCallReturns`) |
| SizeSSZ, MarshalSSZ | the size is the number of bytes written (`SizeIsExact`), no nil child is called but in one case (`PanicOnlyAtLastNilChild`), which the repository says does not happen (`MarshalFillsNilChildren`, section 5) |
| UnmarshalSSZ | no bytes make it panic (`UnmarshalNeverPanics`); what was marshalled is accepted and gives the object back (`RoundTrip`); what it accepts can be marshalled (`DecodedIsEncodable`); one object, one encoding, but for three freedoms (`OneEncoding`), of which the fuzz tests know nothing (`AlterationIsNoticed`, section 5); a used object is overwritten, but for its byte slices (`KeepsOnlyBytes`) |
| hashNode on shared memory | the leaves stay as they are and every value is nil or right (`HashesOfTheLeaves`) |
| Methods of whole objects | what is written is found where it was written, at any depth (`RoundTrip` of Layout); any input is partitioned into fields or refused (`InputPartitioned`); what was decoded can be marshalled and hashed (`DecodedIsUsable`); marshalling and hashing accept the same objects (`HashAgreesWithMarshal`) |
| Generator, tag parser | what is made of a struct does not depend on the order of Go's maps (`OutputIgnoresOrder`) and is what its declaration says (`FieldsAsDeclared`), where the declaration settles it, which the generator does not insist on (section 5); a file imports what its fields need (`ImportsAsMeant`), but not all that it names (section 5); no method is missing or there twice (`OneSetOfMethods`) |

## 2. The modules

```
Sorting ── MerkleTree ─┬─ Multiproof ─┬─ MCMultiproof     Merkle ─┬─ Hasher ──┐
                       │              └─ Multiproof_proofs        └─ Wrapper ─┴─ HashWalk ─┬─ MCHashWalk
                       └─ ProofTree ──┬─ MCProofTree                                       └─ HashWalk_proofs
                                      └─ ProofTree_proofs
Sums ─┬─ Encoding ── Codec ─┬─ MCCodec                    HashCalls ◁─ HasherPool ─┬─ MCHasherPool
      │                     └─ Codec_proofs                                        └─ HasherPool_proofs
      └─ SSZTypes ─┬─ Layout ─┬─ MCLayout
                   │          └─ Layout_proofs            SharedTree ─┬─ MCSharedTree
                   └─ SpecTypes, FixtureTypes                         └─ SharedTree_proofs
                      (under MCLayout)
Sorting, Sums ── Induction (under the proofs but           Tags ── Generator ── Declared ── MCGenerator
                            HasherPool's and SharedTree's)
```

**MerkleTree** holds the tree that proofs are about: `Nodes`, a set of
generalized indices closed under parent and sibling, and `Value`, where a
branch's value is `hashFn` of its children's. A byte slice is a sequence of
cells, `HashLen` of which make 32 bytes, and `Copy` is Go's `copy` into a half of the
64 bytes that are hashed: what is too long is cut off, and what is too short, or nil,
keeps the bytes of the pair before. sha256 is a free pairing, that is collision free;
this is the one cryptographic assumption of the project, and soundness needs it. `SortDesc` (**Sorting**) is the library's sort, defined by
counting so that proofs can use it; **Sums** adds up numbers.

**Multiproof** models `VerifyMultiproof` and `getRequiredIndices` with one action
per loop iteration: `NextLeaf` and `Climb` are the nested loops of
`getRequiredIndices`, `CollectRequired` its end and the length check, `Load`
fills `db` and sorts `keys`, and `SkipKnownParent`, `MissingNode`, `HashPair`,
`ReachRoot` and `KeysExhausted` are the branches of the fold. Variables are the
source's locals (`required`, `computed`, `db`, `keys`, `pos`, `tmp`, `cur`). Leaves and
hashes from outside may have any length.

**ProofTree** models a tree whose branches may or may not have been hashed
(`cached`, the branches whose `n.value` is set), the calls `Hash`, `Prove`,
`ProveMulti`, and `VerifyProof` iteration by iteration on the proof as it was
made or `Alter`ed, with bytes of any length in place of a leaf or hash (`tmp` is the
buffer). `Compress` and `Decompress` are operators.

**SharedTree** takes `hashNode` apart. The concatenation of the children and the
hash of it are two steps (`Append32`, `Digest`), taken by goroutines in any order,
in two trees whose leaves lie anywhere in one memory. A leaf made from the
caller's slice may have room behind it, into which `append` writes; `memory` holds
the cells, `joined` what a goroutine has concatenated (a place in memory or a new
array), `hash` what its calls have returned, `value` every `n.value`. A node has
the children `2n` and `2n + 1`; the trees have two levels of branches and one
empty node, so that each of the two ways of `hashNode` to concatenate, below a
leaf, below a hash and before an empty node, occurs.

**Merkle**, **Hasher** and **Wrapper** define the two walkers as records and
operators named after the methods. A *cell* is 8 bytes and `U` cells make a
chunk, so partial chunks exist. A hasher is `[buf, cap, high, panic]`: `high` is
how far the backing array has ever been written, so a re-slice beyond the length
yields `Stale` cells up to `high`, zeros up to `cap`, and a panic beyond. A
wrapper is `[nodes, buf, stuck]`; its nodes keep their children. `stuck` stands for
a panic (a list's limit is no power of two) or an endless loop (a limit of 0).
`Overfull` is what `TreeFromNodes` makes of more leaves than there is room for. `Merkle!Root` is the reference, the SSZ definition
of the root, computed level by level over a full tree, unlike the code.

**HashWalk** runs the generated `HashTreeRootWith` on both walkers at once. The
object is chosen as the walk goes: an action emits a field with the calls of its
template (`PutUint`, `PutFixedBytes`, `PutDynamicBytes`, `PutBits`,
`PutUintVector`, `PutUintList`, `PutRoots`, `PutRootList`), opens or closes a
container, a list or a vector, or ends the walk. Elements of a list or vector of bytes
are written with `Append` when they are a chunk long and with `PutBytes`, one by one,
when they are not (`hash.go` 46-52: the frames `byteVectors` and `vector`; the model
lets the elements of one list differ in size, which is more than a type allows).
What a template refuses with an error is no step of it; a bitlist over its limit is
refused nowhere and so is a step. HashTreeRoot and GetTree are two calls: where the
Wrapper is stuck the Hasher walks on. `NextWalk` hands the hasher to another
walk, also in the middle of one, which is what an error in a walk does. Each
frame collects the roots that the SSZ definition gives to its members. The
constant `Plans` names several sets of bounds; a behaviour keeps to one of them.

**HasherPool** models goroutines in `HashWithDefaultHasher`: `GetPooled`,
`GetNew`, `AppendChunk` (one chunk of the walk), `MerkleizeWalk`, `WalkError`,
`WalkPanic`, `HashRoot`, `ResetHasher`, `PutHasher`, `Return`; `DropPooled` is the
garbage collector. **HashCalls** is its abstract specification: calls that
answer for their own object. The refinement mapping (`Promise`) hides the pool
and shows a call from its invocation to its return.

**Encoding** has the operators for one field: where it lies in the fixed part,
what `SizeSSZ` counts, what `validate` refuses, its bytes, and what its decoding
refuses and leaves in the object. A struct type is a sequence of fields, each a
record of a kind (`uint`, `bool`, `fixedBytes`, `bytes`, `bitlist`, `list`,
`dynlist`, `child`) and the numbers of its tags. Bytes are numbers up to 255,
since offsets, bitlists and booleans are read from them.

**Codec** runs the generated methods on one object, field by field: `MarshalFixed`
and `MarshalOffset` are the first loop of the marshal template, `MarshalTail` the
second; `UnmarshalFixed` and `UnmarshalOffset` the first of the unmarshal
template, `UnmarshalTail`, `BeginItems` and `UnmarshalItem` (one round of
`UnmarshalDynamic`) the second. `obj`, `out` (`dst`), `offset`, `input` (`tail`),
`offs` (`o0`, `o1` ...) and `items` are the source's variables; `at` is the
generator's counter `c`. The object outlives the calls, so that a nil child that
`SizeSSZ` created, or bytes that a failed decoding left behind, meet the next
call. `wire` and `sent` remember the last marshalling and `origin` where the
object comes from. `Received` says what arrives where given bytes were sent.

**SSZTypes** says what a struct type is at the level of lengths; **SpecTypes** and
**FixtureTypes** are the types with committed generated code, field by field with
the sizes and limits that stand as literals in their methods. **Layout** runs
`SizeSSZ`, `MarshalSSZ`, `MarshalSSZTo`, `UnmarshalSSZ` and `HashTreeRoot` on whole
objects, containers within containers: one action per call. `Generated` makes the
methods of a type out of those of its parts (`Methods`), as the generator's templates
nest; what containers and slices have in common (heads of fixed size or offsets,
tails behind them) is written once (`Encode`, `Decode`, `Pieces`). Bytes are not held; an encoding is its length, the
offsets in it and the bits that end its bitlists, and a decoding notes which
bytes it read for which field. Where Codec shows that the bytes of a flat struct
are right, Layout shows that the literals of five methods of 74 types agree and
that nothing is lost, shared or left unchecked between levels.

**Tags** has the two readers of struct tags: the scanner `GetSSZTags` as a state
machine over pieces of text, with `extractSSZDimensions` behind it, and `getTags`.
A piece may be one that `text/scanner` reports as an error. Numbers are Go's: a
negative one is accepted and wraps to a huge unsigned size (`Uint64` stands for 2^64).
**Generator** is `generator.go`: the loops of `generateIR` over the files of the
source and of the included packages, where each visit of a file is a step, since
Go's maps yield them in any order (`ImportFile`, `DecodeFile`, `IncludeFile`,
`CheckFuncs`, `EncodeNext`), and the two ways of output (`PrintFile`,
`PrintTogether`). `e` is the source's `env`; `encodeItem`, `parseASTStructType` and
`parseASTFieldType` are recursive operators that take it and give it back, since a
struct met on the way is cached in it. Of the templates' text there is what
depends on the rest: which structs get methods, which packages the text names
and which are recorded for its imports, and which types no template can be
executed for. **Declared** gives the meaning of the same declarations the way Go
itself reads them: the length of an array is its own, whatever a tag says, and a
slice that no dimension bounds is unbounded. It states the properties.

Operators commented *Variant* are not part of the model: each is a definition
with a plausible mistake, kept beside the original. Putting one in the place of
the original makes TLC report the property listed with it in `PROJECT.json`
("mutants"), which shows that the property depends on that line of the code.

## 3. What the runs check

| run | instance | result |
|---|---|---|
| `multiproof` | full tree of depth 3; lists of 2 indices in every order, 3 increasing; honest input and every change of one leaf or hash (to other bytes, to fewer, to more, to nil) or of one length; the call that asks for nothing | all properties hold |
| `multiproof_honest` | depth 3, honest input | **violated**: finding 1 |
| `walk` | five plans: every field shape around the chunk boundaries, two fields in two walks, or (at one limit of each kind) in one with containers, lists and vectors open; few shapes nested three deep; four fields in one container or list; bitlists over their limit | all hold |
| `walk_partial` | vectors of 5 cells and of 1, 2 to a chunk | **violated**: finding 2 |
| `pool` | 2 goroutines, 3 hashers, an object that hashes, one that fails, one that panics | all hold, with liveness and refinement |
| `proof_tree` | 11 nodes with zero subtrees of two depths, proofs of every node in every state of the cache, one alteration, to other bytes, to fewer, to more or to nil; multiproofs of one and two nodes | all hold |
| `codec` | eight struct types of one to three fields, 130 objects with empty, full, oversized and malformed fields and nil children; three calls; bytes as sent, with one byte changed, cut off, inserted, or an offset put in front, and two crafted encodings | all hold |
| `codec_nil_child` | the same, one call | **violated**: finding 3 |
| `codec_altered` | the same, two calls | **violated**: finding 4 |
| `layout` | the 74 types, with lists empty, of one and of two elements; for 10 of them also objects with one field, at most two structs deep, nil, too short, too long or at its limit; three calls; for 9 types and encodings of at most 16 offsets, input with an offset moved, a bitlist's end changed or the length changed | all hold |
| `generator` | 300 packages of one to three files in every order: 15 field types under 14 tags, tags of odd spelling, negative numbers in them and text that the scanner refuses, array lengths that are numbers, constants and expressions, embedding, loops, aliases, constants, targets, exclusions, one file of output, methods written by hand, another package under one or two names, an included file of the same package | all hold |
| `shared_tree` | two trees of seven nodes over four cells, leaves with and without room anywhere in three of them; two goroutines in two trees or in one, or one of them in both | holds |

### Bounds, and why they are enough

- *Depth 3* (`Depth`) is the first at which two leaves' paths meet above a level
  that still has work to do, which is what breaks the work list (finding 1).
  Soundness does not depend on the bound: it is proved.
- *`U` = 2* cells per chunk has aligned and partial chunks; a field shorter than
  a chunk, one of an even and one of an odd number of chunks with and without a
  rest all occur. The real 4 adds no further case.
- *`MaxTreeDepth` = 4* is only the size of the table of zero hashes; the largest
  limit of a run (8 chunks) needs depth 3.
- *`MaxOps`*, *`MaxMembers`*, *`MaxNesting`*, *`MaxWalks`* bound the object. Two
  fields suffice for what one field leaves behind in the buffer for the next,
  two walks for what one leaves to the next, three members for an odd layer
  above a field, nesting of three for an index below an index below an index.
- The passing walks leave out vectors of uint64 of 1 and 5 cells, which `walk_partial`
  is about (finding 2). Limits of 0 and limits that are not
  powers of two, containers without a member and bitlists over their limit are in: the
  properties about roots and trees speak of walkers that have not stopped, and
  `StopsOnlyAtLimits` says for each where it stops, in both directions. Over-long
  bitlists have up to 8 chunks over limits of 1, 2 and 4, so that `TreeFromNodes` takes
  each of its branches with too many leaves. A bitlist with `ssz-max` 0, for which every
  call is refused or panics, is left out.
- *`HashLen` = 2* cells of 32 bytes: bytes can be one cell short, one cell too long, or
  nil, and half of a buffer can be old.
- *Three hashers for two goroutines*: one more than can be in use, so a pooled
  hasher can stay behind while both goroutines hold others.
- *`MaxCalls` = 3* lets an object be marshalled and read back after any other
  call, and what was decoded from foreign bytes to make the round trip. The struct types have every
  kind of field as the only, the first and the last variable one, and offsets with
  fields before, between and after them. One byte takes the values 0, 8, 64 and
  its own plus one, so that every offset is once too small, too large, misaligned
  and out of order, and a bool neither 0 nor 1. All of it stays below 2^31: the
  integers that `int(offset)` could wrap on a 32-bit build are not reached.
- `layout`: `Registry` = 65536 stands for the limit 1099511627776 of validator
  lists, which is above TLC's integers; no check depends on it but the upper
  limit of a list of that length, which no instance reaches in the code's own
  value either. `Junk` is what bytes that hold no offset read as. `MaxUint32` is
  TLC's greatest integer, 2^31 - 1; no encoding of an instance comes near it. `MaxOffsets` =
  16 leaves an encoding with more offsets unaltered: each of its offsets is read by
  the same few lines. A length other
  than 0, 1 and 2 occurs in the deviant objects, at limits up to 16 for lists of
  structs. `MaxCalls` = 3 as above.
- `generator`: `MaxNumber` = 4 stands for the largest int of Go, and is the largest
  number in a tag; a negative one wraps to one above it. Three files give every
  relation of visiting order that two uses and one declaration can be in.
- `shared_tree`: four cells let two leaves be the same, neighbours, or apart, and
  a leaf lie in the room behind another. The theorem of section 4 covers any
  memory and number of goroutines.
- `CHECK_DEADLOCK FALSE` stands in the walk runs only: a walk ends at the bounds.

### Fairness

`Multiproof` has `WF_vars(Next)`: the verifier is sequential code of one
goroutine, and while it has a step it takes it. `HasherPool`
has weak fairness of each goroutine's `Proceed`: the Go scheduler is preemptive
and runs every goroutine that can run, and none of the steps waits for another.
There is no fairness of `Invoke` and of the garbage collector. `HashWalk` has
none and no liveness property; neither have `ProofTree`, `Codec`, `Layout`, `Generator`
and `SharedTree`: sequential code whose loops run over fields, files, nodes and counts
fixed before they begin.

## 4. What is proved

TLAPS checks the theorems for every value of the constants that satisfies the
named assumptions, so for trees of any shape and depth, lists of any length, any
number of goroutines, hashers and objects.

**VerifyMultiproof** (`Multiproof_proofs`): every property of it but termination, as
`TypeCorrect`, `Soundness`, `HonestNeverFalse`, `LinearWork`, `RequiredIsComplement` and
`HonestPathIsAccepted`. Soundness as stated is not inductive: the answer is given at
the end and the argument is about how `db` came about. The invariant `IInv` says
that the climb of `getRequiredIndices` leaves no gap (`ClimbInv`: the parent of
every node passed, but for the one climbed from, is in `computed`), that the
required indices are disjoint from what is computed and given (`WalkedInv`), and
that what is in `db` was given or is the hash of what its two children in `db` left in
the buffer (`DbInv`). From these, `AcceptedLeavesAreInTree_Inv` descends from the root:
were some node in `db` on a path different from the tree's value, take the one
with the least index; it is not the root, so its parent is in `db`, agrees with
the tree, and was computed, for it is on a path and the indices are independent;
hashing is injective, so the buffer held both children's values. A child in `db` that was
computed is as long as a half of the buffer, and so is what was copied; one that was
given may be longer or shorter, and then it is a leaf whose first 32 bytes, or a hash
whose remains, are compared: the claim is about the leaves as they are copied. This is where
`IndependentIndices` is needed, and the code does not check it: an index above
another overwrites nothing and is compared with nothing below it. `HonestNeverFalse`
is the converse, bottom up (`HonestInv`). `LinearWork` states `NoNodeHashedTwice`:
the work list is as long as the indices and hashes given plus the nodes hashed
(`CountInv`), and a node is hashed only if the climb has counted it, because the
parents of the given, of the computed and of the siblings are all in `computed`
(`SiblingInv`); no node is hashed twice, for it then is in `db`.

`RequiredIsComplement` states `RequiredIndicesComplete`: the set that the loops have
collected is the complement of the indices on their paths (`WalkInv` while they climb,
`CollectInv` after), and with it every path from a leaf to the root is *cut* exactly
once: walking up from a leaf, the first node that is given or required exists, for
the root is computed (`CutExists`), and is the only one, for an index above it would
be computed (`CutIsUnique`). `HonestPathIsAccepted` states `HonestPathAccepted`, which
is where the order of the work list matters (finding 1): if all indices lie on one path,
the list without what was appended is sorted downwards, a node on the path is
appended before the entries that are left are above it, and so the sibling of each
entry taken up is in `db` already (`QueueInv`).

**VerifyProof and Prove** (`ProofTree_proofs`): `TypeCorrect`,
`VerifyProofIsSound`, `ProveIsComplete`, `LeavesStayUpToDate`. The invariant relates the loop to the
path: what is left of the path is as long as what is left of the hashes
(`LengthInv`), so the loop ends at the root exactly; if the hash so far is the
tree's value at `k`, the leaf is the tree's at the index (`SoundInv`); on an
unaltered proof, the hash so far *is* the tree's (`CompleteInv`). `HashUp` is the
one step, for both sides of a pair. `LeavesStayUpToDate` states
the action property `LeavesUpToDate`: ProveMulti reads the leaves and hashes after, so
a leaf it read could be out of date when it returns; what it hashes lies beside the
paths of the leaves (`RequiredAside`, on the list of `RequiredIndicesList`), so none is. `CompressionLosesNothing`
states `CompressionLossless`: the hashes of a multiproof are those that the required
indices name (`MultiInv`); the loop of `Compress` leaves out the hashes that are zero
hashes and notes their levels (`CompressSteps`), and `Decompress` fills each gap with
the level whose turn it is (`DecompressUndoes`).

**HasherPool** (`HasherPool_proofs`): `TypeCorrect`, `HashersAreExclusive`, `PoolIsClean` and
`PoolImplementsCalls`, the refinement of `HashCalls`. The invariant adds that a
free or pooled hasher belongs to no call, that the buffer of a call in its walk
is the prefix of the object's walk that has been appended, that walks begin at
index 0, and that a known answer is the object's. Exclusive use is what makes
the buffer invariant survive the steps of the others.

**Codec, safety of the calls** (`Codec_proofs`): `UnmarshalIsSafe` and
`MarshalIsSafe`. That no slice expression panics when variable fields are decoded
was decided when the offsets were read, so `IInv` carries it over: the offsets
read are in order and within the input (`OffsetsInv`), there is one for each
variable field passed, and the second loop has used one for each it has passed
(`AtInv`, counting with `Cardinality`). For marshalling, `ChildInv` says which
children exist: all of them after `SizeSSZ`, and in `MarshalSSZTo` those before
the field at hand, but for the last variable one. The positions of the fixed part
are sums over the fields; that they follow one another is `LayoutFacts`.

**Codec, what is written** (`Codec_proofs`): `TypeCorrect` (`TypedInv`: the object
has the shape of its type at every step, also after a decoding that failed half
way), `SizeIsRight` states `SizeIsExact` (`SizeInv`: what is in `dst`, plus what the
rest of the loop will append, is what `SizeSSZ` counts) and `DecodedFits` states
`DecodedIsEncodable` (`FitInv`: every field that has been decoded passes
`validate.go`). `DecodedFits` assumes that bitlists have room (`BitlistsHaveRoom`):
with `ssz-max` 0 the bitlist `<<1>>` passes `ValidateBitlist` and is then refused
by the marshal template, whose limit counts bytes.

**Codec, the round trip** (`Codec_proofs`): `WrittenIsRead` states `RoundTrip` and
`OnlyBytesKept` states `KeepsOnlyBytes`, for encodings shorter than 2^32 bytes, which
is what an offset of four bytes can point into; the code does not check it.
`WrittenInv` says where in `dst` everything is while the two loops of the marshal
template append: the fixed part with, for each variable field passed, an offset
that is the sum of the lengths before it. `ReadInv` follows the two loops of the
unmarshal template over the same bytes: the offsets read are those sums, so that
each variable field is cut out of the input where it was written, and what is
decoded so far equals what was sent (or ends with it, in a used object).
`ShapeInv` carries the last encoding from one call to the next. The lemmas under it
are about the helpers: `ReadWritten` (an offset is read as it was written),
`ListDecodes`, `ItemsWritten` and `ItemAsSent` (a list of variable items, one level
of offsets further down), `ChildDecodes`.

**Codec, one encoding** (`Codec_proofs`): `OneObjectOneEncoding` states `OneEncoding`,
for any bytes and without a bound on their length. It is the round trip from the
other side: `RecodedInv` follows UnmarshalSSZ over bytes that need not have been
written by MarshalSSZ and says that what has been read so far is what marshalling
would write for what it was decoded to, but for the freedoms that `HasFreedom` names
(`FixedRecodes`, `TailRecodes` and `ItemsRecode` for the fields and the items, whose
invariant is that the offsets read so far are where the items cut so far end).
Where the variable fields are follows last, when all has been read: the first begins
behind the fixed part, or there is a gap, and each ends where the next begins, so
by induction over the fields all were found where marshalling puts them
(`FoundWhereWritten`), the offsets in the fixed part are the ones it writes, and
bytes that agree in all their parts are the same (`AlikeInParts`).

**hashNode on shared memory** (`SharedTree_proofs`): `HashesOfTheLeavesAlways`. Leaves
and values alone are not inductive: `IInv` adds that the calls return bottom up
(`Chain`), that a goroutine holds the true hashes of the children its next call
needs (`HashInv`), and that what it has concatenated is still there (`JoinedInv`):
either in an array of its own, or in memory with the right neighbour behind the
leaf. The one step that could break the invariant of others is an append in
place. `AppendIsWrite` makes it one of the writes that the premise `Safe` speaks
of; it then leaves the leaves alone (`Disjoint`), and a slice that another
goroutine waits to hash keeps its content, because two goroutines at work exclude
`Alone` and leave `OneWrite` (`TwoAtWork`).

**Hashing** (`HashWalk_proofs`): all five invariants of the walk, as `TypeCorrect`,
`HasherComputesSSZRoots`, `WrapperBuildsSSZRoots`, `MembersWhereProofsLook` and
`OnlyLimitsStop`: for chunks of any size, objects of any size, limits and nesting,
and any number of walks with one hasher. The inductive invariant `WalkInv` has four
parts. `StackInv`: the open frames begin one behind the other, have room for what will
be added, and their roots are chunks. `HasherInv`: the hasher's buffer is the
concatenated roots of the open frames, and each frame's index is where its roots begin;
whatever lies behind the length of the buffer is left open, which is how the proof
covers a hasher that others have used. `WrapperInv`: either the wrapper was
given the limit 0 or one that is no power of two and builds no tree, or nothing waits in its buffer, its nodes have the roots
of the open frames and the node on top has the members of what was merkleized last at
their indices. Instead of all this the hasher may have panicked at data beyond a limit,
which an over-long bitlist brings, and the walk is over (`Panicked`). The properties alone are not inductive: a step that closes a frame
needs the index of the frame below, and the tree on top needs to be one whose root
comes from its leaves.

On the way, each operation gets a lemma that says what it appends, for any contents
below. `MerkleizeIs`, `MerkleizeStep` and `MixinStep` are the heart of the Hasher's side:
`merkleizeImpl` works layer by layer in place and pads each layer with a zero hash,
where SSZ speaks of a full tree; the induction over the levels shows that what is
left after i layers is the beginning of the i-th level of that tree, and all behind it
are zero hashes (`IsLevels`). `TreeOver` and `GetsLeaves` are
the Wrapper's: the tree that `TreeFromNodes` builds has the same levels, and `Get`
descends them by the digits of the index. Digests and nodes are tuples and records
of one another, of any depth, and so are in no set that the type invariant could name
directly; the lemmas are about any set closed under making them (`IsUniverse`), and
one such set is built in stages (`StageIs`), since sequences over a set are
what the provers reason about.

**Methods of whole objects** (`Layout_proofs`): all four invariants of Layout, as
`RoundTripAlways`, `InputPartitionedAlways`, `DecodedIsUsableAlways` and
`HashAgreesWithMarshalAlways`, for any set of types of any depth, of any sizes and
limits, not only those with committed code, and for any bytes. None of them says
anything inductive about a type. `Generated` is a recursion over types, so the first
lemmas give it meaning (`GeneratedIs`: a type's methods are those made of its parts'
methods), and an induction over the depth of types (`MemberInduction`) then proves six
laws, each of which says of a type's methods what it needs of its parts' methods:

- `SizeLaw`: what SizeSSZ leaves it finds as it left it, and it is the length written;
- `WireLaw`: what MarshalSSZTo leaves, all the other methods leave alone, and they
  accept it, but for the bits of bitlists;
- `RootLaw`: the same of what HashTreeRoot leaves;
- `PieceLaw`: the pieces of an encoding cover it, every byte in exactly one of them;
- `ReadLaw`: UnmarshalSSZ does not panic, and an object that it makes of any bytes
  is marshalled to as many bytes as were read, gaps aside, which the pieces it read cover;
- `ReturnLaw`: bytes that say at each offset and at the end of each bitlist what an
  encoding says there are decoded to the object, piece by piece where it was written.

Their steps are about lists of numbers. Heads and tails ascend and end where the
next begins (`HeadsAre`, `CutsAscend`, `CutsPart`), so that pieces that cover the members
cover the whole when they are moved there (`PiecesCover`). In `ReadLaw` the bytes are
not an encoding: that the offsets which passed `OffsetRefused` and `ItemRefused` ascend
within the bytes (`OffsetsOrdered`, `ReadStartsAre`) is what makes each slice legal, and the
length of what is marshalled then differs from that of what was read by the gaps before
the first offset of each level (`GapsAdd`). In `ReturnLaw` the offsets are those that were
written, so none is refused (`NoneRefused`) and they lead to where the tails begin
(`StartsBack`). The inductive invariant `IInv` of the caller adds `Kept` to the properties: the object is
one of its type; when it was marshalled, hashed or decoded, it is one that MarshalSSZTo
or HashTreeRoot leaves as it is (`Sound`); and what was sent is still the encoding of the
object that it was then (`Carried`). A property speaks of two calls with others
between them, and these facts outlive the calls between.

**Induction** (`Induction`) is what the proofs about data share. The library's
induction theorems take an operator as a parameter, which no installed prover can
instantiate; `SetInduction` takes a set instead, and `StepsExist` and `StepsAgree`
turn it into existence and uniqueness of functions defined by recursion. From
these follow the powers of two, the recursion of `FlattenSeq`, the sums (`SumSteps`) and
what sorting a finite set returns: each element once, in decreasing order
(`SetToSortedDescType`). Sums, concatenations, ancestors, levels and the methods of types are
recursive functions, never RECURSIVE operators, so that these lemmas reach them.

### Assumptions

Each module states what it needs of its constants as a named ASSUME, which TLC
evaluates in the runs. For the tree: `Nodes` is closed under parent and sibling, and a
branch's value is the free pairing of its children's. For Codec: field types with
sizes and limits that are numbers, objects of the shape of their type
(`InstancesAssumption`), and the number of calls a number. That the fixed part of a
struct is laid out without gaps is not assumed: it is a lemma (`LayoutFacts`). For Layout
(`TypesAssumption`): the parts of a type are types, less deep than it is, and `WellFormed`
is what the generator sees to, that a container's size is the sum of the widths of its
fields and that the elements of a list have a size; `CallerAssumption` says that a caller
has objects of struct types. An encoding longer than its offsets of four bytes can say
(`MaxUint32`) is not in `Wires`: the code does not refuse to write it, and nothing is said
about decoding it. For HashWalk
(`PlansAssumption`): what SSZ says of types, that vectors are not empty and a bitlist has
room for a bit, and that every tree has its place in one of `MaxTreeDepth` levels;
containers may be empty, limits 0, and bitlists longer than theirs. The theorems about
HashWalk have the premise `NoVectorLost` besides: no vector of uint64 has one of the
lengths of which `Merkleize` loses the last, partial chunk. It is stated as their
premise and not as an ASSUME of the module, since the run `walk_partial` is about
vectors that break it (section 5); the plans of the run `walk` keep to it, with vectors whose last chunk is whole and vectors whose last chunk is
partial.

### Only model-checked

- Liveness (`Termination`, `EveryCallReturns`): ENABLED is out of the prover's reach.
- `OutputIgnoresOrder`, `FieldsAsDeclared`, `ImportsAsMeant` and `OneSetOfMethods`
  of `Declared`: the parser of `Generator` goes down into types and takes and gives back
  the environment, in mutually RECURSIVE operators, for which the prover has no SMT
  backend. The types it meets may refer to themselves, so that there is no depth to
  make a recursive function over.

## 5. Findings

1. `VerifyMultiproof` refuses some honest proofs (`proof.go` 89): computed parents
   are appended to the end of the sorted work list, so with leaves 8 and 10 of a
   tree of depth 3 a node is taken up before its sibling exists. Run
   `multiproof_honest`.
2. `merkleizeImpl` does not pad. It drops a partial chunk after an even number of whole
   ones (`hasher.go` 373-387); generated code for uint64 vectors does not pad either, and
   the root from GetTree differs, which `structs_test.go` 220-228 compares it with. Run
   `walk_partial`. A single partial chunk is re-sliced to 32 bytes beyond the length
   (363), and the root depends on what the pooled hasher hashed before, against the
   comment on padding (348-350): that is what the run shows when the vector of five cells
   is taken out of `Partial`.
3. `MarshalSSZTo` panics at a nil child that is the last variable field (`marshal.go`
   151), where `fuzz.go` 188 says that "marshal fills empty values" and `size.go` 12-13
   leaves nil fields to marshal to fail on. MarshalSSZ does not: SizeSSZ has made the
   child. Run `codec_nil_child`.
4. Altered bytes can decode to the object that was sent: bytes put in behind the fixed part
   (`unmarshal.go` 277-281) or behind the zero offset of an empty list, or written over a
   false bool (`encode.go` 64). `TestFuzzUnmarshalAppend` and `TestFuzzUnmarshalShuffle`
   call that an error (`structs_fuzz_test.go` 155-156, 191-192). Run `codec_altered`.

Behaviour that the properties of the passing runs allow for, and state exactly:

- Three limits stop a walker, and `StopsOnlyAtLimits` says that nothing else does. A list
  whose limit is not a power of two has a root, but `GetTree` panics (`wrapper.go`
  202-207). GetTree of a container without fields, or of a list of limit 0, does not
  return: the depth is `floorLog2(0)`, and the table of zero hashes is never finished
  (`tree.go` 303-313), although the comment of `Case3B`, which has no fields, says that
  it hashes the object (`case3_encoding.go` 53). HashTreeRoot of a bitlist with more
  chunks of bits than its limit panics ("BUG: count '%d' higher than limit '%d'",
  `hasher.go` 355), for the template checks nothing but that it is not nil (`hash.go`
  170-180), where other lists are refused with an error.
- `Prove` of an index below a leaf dereferences nil before it reaches "Node not found in
  tree" (`tree.go` 326, 331-333): the result is then "panic" and there is no proof.
- `Prove` of a branch that nobody hashed returns a nil leaf (`tree.go` 340):
  `MadeProofAccepted` excepts it.
- `MarshalSSZTo` panics at a nil child that is the last variable field, where
  `MarshalSSZ` does not (finding 3): `PanicOnlyAtLastNilChild` says that this is the
  only panic.
- A nil bitlist, or one without its length bit, is marshalled (`validate.go` 14-17)
  and its bytes are refused: `RoundTrip` excepts it.
- UnmarshalSSZ into a used object appends to its byte slices (`unmarshal.go` 51, 78):
  `KeepsOnlyBytes`.
- A bool is false for every byte but 1 (`encode.go` 63-67), bytes may be inserted
  between the fixed part and the first variable field (`unmarshal.go` 281), and an
  empty list of items may be written as a zero offset with anything behind it:
  `OneEncoding`, each of whose exceptions occurs in the run, has no more than these
  (finding 4 is about them); `InputPartitioned` counts the gaps.
- SizeSSZ creates a nil field of variable size and counts it (`size.go` 64-67), so
  that a query changes the object: `SizeIsExact` is about the object after it. The
  comment says otherwise (12-13): "if any of the internal fields of the struct is nil, we
  will not fail, only not add up that field to the size".
- Marshalling does not count the bits of a bitlist, hashing does:
  `HashAgreesWithMarshal` is about valid ones.
- `hashNode` appends to a leaf that is a slice of the caller's memory (`tree.go`
  291). A leaf in the room behind another one is overwritten, which the premise
  `Disjoint` excludes; two trees over the same memory, hashed at the same time, can both
  get wrong hashes when a place is appended to with two contents, which the rest of
  the premise `Safe` excludes. `LeafFromBytes` also writes
  its padding there (`tree.go` 411).

What the generator does, where the properties of `Declared` make an exception or
state a weaker fact:

- Names of types and constants are looked up without their packages (`SharedNames`,
  `generator.go` 718, 873).
- `valuesImported` is never reset: a file also imports what files printed before it
  needed (`ImportsAsMeant`); unused imports do not compile.
- A byte string that is an alias of another package is named in the text (`unmarshal.go`
  44), but imported only as the element of a slice (`Foreign`), where `generator.go` 467
  inserts "any required imports". Packages go by the last name of their path,
  or by an alias that must be the same in all files (`SharedRefs`).
- Fields declared together are dropped, and `ssz:"-"` on an embedded struct has no
  effect (`Dropped`, 936-964).
- `getTags` needs exactly one blank between pairs and no blank or colon in a value,
  or it finds nothing behind them; neither does it behind a value in broken quotes
  (`Unreadable`, 1206-1232).
- The size of a struct with methods of its own comes from the tag of its first
  user (`DifferentSizes`, 893-911).
- An alias of a struct gets no methods; methods written by hand are printed again
  unless the type is excluded; structs of included files get none (`given` in
  `OneSetOfMethods`).
- `FieldsAsDeclared` holds what was parsed against the declaration as Go reads it, of
  fields that are `Settled`. Three kinds of field are not, and all occur in the run:
  - a tag gives an array another length than its own, or makes it a list
    (`Redimensioned`). The dimension is written over the length (`generator.go` 1111-1117):
    a `[2]byte` with ssz-size 4 counts as 4 bytes in every template, and the validation
    template checks nothing, since the size of an array is "a constant we don't need to
    check" (`validate.go` 6);
  - no dimension bounds a slice inside another (`Unbounded`). `src/README.md` 36 says that
    without tags "when required" the generator "will fail"; it gives the inner one the limit
    0 (1073-1075). An array whose length is an expression, such as `pkg.N`, is read as a
    slice (1031-1046);
  - a dimension is negative (`Negative`): `strconv.Atoi` accepts it, and it becomes a huge
    unsigned size.
- Recursion among types overflows the stack; lists of bools or of structs with
  methods written by hand, and vectors of containers, panic in the templates
  (`err` is then "overflow" or "panic", and no property speaks of the output).

## 6. What is not modelled, and the plan

Built, in this order: `MerkleTree`, `Multiproof` and their proofs (the verifier of
proofs from outside first), `Merkle`, `Hasher`, `Wrapper`, `HashWalk` (the hashing that
everything rests on), `HashCalls`, `HasherPool` and proofs, `ProofTree` and proofs,
`Encoding`, `Codec` and proofs, the type modules, `Layout` and proofs, `Tags`, `Generator`
and `Declared`, `SharedTree` and its proofs.

Not modelled, and why:

- *The text of the templates* beyond the calls, checks and package names that the
  modules above have: naming of variables and layout. `Layout` and `HashWalk` model
  the code that comes out. `Case4`, whose children have methods written by hand
  that do nothing, has no layout to check.
- *Choosing and writing files* (`parseInput`, the hash of the source, `main.go`): file
  system and flags.
- *Capacities that `Extend*` reuse* and decoding into a used object in `Layout`;
  Codec has the latter for flat structs.
- *Torn reads of a slice header*: two goroutines that write one `n.value` both
  write 32 bytes of a slice of the same length, so every mixture is a slice; a
  goroutine in `Prove` may read the value before or after. `SharedTree` has the
  writes, no concurrent `Prove`.
- *`NativeHashWrapper` in place*: modelled by its effect. It reads pair i of the
  layer and then writes hash i, so the output never overtakes the input.
- *`nextPowerOfTwo` above 2^32* (`hasher.go` 328): TLC's integers end at 2^31. Limits
  above occur (1099511627776) and are powers of two, which the function leaves
  as they are.
- *`Show`, the fuzzing harness and test helpers*: no state of the library.

Next: a module of reduced word width for `nextPowerOfTwo`; hand-written walks
(`PutUint64Array`, `PutRootVector`) in `HashWalk`.

Left out for good: wording of errors, formatting of generated source, and sha256
itself.
