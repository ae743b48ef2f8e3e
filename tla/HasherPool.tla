---------------------------- MODULE HasherPool ----------------------------
(***************************************************************************)
(* HashWithDefaultHasher and HasherPool (hasher.go): goroutines that hash  *)
(* objects with hashers taken from a shared sync.Pool.                     *)
(*                                                                         *)
(* The walk over an object is the sequence of chunks it appends to the     *)
(* hasher, one step each, so that calls interleave; what it ends with is   *)
(* its outcome.  sync.Pool is external: Get may hand out any pooled hasher *)
(* or none, and pooled hashers may disappear.                              *)
(***************************************************************************)
EXTENDS Integers, Sequences

CONSTANTS
    Callers,    \* goroutines
    Hashers,    \* memory for hashers
    Objects,    \* objects to hash
    Chunks,     \* what a walk appends
    Walk,       \* Walk[o]: the chunks HashTreeRootWith appends for o
    Outcome     \* Outcome[o]: "ok", "error" or "panic" at the end of it

ASSUME ObjectsAssumption ==
    /\ Objects # {} /\ "no call" \notin Objects
    /\ Hashers # {}
    /\ \A o \in Objects : /\ Walk[o] \in Seq(Chunks)
                          /\ Outcome[o] \in {"ok", "error", "panic"}

VARIABLES
    pool,       \* the hashers in sync.Pool
    buf,        \* buf[h]: the chunks in the buffer of h
    pc,         \* where each call is
    obj,        \* the object of the call
    hh,         \* the hasher of the call
    indx,       \* the index the walk started at
    step,       \* chunks appended by the walk so far
    root,       \* the answer, once known
    ret         \* the answer the caller was last given

vars == <<pool, buf, pc, obj, hh, indx, step, root, ret>>

NoAnswer == [status |-> "none", digest |-> << >>]
Failed(why) == [status |-> why, digest |-> << >>]

(* The root of a sequence of chunks, injective in the sequence.            *)
Digest(s) == <<0, s>>

Answer == [o \in Objects |->
             IF Outcome[o] = "ok" THEN [status |-> "ok", digest |-> Digest(Walk[o])]
             ELSE Failed(Outcome[o])]

(* Values of locals that are not in use.                                   *)
SomeObject == CHOOSE o \in Objects : TRUE
SomeHasher == CHOOSE h \in Hashers : TRUE

(* The program points at which a call holds a hasher.                      *)
Holding == {"walk", "root", "reset", "put"}
Holds(c) == pc[c] \in Holding

(* Memory that is neither pooled nor in use.                               *)
Free(h) == h \notin pool /\ \A c \in Callers : Holds(c) => hh[c] # h

Init ==
    /\ pool = {}
    /\ buf = [h \in Hashers |-> << >>]
    /\ pc  = [c \in Callers |-> "idle"]
    /\ obj = [c \in Callers |-> SomeObject]
    /\ hh = [c \in Callers |-> SomeHasher]
    /\ indx = [c \in Callers |-> 0]
    /\ step = [c \in Callers |-> 0]
    /\ root = [c \in Callers |-> NoAnswer]
    /\ ret  = [c \in Callers |-> NoAnswer]

Goto(c, l) == pc' = [pc EXCEPT ![c] = l]

Invoke(c, o) ==
    /\ pc[c] = "idle"
    /\ obj' = [obj EXCEPT ![c] = o]
    /\ Goto(c, "get")
    /\ UNCHANGED <<pool, buf, hh, indx, step, root, ret>>

(* Variant: an index too low.                                              *)
BeginTooLow(c, h) ==
    /\ hh' = [hh EXCEPT ![c] = h]
    /\ indx' = [indx EXCEPT ![c] = Len(buf'[h]) - 1]
    /\ step' = [step EXCEPT ![c] = 0]
    /\ Goto(c, "walk")
    /\ UNCHANGED <<obj, root, ret>>

(* The walk begins on hasher h with indx := hh.Index().                    *)
Begin(c, h) ==
    /\ hh' = [hh EXCEPT ![c] = h]
    /\ indx' = [indx EXCEPT ![c] = Len(buf'[h])]
    /\ step' = [step EXCEPT ![c] = 0]
    /\ Goto(c, "walk")
    /\ UNCHANGED <<obj, root, ret>>

(* HasherPool.Get: a pooled hasher, as it is ...                           *)
GetPooled(c, h) ==
    /\ pc[c] = "get"
    /\ h \in pool
    /\ pool' = pool \ {h}
    /\ buf' = buf
    /\ Begin(c, h)

(* ... or, when sync.Pool returns nil, a new one.                          *)
GetNew(c, h) ==
    /\ pc[c] = "get"
    /\ Free(h)
    /\ pool' = pool
    /\ buf' = [buf EXCEPT ![h] = << >>]
    /\ Begin(c, h)

(* One chunk of v.HashTreeRootWith(hh).                                    *)
AppendChunk(c) ==
    /\ pc[c] = "walk"
    /\ step[c] < Len(Walk[obj[c]])
    /\ buf' = [buf EXCEPT ![hh[c]] = Append(@, Walk[obj[c]][step[c] + 1])]
    /\ step' = [step EXCEPT ![c] = @ + 1]
    /\ UNCHANGED <<pool, pc, obj, hh, indx, root, ret>>

WalkOver(c, outcome) ==
    /\ pc[c] = "walk"
    /\ step[c] = Len(Walk[obj[c]])
    /\ Outcome[obj[c]] = outcome

(* Variant: the hasher goes back before HashRoot has read it.              *)
MerkleizeThenPut(c) ==
    /\ WalkOver(c, "ok")
    /\ buf' = [buf EXCEPT ![hh[c]] =
                 Append(SubSeq(@, 1, indx[c]), Digest(SubSeq(@, indx[c] + 1, Len(@))))]
    /\ pool' = pool \cup {hh[c]}
    /\ Goto(c, "root")
    /\ UNCHANGED <<obj, hh, indx, step, root, ret>>

(* hh.Merkleize(indx): what was appended since indx becomes one chunk.     *)
MerkleizeWalk(c) ==
    /\ WalkOver(c, "ok")
    /\ buf' = [buf EXCEPT ![hh[c]] =
                 Append(SubSeq(@, 1, indx[c]), Digest(SubSeq(@, indx[c] + 1, Len(@))))]
    /\ Goto(c, "root")
    /\ UNCHANGED <<pool, obj, hh, indx, step, root, ret>>

(* Variant: after an error the hasher is put back without Reset.           *)
WalkErrorWithoutReset(c) ==
    /\ WalkOver(c, "error")
    /\ root' = [root EXCEPT ![c] = Failed("error")]
    /\ Goto(c, "put")
    /\ UNCHANGED <<pool, buf, obj, hh, indx, step, ret>>

(* Variant: the error is noted but the call goes on.                       *)
WalkErrorIgnored(c) ==
    /\ WalkOver(c, "error")
    /\ root' = [root EXCEPT ![c] = Failed("error")]
    /\ UNCHANGED <<pool, buf, pc, obj, hh, indx, step, ret>>

(* The walk returns an error: Put the hasher, chunks and all, and return.  *)
WalkError(c) ==
    /\ WalkOver(c, "error")
    /\ root' = [root EXCEPT ![c] = Failed("error")]
    /\ Goto(c, "reset")
    /\ UNCHANGED <<pool, buf, obj, hh, indx, step, ret>>

(* The walk panics: nothing is deferred, the hasher is never put back.     *)
WalkPanic(c) ==
    /\ WalkOver(c, "panic")
    /\ root' = [root EXCEPT ![c] = Failed("panic")]
    /\ Goto(c, "return")
    /\ UNCHANGED <<pool, buf, obj, hh, indx, step, ret>>

(* hh.HashRoot(): the buffer has to hold one chunk; it is copied.          *)
HashRoot(c) ==
    /\ pc[c] = "root"
    /\ root' = [root EXCEPT ![c] =
                 IF Len(buf[hh[c]]) = 1 THEN [status |-> "ok", digest |-> buf[hh[c]][1]]
                 ELSE Failed("error")]
    /\ Goto(c, "reset")
    /\ UNCHANGED <<pool, buf, obj, hh, indx, step, ret>>

(* Variant: Reset leaves the buffer alone.                                 *)
ResetNothing(c) ==
    /\ pc[c] = "reset"
    /\ Goto(c, "put")
    /\ UNCHANGED <<pool, buf, obj, hh, indx, step, root, ret>>

(* HasherPool.Put: h.Reset() ...                                           *)
ResetHasher(c) ==
    /\ pc[c] = "reset"
    /\ buf' = [buf EXCEPT ![hh[c]] = << >>]
    /\ Goto(c, "put")
    /\ UNCHANGED <<pool, obj, hh, indx, step, root, ret>>

(* ... and hh.pool.Put(h).                                                 *)
PutHasher(c) ==
    /\ pc[c] = "put"
    /\ pool' = pool \cup {hh[c]}
    /\ Goto(c, "return")
    /\ UNCHANGED <<buf, obj, hh, indx, step, root, ret>>

(* The answer is the caller's; the locals of the call are gone.            *)
Return(c) ==
    /\ pc[c] = "return"
    /\ ret' = [ret EXCEPT ![c] = root[c]]
    /\ Goto(c, "idle")
    /\ obj'  = [obj  EXCEPT ![c] = SomeObject]
    /\ hh'   = [hh   EXCEPT ![c] = SomeHasher]
    /\ indx' = [indx EXCEPT ![c] = 0]
    /\ step' = [step EXCEPT ![c] = 0]
    /\ root' = [root EXCEPT ![c] = NoAnswer]
    /\ UNCHANGED <<pool, buf>>

(* The garbage collector empties sync.Pool as it likes.                    *)
DropPooled(h) ==
    /\ h \in pool
    /\ pool' = pool \ {h}
    /\ UNCHANGED <<buf, pc, obj, hh, indx, step, root, ret>>

(* What a goroutine does by itself once it has called.                     *)
Proceed(c) ==
    \/ \E h \in Hashers : GetPooled(c, h) \/ GetNew(c, h)
    \/ AppendChunk(c) \/ MerkleizeWalk(c) \/ WalkError(c) \/ WalkPanic(c)
    \/ HashRoot(c) \/ ResetHasher(c) \/ PutHasher(c) \/ Return(c)

Next ==
    \/ \E c \in Callers : Proceed(c) \/ \E o \in Objects : Invoke(c, o)
    \/ \E h \in Hashers : DropPooled(h)

(* The Go scheduler runs every goroutine that can run.                     *)
Spec == Init /\ [][Next]_vars /\ \A c \in Callers : WF_vars(Proceed(c))

---------------------------------------------------------------------------
TypeOK ==
    /\ pool \subseteq Hashers
    /\ DOMAIN buf = Hashers
    /\ pc \in [Callers -> Holding \cup {"idle", "get", "return"}]
    /\ obj \in [Callers -> Objects]
    /\ hh \in [Callers -> Hashers]
    /\ indx \in [Callers -> Nat]
    /\ step \in [Callers -> Nat]
    /\ DOMAIN root = Callers /\ DOMAIN ret = Callers

(* A hasher is used by one call at a time, and by none while it is pooled: *)
(* its buffer has no lock.                                                 *)
ExclusiveUse ==
    \A c \in Callers : Holds(c) =>
        /\ hh[c] \notin pool
        /\ \A d \in Callers \ {c} : Holds(d) => hh[d] # hh[c]

(* Get does not reset and the generated walk starts at hh.Index(): every   *)
(* hasher in the pool must be empty, also after a walk that failed half    *)
(* way.                                                                    *)
PooledHashersEmpty == \A h \in pool : buf[h] = << >>

(* The implementation of the promise in HashCalls: a call is under way     *)
(* from its invocation to its return.                                      *)
Promise == INSTANCE HashCalls WITH
    call <- [c \in Callers |-> IF pc[c] = "idle" THEN "no call" ELSE obj[c]]

ImplementsHashCalls == Promise!Spec

(* Every call returns, whatever the others do.                             *)
EveryCallReturns == \A c \in Callers : pc[c] # "idle" ~> pc[c] = "idle"
===========================================================================
