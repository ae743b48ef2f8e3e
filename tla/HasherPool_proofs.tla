------------------------ MODULE HasherPool_proofs -------------------------
(***************************************************************************)
(* For any number of goroutines, hashers and objects, HashWithDefaultHasher*)
(* implements HashCalls: pooling is invisible to the callers.              *)
(***************************************************************************)
EXTENDS HasherPool, TLAPS

(* What the buffer of a hasher in use holds, at each program point.        *)
BufferInv ==
    \A c \in Callers :
        /\ pc[c] = "walk" =>
              /\ indx[c] = 0
              /\ step[c] <= Len(Walk[obj[c]])
              /\ buf[hh[c]] = SubSeq(Walk[obj[c]], 1, step[c])
        /\ pc[c] = "root" =>
              /\ Outcome[obj[c]] = "ok"
              /\ buf[hh[c]] = <<Digest(Walk[obj[c]])>>
        /\ pc[c] = "put" => buf[hh[c]] = << >>

(* Once it is known, the answer is the one the object calls for.           *)
AnswerInv ==
    \A c \in Callers :
        pc[c] \in {"reset", "put", "return"} => root[c] = Answer[obj[c]]

IInv == TypeOK /\ ExclusiveUse /\ PooledHashersEmpty /\ BufferInv /\ AnswerInv

(* The values of locals that are not in use are an object and a hasher.    *)
LEMMA SomeTypes == SomeObject \in Objects /\ SomeHasher \in Hashers
  BY ObjectsAssumption DEF SomeObject, SomeHasher

(* Two facts about the beginning of a walk's sequence.                     *)
LEMMA WalkPrefix ==
    ASSUME NEW o \in Objects
    PROVE  /\ Walk[o] \in Seq(Chunks) /\ Len(Walk[o]) \in Nat
           /\ SubSeq(Walk[o], 1, 0) = << >>
           /\ SubSeq(Walk[o], 1, Len(Walk[o])) = Walk[o]
           /\ \A n \in Nat : n < Len(Walk[o]) =>
                Append(SubSeq(Walk[o], 1, n), Walk[o][n + 1]) = SubSeq(Walk[o], 1, n + 1)
<1>1. Walk[o] \in Seq(Chunks)
  BY ObjectsAssumption
<1>2. SubSeq(Walk[o], 1, 0) = << >> /\ SubSeq(Walk[o], 1, Len(Walk[o])) = Walk[o]
  BY <1>1
<1>3. ASSUME NEW n \in Nat, n < Len(Walk[o])
      PROVE  Append(SubSeq(Walk[o], 1, n), Walk[o][n + 1]) = SubSeq(Walk[o], 1, n + 1)
  BY <1>1, <1>3
<1> QED BY <1>1, <1>2, <1>3

(* An empty pool and idle goroutines.                                      *)
LEMMA InitIInv == Init => IInv
  BY SomeTypes DEF Init, IInv, TypeOK, ExclusiveUse, PooledHashersEmpty, BufferInv,
     AnswerInv, Holds, Holding

---------------------------------------------------------------------------
(* One lemma per action: it keeps the whole invariant.                     *)
LEMMA InvokeStep ==
    ASSUME IInv, NEW c \in Callers, NEW o \in Objects, Invoke(c, o)
    PROVE  IInv'
  BY DEF IInv, Invoke, Goto, TypeOK, ExclusiveUse, PooledHashersEmpty, BufferInv,
         AnswerInv, Holds, Holding

(* HasherPool.Get: the hasher is pooled, hence empty and in no call's      *)
(* hands, or it is new.                                                    *)
LEMMA GetStep ==
    ASSUME IInv, NEW c \in Callers, NEW h \in Hashers, GetPooled(c, h) \/ GetNew(c, h)
    PROVE  IInv'
<1>1. /\ pc[c] = "get" /\ pc' = [pc EXCEPT ![c] = "walk"]
      /\ hh' = [hh EXCEPT ![c] = h]
      /\ indx' = [indx EXCEPT ![c] = Len(buf'[h])]
      /\ step' = [step EXCEPT ![c] = 0]
      /\ UNCHANGED <<obj, root, ret>>
  BY DEF GetPooled, GetNew, Begin, Goto
<1>2. /\ h \notin pool' /\ pool' \subseteq pool
      /\ \A d \in Callers : Holds(d) => hh[d] # h
      /\ buf'[h] = << >>
      /\ DOMAIN buf' = Hashers
      /\ \A g \in Hashers \ {h} : buf'[g] = buf[g]
  BY DEF GetPooled, GetNew, Free, IInv, TypeOK, ExclusiveUse, PooledHashersEmpty
<1>3. TypeOK'
  BY <1>1, <1>2 DEF IInv, TypeOK, Holding
<1>4. ExclusiveUse'
  BY <1>1, <1>2 DEF IInv, TypeOK, ExclusiveUse, Holds, Holding
<1>5. PooledHashersEmpty'
  BY <1>2 DEF IInv, TypeOK, PooledHashersEmpty
<1>6. BufferInv'
  <2> SUFFICES ASSUME NEW d \in Callers
               PROVE  /\ pc'[d] = "walk" =>
                            /\ indx'[d] = 0
                            /\ step'[d] <= Len(Walk[obj'[d]])
                            /\ buf'[hh'[d]] = SubSeq(Walk[obj'[d]], 1, step'[d])
                      /\ pc'[d] = "root" =>
                            /\ Outcome[obj'[d]] = "ok"
                            /\ buf'[hh'[d]] = <<Digest(Walk[obj'[d]])>>
                      /\ pc'[d] = "put" => buf'[hh'[d]] = << >>
    BY DEF BufferInv
  <2>1. CASE d = c
    <3>1. obj[c] \in Objects
      BY DEF IInv, TypeOK
    <3>2. indx'[c] = 0 /\ step'[c] = 0 /\ hh'[c] = h /\ pc'[c] = "walk"
      BY <1>1, <1>2 DEF IInv, TypeOK
    <3>3. /\ SubSeq(Walk[obj[c]], 1, 0) = << >> /\ Len(Walk[obj[c]]) \in Nat
          /\ obj' = obj /\ buf'[h] = << >>
      BY <1>1, <1>2, <3>1, WalkPrefix
    <3> QED BY <2>1, <3>2, <3>3
  <2>2. CASE d # c
    BY <1>1, <1>2, <2>2 DEF IInv, TypeOK, BufferInv, Holds, Holding
  <2> QED BY <2>1, <2>2
<1>7. AnswerInv'
  BY <1>1 DEF IInv, TypeOK, AnswerInv
<1> QED BY <1>3, <1>4, <1>5, <1>6, <1>7 DEF IInv

(* The steps that write the buffer of the hasher in use.                   *)
LEMMA AppendStep ==
    ASSUME IInv, NEW c \in Callers, AppendChunk(c)
    PROVE  IInv'
<1>1. TypeOK' /\ ExclusiveUse' /\ AnswerInv'
  BY DEF AppendChunk, IInv, TypeOK, ExclusiveUse, AnswerInv, Holds
<1>2. hh[c] \notin pool /\ \A d \in Callers \ {c} : Holds(d) => hh[d] # hh[c]
  BY DEF AppendChunk, IInv, ExclusiveUse, Holds, Holding
<1>3. PooledHashersEmpty'
  BY <1>2 DEF AppendChunk, IInv, TypeOK, PooledHashersEmpty
<1>4. buf'[hh[c]] = SubSeq(Walk[obj[c]], 1, step[c] + 1)
  BY WalkPrefix DEF AppendChunk, IInv, TypeOK, BufferInv
<1>5. BufferInv'
  BY <1>2, <1>4, WalkPrefix DEF AppendChunk, IInv, TypeOK, BufferInv, Holds, Holding
<1> QED BY <1>1, <1>3, <1>5 DEF IInv

(* hh.Merkleize at the end of a walk: the buffer becomes the digest of the *)
(* whole walk, since the walk began at 0.                                  *)
LEMMA MerkleizeStep ==
    ASSUME IInv, NEW c \in Callers, MerkleizeWalk(c)
    PROVE  IInv'
<1>1. TypeOK' /\ ExclusiveUse' /\ AnswerInv'
  BY DEF MerkleizeWalk, WalkOver, Goto, IInv, TypeOK, ExclusiveUse, AnswerInv, Holds, Holding
<1>2. hh[c] \notin pool /\ \A d \in Callers \ {c} : Holds(d) => hh[d] # hh[c]
  BY DEF MerkleizeWalk, WalkOver, IInv, ExclusiveUse, Holds, Holding
<1>3. PooledHashersEmpty'
  BY <1>2 DEF MerkleizeWalk, IInv, TypeOK, PooledHashersEmpty
<1>4. buf'[hh[c]] = <<Digest(Walk[obj[c]])>> /\ Outcome[obj[c]] = "ok"
  <2>1. obj[c] \in Objects /\ hh[c] \in Hashers
    BY DEF IInv, TypeOK
  <2>2. buf[hh[c]] = Walk[obj[c]] /\ indx[c] = 0
    BY <2>1, WalkPrefix DEF MerkleizeWalk, WalkOver, IInv, BufferInv
  <2>3. buf'[hh[c]] = Append(SubSeq(Walk[obj[c]], 1, 0),
                             Digest(SubSeq(Walk[obj[c]], 0 + 1, Len(Walk[obj[c]]))))
    BY <2>1, <2>2 DEF MerkleizeWalk, IInv, TypeOK
  <2>4. Append(<< >>, Digest(Walk[obj[c]])) = <<Digest(Walk[obj[c]])>>
    OBVIOUS
  <2>5. SubSeq(Walk[obj[c]], 1, 0) = << >> /\ 0 + 1 = 1
        /\ SubSeq(Walk[obj[c]], 1, Len(Walk[obj[c]])) = Walk[obj[c]]
    BY <2>1, WalkPrefix
  <2> HIDE DEF Digest
  <2>6. buf'[hh[c]] = <<Digest(Walk[obj[c]])>>
    BY <2>3, <2>4, <2>5
  <2> QED BY <2>6 DEF MerkleizeWalk, WalkOver
<1>5. BufferInv'
  BY <1>2, <1>4 DEF MerkleizeWalk, WalkOver, Goto, IInv, TypeOK, BufferInv, Holds, Holding
<1> QED BY <1>1, <1>3, <1>5 DEF IInv

(* Reset empties the hasher of the call and no other.                      *)
LEMMA ResetStep ==
    ASSUME IInv, NEW c \in Callers, ResetHasher(c)
    PROVE  IInv'
<1>1. TypeOK' /\ ExclusiveUse' /\ AnswerInv'
  BY DEF ResetHasher, Goto, IInv, TypeOK, ExclusiveUse, AnswerInv, Holds, Holding
<1>2. hh[c] \notin pool /\ \A d \in Callers \ {c} : Holds(d) => hh[d] # hh[c]
  BY DEF ResetHasher, IInv, ExclusiveUse, Holds, Holding
<1>3. PooledHashersEmpty'
  BY <1>2 DEF ResetHasher, IInv, TypeOK, PooledHashersEmpty
<1>4. BufferInv'
  BY <1>2 DEF ResetHasher, Goto, IInv, TypeOK, BufferInv, Holds, Holding
<1> QED BY <1>1, <1>3, <1>4 DEF IInv

(* The steps that leave every buffer alone.                                *)
LEMMA OutcomeStep ==
    ASSUME IInv, NEW c \in Callers, WalkError(c) \/ WalkPanic(c)
    PROVE  IInv'
<1>1. /\ pc[c] = "walk" /\ Outcome[obj[c]] \in {"error", "panic"} /\ obj[c] \in Objects
      /\ root' = [root EXCEPT ![c] = Failed(Outcome[obj[c]])]
      /\ pc' \in {[pc EXCEPT ![c] = "reset"], [pc EXCEPT ![c] = "return"]}
      /\ UNCHANGED <<pool, buf, obj, hh, indx, step, ret>>
  BY DEF WalkError, WalkPanic, WalkOver, Goto, IInv, TypeOK
<1>2. TypeOK' /\ ExclusiveUse' /\ PooledHashersEmpty' /\ BufferInv'
  BY <1>1 DEF IInv, TypeOK, ExclusiveUse, PooledHashersEmpty, BufferInv, Holds, Holding
<1>3. Answer[obj[c]] = Failed(Outcome[obj[c]])
  BY <1>1 DEF Answer
<1>4. AnswerInv'
  BY <1>1, <1>3 DEF IInv, TypeOK, AnswerInv
<1> QED BY <1>2, <1>4 DEF IInv

(* HashRoot finds one chunk in the buffer, the digest of the object of the *)
(* call.                                                                   *)
LEMMA HashRootStep ==
    ASSUME IInv, NEW c \in Callers, HashRoot(c)
    PROVE  IInv'
<1>1. TypeOK' /\ ExclusiveUse' /\ PooledHashersEmpty' /\ BufferInv'
  BY DEF HashRoot, Goto, IInv, TypeOK, ExclusiveUse, PooledHashersEmpty, BufferInv,
         Holds, Holding
<1>2. obj[c] \in Objects /\ Outcome[obj[c]] = "ok" /\ buf[hh[c]] = <<Digest(Walk[obj[c]])>>
  BY DEF HashRoot, IInv, TypeOK, BufferInv
<1>3. root' = [root EXCEPT ![c] = Answer[obj[c]]]
  <2>1. Answer[obj[c]] = [status |-> "ok", digest |-> Digest(Walk[obj[c]])]
    BY <1>2 DEF Answer
  <2>2. Len(buf[hh[c]]) = 1 /\ buf[hh[c]][1] = Digest(Walk[obj[c]])
    BY <1>2
  <2> QED BY <2>1, <2>2 DEF HashRoot
<1>4. AnswerInv'
  BY <1>3 DEF HashRoot, Goto, IInv, TypeOK, AnswerInv
<1> QED BY <1>1, <1>4 DEF IInv

(* HasherPool.Put: what it pools has been reset, and the call gives it up. *)
LEMMA PutStep ==
    ASSUME IInv, NEW c \in Callers, PutHasher(c)
    PROVE  IInv'
  BY DEF PutHasher, Goto, IInv, TypeOK, ExclusiveUse, PooledHashersEmpty, BufferInv,
         AnswerInv, Holds, Holding

(* The return of a call changes no hasher.                                 *)
LEMMA ReturnStep ==
    ASSUME IInv, NEW c \in Callers, Return(c)
    PROVE  IInv'
  BY SomeTypes DEF Return, Goto, IInv, TypeOK, ExclusiveUse, PooledHashersEmpty, BufferInv,
     AnswerInv, Holds, Holding

(* The garbage collector only takes hashers out of the pool.               *)
LEMMA DropStep ==
    ASSUME IInv, NEW h \in Hashers, DropPooled(h)
    PROVE  IInv'
  BY DEF DropPooled, IInv, TypeOK, ExclusiveUse, PooledHashersEmpty, BufferInv,
         AnswerInv, Holds, Holding

(* A step of something else keeps the invariant.                           *)
LEMMA StutterStep == IInv /\ UNCHANGED vars => IInv'
  BY DEF vars, IInv, TypeOK, ExclusiveUse, PooledHashersEmpty, BufferInv,
         AnswerInv, Holds, Holding

(* The inductive invariant of the pool, from one lemma per action.         *)
THEOREM Invariance == Spec => []IInv
<1>1. IInv /\ [Next]_vars => IInv'
  BY InvokeStep, GetStep, AppendStep, MerkleizeStep, ResetStep, OutcomeStep,
     HashRootStep, PutStep, ReturnStep, DropStep, StutterStep DEF Next, Proceed
<1> QED BY InitIInv, <1>1, PTL DEF Spec

(* Every local of a call in HashWithDefaultHasher keeps its type.          *)
THEOREM TypeCorrect == Spec => []TypeOK
<1>1. IInv => TypeOK
  BY DEF IInv
<1> QED BY Invariance, <1>1, PTL

(* No two goroutines ever share a hasher, and none is in the pool that is  *)
(* in use.                                                                 *)
THEOREM HashersAreExclusive == Spec => []ExclusiveUse
<1>1. IInv => ExclusiveUse
  BY DEF IInv
<1> QED BY Invariance, <1>1, PTL

(* What Get returns is empty, whatever the walk before it ended with.      *)
THEOREM PoolIsClean == Spec => []PooledHashersEmpty
<1>1. IInv => PooledHashersEmpty
  BY DEF IInv
<1> QED BY Invariance, <1>1, PTL

---------------------------------------------------------------------------
(* Refinement: an invocation and a return are steps of HashCalls, all else *)
(* stutters.                                                               *)
calls == [c \in Callers |-> IF pc[c] = "idle" THEN "no call" ELSE obj[c]]

(* Every step of a goroutine is a step of HashCalls or changes nothing     *)
(* that HashCalls sees: only Invoke and Return do, and Return answers for  *)
(* the object of the call.                                                 *)
LEMMA StepRefines == IInv /\ [Next]_vars => [Promise!Next]_<<calls, ret>>
<1> SUFFICES ASSUME IInv, [Next]_vars PROVE Promise!Next \/ UNCHANGED <<calls, ret>>
  BY DEF calls
<1>1. ASSUME NEW c \in Callers, NEW o \in Objects, Invoke(c, o)
      PROVE  Promise!Next
  <2>1. calls[c] = "no call" /\ calls' = [calls EXCEPT ![c] = o] /\ ret' = ret
    BY <1>1 DEF Invoke, Goto, calls, IInv, TypeOK
  <2>2. Promise!Invoke(c, o)
    BY <2>1 DEF Promise!Invoke, Promise!NoCall, calls
  <2> QED BY <2>2 DEF Promise!Next
<1>2. ASSUME NEW c \in Callers, Return(c)
      PROVE  Promise!Next
  <2>1. calls[c] = obj[c] /\ obj[c] # "no call" /\ root[c] = Answer[obj[c]]
    <3>1. obj[c] \in Objects /\ pc[c] = "return"
      BY <1>2 DEF Return, IInv, TypeOK
    <3>2. root[c] = Answer[obj[c]]
      BY <3>1 DEF IInv, AnswerInv
    <3> QED BY <3>1, <3>2, ObjectsAssumption DEF calls
  <2>2. calls' = [calls EXCEPT ![c] = "no call"]
    BY <1>2 DEF Return, Goto, calls, IInv, TypeOK
  <2>3. ret' = [ret EXCEPT ![c] = Answer[calls[c]]]
    BY <1>2, <2>1 DEF Return
  <2>4. Promise!Respond(c)
    BY <2>1, <2>2, <2>3 DEF Promise!Respond, Promise!NoCall, calls
  <2> QED BY <2>4 DEF Promise!Next
<1>3. ASSUME NEW c \in Callers, NEW h \in Hashers, GetPooled(c, h) \/ GetNew(c, h)
      PROVE  UNCHANGED <<calls, ret>>
  <2>1. /\ pc[c] = "get" /\ pc' = [pc EXCEPT ![c] = "walk"]
        /\ UNCHANGED <<obj, ret>>
    BY <1>3 DEF GetPooled, GetNew, Begin, Goto
  <2> QED BY <2>1 DEF calls, IInv, TypeOK
<1>4. ASSUME NEW c \in Callers,
             AppendChunk(c) \/ MerkleizeWalk(c) \/ WalkError(c) \/ WalkPanic(c)
               \/ HashRoot(c) \/ ResetHasher(c) \/ PutHasher(c)
      PROVE  UNCHANGED <<calls, ret>>
  BY <1>4 DEF AppendChunk, MerkleizeWalk, WalkError, WalkPanic, WalkOver, HashRoot,
     ResetHasher, PutHasher, Goto, calls, IInv, TypeOK
<1>5. ASSUME NEW h \in Hashers, DropPooled(h) PROVE UNCHANGED <<calls, ret>>
  BY <1>5 DEF DropPooled, calls
<1>6. CASE UNCHANGED vars
  BY <1>6 DEF vars, calls
<1> QED BY <1>1, <1>2, <1>3, <1>4, <1>5, <1>6 DEF Next, Proceed

(* HashWithDefaultHasher with its pool implements HashCalls.               *)
THEOREM PoolImplementsCalls == Spec => ImplementsHashCalls
<1>1. Init => Promise!Init
  BY DEF Init, Promise!Init, Promise!NoCall, Promise!NoAnswer, NoAnswer
<1>2. IInv /\ [Next]_vars => [Promise!Next]_<<calls, ret>>
  BY StepRefines
<1> QED BY Invariance, <1>1, <1>2, PTL DEF Spec, ImplementsHashCalls, Promise!Spec, calls
===========================================================================
