----------------------------- MODULE HashCalls -----------------------------
(***************************************************************************)
(* What HashWithDefaultHasher (hasher.go) promises its callers: a call     *)
(* answers with the root of its own object, or with that object's error,   *)
(* whatever else is being hashed at the same time and whatever was hashed  *)
(* before.  No hasher and no pool is visible here.                         *)
(***************************************************************************)
CONSTANTS Callers, Objects,
          Answer        \* Answer[o]: what hashing o has to give

VARIABLES call,         \* call[c]: the object being hashed, or NoCall
          ret           \* ret[c]: the last answer c was given

NoCall   == "no call"
NoAnswer == [status |-> "none", digest |-> << >>]

Init == /\ call = [c \in Callers |-> NoCall]
        /\ ret  = [c \in Callers |-> NoAnswer]

Invoke(c, o) == /\ call[c] = NoCall
                /\ call' = [call EXCEPT ![c] = o]
                /\ ret' = ret

Respond(c) == /\ call[c] # NoCall
              /\ ret'  = [ret EXCEPT ![c] = Answer[call[c]]]
              /\ call' = [call EXCEPT ![c] = NoCall]

Next == \E c \in Callers : Respond(c) \/ \E o \in Objects : Invoke(c, o)

Spec == Init /\ [][Next]_<<call, ret>>
============================================================================
