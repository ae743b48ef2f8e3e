--------------------------- MODULE MCHasherPool ---------------------------
(* Objects that hash, that fail after one chunk and that panic after one.  *)
EXTENDS HasherPool

CONSTANTS good, bad, panicking

Chunk(o) == CASE o = good -> 1 [] o = bad -> 2 [] OTHER -> 3
MCChunks == (1 .. 3) \X (1 .. 2)
MCWalk ==
    [o \in Objects |->
        [i \in 1 .. (IF o = good THEN 2 ELSE 1) |-> <<Chunk(o), i>>]]
MCOutcome ==
    [o \in Objects |-> CASE o = bad -> "error" [] o = panicking -> "panic" [] OTHER -> "ok"]
===========================================================================
