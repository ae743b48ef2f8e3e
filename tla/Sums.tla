-------------------------------- MODULE Sums ------------------------------
(***************************************************************************)
(* The sizes and offsets that the generator and the generated methods add  *)
(* up over a list.                                                         *)
(***************************************************************************)
EXTENDS Integers

(* g[1] + ... + g[n]                                                       *)
SumUpTo(g, n) ==
    LET sum[i \in 0 .. n] == IF i = 0 THEN 0 ELSE sum[i - 1] + g[i] IN sum[n]

===========================================================================
