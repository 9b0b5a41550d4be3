-------------------------------- MODULE Sums --------------------------------
(***************************************************************************)
(* The sum of a function over a finite set (Python's sum over the values   *)
(* of a dict), as a recursive function: the folds of the community modules *)
(* take an operator as parameter, which TLAPS cannot reason about.         *)
(***************************************************************************)
EXTENDS Integers

Pick(S) == CHOOSE x \in S : TRUE

Sum(f, D) ==
    LET sum[S \in SUBSET D] ==
            IF S = {} THEN 0 ELSE f[Pick(S)] + sum[S \ {Pick(S)}]
    IN  sum[D]
=============================================================================
