-------------------------------- MODULE Sums --------------------------------
(***************************************************************************)
(* The sum of a sequence of numbers, by recursion over its length, and the *)
(* sum over a set, listed in some order.  SumTheorems proves their laws,   *)
(* which cannot be stated of the folds of the community modules, whose     *)
(* parameters are operators.                                               *)
(***************************************************************************)
EXTENDS Integers, Sequences, SequencesExt

\* f[1] + ... + f[n]
SumTo(f, n) ==
    LET total[k \in 0..n] == IF k = 0 THEN 0 ELSE total[k - 1] + f[k]
    IN  total[n]

\* The sum of f[x] over the elements x of a finite set.
SumOver(f, S) ==
    LET order == SetToSeq(S)
    IN  SumTo([i \in 1..Cardinality(S) |-> f[order[i]]], Cardinality(S))
=============================================================================
