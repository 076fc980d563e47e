-------------------------------- MODULE Sums --------------------------------
(* The sum of f[x] over the elements x of a finite set S. *)
EXTENDS Integers, FiniteSets, FiniteSetsExt

SumOver(f, S) == MapThenSumSet(LAMBDA x : f[x], S)
=============================================================================
