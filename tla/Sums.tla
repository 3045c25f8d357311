-------------------------------- MODULE Sums --------------------------------
(* Sums of a function's values over a set.                                 *)
EXTENDS Integers, FiniteSetsExt

\* The sum of f[x] for the x in S.
Sum(f, S) == MapThenSumSet(LAMBDA x : f[x], S)
=============================================================================
