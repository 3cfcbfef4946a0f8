-------------------------------- MODULE Sums ---------------------------------
(* Sums and powers of whole numbers, which the totals of Holdings, Saving,   *)
(* Tax and Projection are made of.                                           *)
EXTENDS Integers, FiniteSetsExt

\* The sum of a function over a finite set.
SumOf(f, S) == MapThenSumSet(LAMBDA x : f[x], S)

\* x to the n-th.
Power(x, n) ==
  LET power[i \in 0..n] == IF i = 0 THEN 1 ELSE x * power[i - 1]
  IN power[n]
=============================================================================
