----------------------------- MODULE PrefixSums -----------------------------
(***************************************************************************)
(* Sums as a loop computes them: an accumulator that starts at 0 and takes *)
(* one element after the other.                                            *)
(***************************************************************************)
EXTENDS Integers

\* f[1] + ... + f[n].
PrefixSum(f, n) ==
  LET sum[i \in 0..n] == IF i = 0 THEN 0 ELSE sum[i - 1] + f[i]
  IN  sum[n]
=============================================================================
