-------------------------------- MODULE Sums --------------------------------
(* Sums over things that are numbered from 1, as the orders are. *)
EXTENDS Integers

\* The partial sums f[1] + ... + f[i], for i up to n.
PartialSums(f, n) ==
  LET sum[i \in 0 .. n] == IF i = 0 THEN 0 ELSE sum[i - 1] + f[i] IN sum

\* f[1] + ... + f[n]
Total(f, n) == PartialSums(f, n)[n]
=============================================================================
