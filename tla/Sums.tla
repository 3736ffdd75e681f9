--------------------------------- MODULE Sums ---------------------------------
(* Sums over an initial segment of the naturals. *)
EXTENDS Integers

\* h[1] + ... + h[n]
SumTo(h, n) == LET sum[i \in 0..n] == IF i = 0 THEN 0 ELSE sum[i-1] + h[i]
               IN  sum[n]
=============================================================================
