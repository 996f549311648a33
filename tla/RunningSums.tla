----------------------------- MODULE RunningSums -----------------------------
(***************************************************************************)
(* Sums along an enumeration, as a program that counts on computes them.   *)
(***************************************************************************)
EXTENDS Naturals

\* RunningSum(v, n)[i] is v[1] + ... + v[i].
RunningSum(v, n) ==
    LET sum[i \in 0..n] == IF i = 0 THEN 0 ELSE sum[i - 1] + v[i]
    IN  sum
=============================================================================
