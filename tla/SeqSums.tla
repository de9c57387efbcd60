-------------------------------- MODULE SeqSums --------------------------------
(* Sums over a sequence of numbers, written so that they can be proved about. *)
EXTENDS Integers, Sequences

\* Sums(q)[i] is the sum of the first i elements.
Sums(q) == LET sum[i \in 0..Len(q)] == IF i = 0 THEN 0 ELSE sum[i - 1] + q[i]
           IN sum

Total(q) == Sums(q)[Len(q)]
=============================================================================
