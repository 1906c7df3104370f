----------------------------- MODULE Histogram -----------------------------
(***************************************************************************)
(* The hdrhistogram of a probe, as tprobe.rs and band_table.rs use it: an  *)
(* external crate, built here for values from 1 to 1e12 with 3 significant *)
(* figures (tprobe.rs:81-92).  It does not keep values: it counts the      *)
(* samples of buckets of equivalent values.  A bucket is exact below 2048  *)
(* and, from there on, as wide as a power of two that leaves at least 1024 *)
(* buckets to each doubling of the values.                                 *)
(*                                                                         *)
(* A histogram is a function from the highest value of a bucket, which is  *)
(* how iter_recorded shows it, to the number of samples in it.             *)
(***************************************************************************)
EXTENDS Integers, Functions, FiniteSetsExt

MaxExponent == 29
Widths == {2 ^ k : k \in 0 .. MaxExponent}

\* The counts reach to 2^40 - 1, the end of the bucket of 1e12; record
\* refuses a larger value.
Recordable(v) == v \div 2048 < 2 ^ MaxExponent

\* The width of the bucket of v.
equivalent_range(v) == Min({w \in Widths : v \div 2048 < w})

lowest_equivalent(v) == v - (v % equivalent_range(v))
highest_equivalent(v) == lowest_equivalent(v) + equivalent_range(v) - 1

\* The value that mean() takes for every sample of the bucket.
median_equivalent(v) == lowest_equivalent(v) + equivalent_range(v) \div 2

\* hist.len()
Samples(hist) == SumFunction(hist)

=============================================================================
