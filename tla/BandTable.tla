----------------------------- MODULE BandTable -----------------------------
(***************************************************************************)
(* The numbers of the report of a histogram (band_table.rs:20-186), with   *)
(* the highest value of a bucket for each sample in it, except in the mean *)
(* row.  Percentiles are in hundredths.  The units, the layout of the      *)
(* table and the standard deviations are left out, and an f64 is exact.    *)
(***************************************************************************)
EXTENDS Histogram, Sequences

BOUNDARY_PCTS == <<0, 1, 10, 20, 30, 40, 50, 60, 70, 80, 90, 99, 100>>
n_bands == Len(BOUNDARY_PCTS) - 1

\* Sum over the values of vs, each as often as it was recorded.
Total(hist, vs) == SumFunctionOnSet([v \in DOMAIN hist |-> v * hist[v]], vs)

\* Mutant of Below: `cumulative` is never added to.
Below_Zero(hist, v) == 0

\* cumulative
Below(hist, v) == SumFunctionOnSet(hist, {w \in DOMAIN hist : w < v})

\* Mutant of Twice_mid_rank: the rank of the first of the equal samples.
Twice_mid_rank_First(hist, v) == 2 * Below(hist, v)

\* (cumulative + count / 2) * 2; divided by 2 * sample_count it is mid_rank.
Twice_mid_rank(hist, v) == 2 * Below(hist, v) + hist[v]

\* `BOUNDARY_PCTS[1..].iter().position(|&b| mid_rank < b)`
band(hist, v) ==
    LET above == {i \in 1 .. n_bands :
                    100 * Twice_mid_rank(hist, v) < BOUNDARY_PCTS[i + 1] * 2 * Samples(hist)}
    IN IF above = {} THEN n_bands ELSE Min(above)

\* Mutant of adjusted: takes the correction off once, not for each sample.
adjusted_Once(sum, count, correction) == IF sum >= correction THEN sum - correction ELSE 0

\* (mean - correction).max(0), times count.
adjusted(sum, count, correction) ==
    IF sum >= correction * count THEN sum - correction * count ELSE 0

\* The count, mean and adj mean columns of a row; a mean is its sum over its
\* count.
Cells(count, sum, correction) ==
    [count |-> count, sum |-> sum, adj |-> adjusted(sum, count, correction)]

\* ... of the samples with the values vs: band_sum over band_count,
Means(hist, vs, correction) ==
    Cells(SumFunctionOnSet(hist, vs), Total(hist, vs), correction)

\* ... and of all samples: hist.mean().
Mean(hist, correction) ==
    Cells(Samples(hist), SumFunction([v \in DOMAIN hist |-> median_equivalent(v) * hist[v]]),
          correction)

\* One row, of the values vs; an empty band has zeros in every column.
Row(hist, vs, correction) ==
    [span |-> IF vs = {} THEN [first |-> 0, last |-> 0, range |-> 0]
              ELSE [first |-> Min(vs), last |-> Max(vs), range |-> Max(vs) - Min(vs) + 1],
     cells |-> Means(hist, vs, correction)]

\* Mutant of trimmed: leaves out the first band.
trimmed_NoFirst(bands) == {v \in DOMAIN bands : bands[v] > 1}

\* The samples of "mean min-p99": all bands but the last one.
trimmed(bands) == {v \in DOMAIN bands : bands[v] < n_bands}

\* A report without a correction has no adj column: correction is 0 here.
render(hist, correction) ==
    LET bands == [v \in DOMAIN hist |-> band(hist, v)]
    IN [bands |-> bands,
        rows |-> [i \in 1 .. n_bands |->
                    Row(hist, {v \in DOMAIN hist : bands[v] = i}, correction)],
        mean |-> Mean(hist, correction),
        trim |-> Means(hist, trimmed(bands), correction)]

-----------------------------------------------------------------------------

CountIn(table, i) == table.rows[i].cells.count

\* The bands cut the samples, in the order of their values, into pieces that
\* do not overlap, and together they are the whole histogram; the mean row,
\* which hist.mean() computes from other values, stays below the mean of the
\* bands by at most one part in 2048.
PartitionOf(hist, table) ==
    /\ SumFunction([i \in 1 .. n_bands |-> CountIn(table, i)]) = Samples(hist)
    /\ LET sum == SumFunction([i \in 1 .. n_bands |-> table.rows[i].cells.sum])
       IN sum - table.mean.sum \in 0 .. sum \div 2048
    /\ \A i, j \in {k \in 1 .. n_bands : CountIn(table, k) > 0} :
          i < j => table.rows[i].span.last < table.rows[j].span.first

\* The bands up to a percentile hold that share of the samples, except for
\* at most half of the equal samples next to the boundary: those the last of
\* these bands took in, or those the next one did.
PercentilesOf(hist, table) ==
    \A i \in 1 .. n_bands :
        LET held == SumFunctionOnSet([k \in 1 .. n_bands |-> CountIn(table, k)], 1 .. i)
            off == 200 * held - 2 * BOUNDARY_PCTS[i + 1] * Samples(hist)
            inside == {v \in DOMAIN hist : table.bands[v] <= i}
        IN /\ off > 0 => off <= 100 * hist[Max(inside)]
           /\ off < 0 => -off <= 100 * hist[Min(DOMAIN hist \ inside)]

\* "mean min-p99" leaves out the largest values only, and never more than
\* two percent of the samples.
TrimOf(hist, table) ==
    LET kept == trimmed(table.bands)
    IN /\ \A v \in kept, w \in DOMAIN hist \ kept : v < w
       /\ 100 * (Samples(hist) - table.trim.count) <= 2 * Samples(hist)

=============================================================================
