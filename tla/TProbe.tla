------------------------------- MODULE TProbe -------------------------------
(***************************************************************************)
(* A probe (tprobe.rs): scopes append records of two readings of the tick  *)
(* counter, and report drains them, as costs per event, into a histogram   *)
(* that it prints next to the apparatus overhead.                          *)
(*                                                                         *)
(* The Vec of records and the histogram are bags: no result depends on the *)
(* order of the records.  An end stands for `times` scopes in a row with   *)
(* the same readings, so that histograms of a hundred samples are few      *)
(* steps away.  A reading is any of Ticks: the code allows for counters    *)
(* that differ between cores (saturating_sub).  The site_id is never read. *)
(***************************************************************************)
EXTENDS Overhead, BandTable, Bags

CONSTANTS Ticks,      \* readings of the tick counter
          Batches,    \* batch sizes given to end_batch
          Times,      \* equal scopes ended in one step
          Raws,       \* the floors [low, high] of the calibration passes
          MaxEnds,    \* bound: steps that end scopes, between two clears
          None

ASSUME ReadingsAssumption ==
    /\ Ticks \subseteq Nat /\ IsFiniteSet(Ticks) /\ Ticks # {}
    /\ Batches \subseteq Nat /\ Times \subseteq Nat \ {0}
    /\ Raws \subseteq [low : Nat, high : Nat]
\* "per-event tick deltas stay well under 1e12" (tprobe.rs:174): the unwrap
\* of record never panics.
ASSUME RecordableAssumption == \A s, t \in Ticks : Recordable(t - s)
ASSUME BoundAssumption == MaxEnds \in Nat

VARIABLES scopes,   \* the readings in the TProbeRecIds handed out
          records,  \* bag of [start_tsc, end_tsc, batch]
          hist,     \* the histogram of costs per event, a bag
          raw,      \* the two floors, for the properties
          ovh,      \* the Overhead of the calibration
          ended,    \* every record since the last clear, for the properties
          ends,     \* number of steps that added to `ended`
          shown     \* the report just printed: [drained, hist, correction, table]

vars == <<scopes, records, hist, raw, ovh, ended, ends, shown>>

\* The binaries calibrate once, before they use the result.
Init ==
    /\ scopes = {} /\ records = EmptyBag /\ hist = EmptyBag
    /\ raw \in Raws /\ ovh = calibrate(raw.low, raw.high)
    /\ ended = EmptyBag /\ ends = 0 /\ shown = None

start(tsc) ==
    /\ scopes' = scopes \cup {tsc}
    /\ shown' = None /\ UNCHANGED <<records, hist, raw, ovh, ended, ends>>

\* end is end_batch with n = 1.  The id is Copy: it may be ended again.
end_batch(start_tsc, end_tsc, n, times) ==
    LET new == [r \in {[start_tsc |-> start_tsc, end_tsc |-> end_tsc, batch |-> n]} |-> times]
    IN /\ ends < MaxEnds
       /\ records' = records (+) new
       /\ ended' = ended (+) new /\ ends' = ends + 1
       /\ shown' = None /\ UNCHANGED <<scopes, hist, raw, ovh>>

\* Mutant of clear: leaves the records that no report has drained.
clear_HistOnly ==
    /\ hist' = EmptyBag /\ ended' = EmptyBag /\ ends' = 0
    /\ shown' = None /\ UNCHANGED <<scopes, records, raw, ovh>>

clear ==
    /\ records' = EmptyBag /\ hist' = EmptyBag
    /\ ended' = EmptyBag /\ ends' = 0
    /\ shown' = None /\ UNCHANGED <<scopes, raw, ovh>>

\* end_tsc.saturating_sub(start_tsc)
delta(r) == max(r.end_tsc - r.start_tsc, 0)
batch(r) == max(r.batch, 1)

\* Mutants of per_event: without the lower bound; cutting the fraction off.
per_event_Unclamped(r) == (delta(r) + batch(r) \div 2) \div batch(r)
per_event_Floor(r) == max(delta(r) \div batch(r), 1)

\* The cost given to the histogram, at least its lower bound 1.
per_event(r) == max((delta(r) + batch(r) \div 2) \div batch(r), 1)

\* The average over the drained records, rounded down.
correction(drained) ==
    SumFunction([r \in DOMAIN drained |-> per_event_ticks(ovh, batch(r)) * drained[r]])
        \div Samples(drained)

\* The bucket that counts it.
bucket(r) == highest_equivalent(per_event(r))

\* The costs of the drained records: hist.record(per_event) for each.
costs(drained) ==
    [v \in {bucket(r) : r \in DOMAIN drained} |->
        SumFunctionOnSet(drained, {r \in DOMAIN drained : bucket(r) = v})]

\* given: whether the caller passes the overhead.  A report of an empty
\* histogram ends after its headline.
report(given) ==
    LET corr == IF given /\ records # EmptyBag THEN correction(records) ELSE None
        all == hist (+) costs(records)
    IN /\ hist' = all /\ records' = EmptyBag
       /\ shown' = IF all = EmptyBag THEN None
                   ELSE [drained |-> records, hist |-> all, correction |-> corr,
                         table |-> render(all, IF corr = None THEN 0 ELSE corr)]
       /\ UNCHANGED <<scopes, raw, ovh, ended, ends>>

Next ==
    \/ \E tsc \in Ticks : start(tsc)
    \/ \E s \in scopes, tsc \in Ticks, n \in Batches, k \in Times : end_batch(s, tsc, n, k)
    \/ clear
    \/ \E given \in BOOLEAN : report(given)

Spec == Init /\ [][Next]_vars

-----------------------------------------------------------------------------

Record == [start_tsc : Ticks, end_tsc : Ticks, batch : Batches]

\* Records keep readings and batch sizes that were given, and a histogram
\* holds buckets of costs from 1 to the longest scope; the overhead is within
\* the measured floors.
TypeOK ==
    /\ scopes \subseteq Ticks /\ ends \in 0 .. MaxEnds
    /\ \A b \in {records, ended} : IsABag(b) /\ DOMAIN b \subseteq Record
    /\ IsABag(hist)
    /\ \A v \in DOMAIN hist : /\ v = highest_equivalent(v)
                              /\ lowest_equivalent(v) \in 1 .. max(1, Max(Ticks))
    /\ raw \in Raws /\ ovh.framing_ticks \in 0 .. raw.low
    /\ ovh.loop_per_iter_ticks \in 0 .. raw.high

\* No scope is lost and none is counted twice, however reports and clears
\* fall between the scopes (tprobe.rs:142-148, 170): the histogram holds, in
\* every bucket, as many samples as scopes have ended since the last clear
\* whose cost to the nearest tick (half up, at least 1) is in the bucket,
\* except for those still waiting for a report.
HistogramIsMeasured ==
    LET CostIn(r, low, high) == /\ 2 * delta(r) < (2 * high + 1) * batch(r)
                                /\ low = 1 \/ 2 * delta(r) >= (2 * low - 1) * batch(r)
        drained == [r \in DOMAIN ended |->
                      IF r \in DOMAIN records THEN ended[r] - records[r] ELSE ended[r]]
    IN /\ records \sqsubseteq ended
       /\ Samples(hist) + Samples(records) = Samples(ended)
       /\ \A v \in DOMAIN hist :
             hist[v] = SumFunctionOnSet(drained,
                         {r \in DOMAIN ended : CostIn(r, lowest_equivalent(v), v)})

\* When a report has drained every sample it shows, the adjusted mean is the
\* mean cost of the scopes less the overhead of each one at its own batch
\* size, or 0 if that is more than was measured, to within a tick for the
\* average and one part in 2048 of the mean for the buckets
\* (tprobe.rs:175-184, band_table.rs:137-143).
AdjustedByOwnCost ==
    shown # None /\ shown.correction # None
        /\ Samples(shown.drained) = Samples(shown.hist) =>
    LET owed == SumFunction([r \in DOMAIN shown.drained |->
                               per_event_ticks(ovh, batch(r)) * shown.drained[r]])
        spent == SumFunction([r \in DOMAIN shown.drained |->
                                per_event(r) * shown.drained[r]])
        blur == spent \div 2048
        cells == shown.table.mean
    IN IF cells.adj = 0 THEN spent <= owed + blur
       ELSE spent - cells.adj \in owed - cells.count + 1 - blur .. owed + blur

\* The bands of a report partition its samples in order (band_table.rs:81-95).
BandsPartition == shown # None => PartitionOf(shown.hist, shown.table)

\* The bands end where their percentiles are, as closely as equal samples
\* that share a bucket allow (band_table.rs:85-89).
BandsTrackPercentiles == shown # None => PercentilesOf(shown.hist, shown.table)

\* "mean min-p99" cuts the upper tail only and at most two percent of it, so
\* that have_trim holds for every report of a sample (band_table.rs:146-150).
TrimIsRobust == shown # None => TrimOf(shown.hist, shown.table)

\* The correction reproduces both measured floors (overhead.rs:103-124 and
\* 64-68), and errs to the safe side when noise has them in an order that no
\* line fits.
FitReproduces == Fits(raw.low, raw.high, ovh)

\* What overhead.rs:44-47 says of loop_per_iter_ticks: "not used in the
\* subtraction path".
LoopNotSubtracted ==
    \A n \in Batches :
        per_event_ticks(ovh, n) = per_event_ticks([ovh EXCEPT !.loop_per_iter_ticks = 0], n)

=============================================================================
