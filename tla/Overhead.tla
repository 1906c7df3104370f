----------------------------- MODULE Overhead -----------------------------
(***************************************************************************)
(* The apparatus overhead of a probe (overhead.rs): a line through the     *)
(* minimal costs of an empty bench of N_LOW and of N_HIGH iterations, and  *)
(* the correction per event computed from it.  The slope is an f64 in the  *)
(* code and an exact fraction here: loop_per_iter_ticks is the numerator   *)
(* over SPREAD.  Rounding is f64::round, half away from zero; all values   *)
(* are non-negative.                                                       *)
(***************************************************************************)
EXTENDS Integers

N_LOW == 100
N_HIGH == 10000
SPREAD == N_HIGH - N_LOW

max(a, b) == IF a >= b THEN a ELSE b
Round(n, d) == (2 * n + d) \div (2 * d)

\* Mutant of calibrate: forgets the iterations of the low point.
calibrate_NoSlope(raw_low, raw_high) ==
    [framing_ticks |-> raw_low, loop_per_iter_ticks |-> max(raw_high - raw_low, 0)]

\* The two-point fit raw = framing + n * loop_per_iter, neither of them
\* negative.
calibrate(raw_low, raw_high) ==
    LET loop == max(raw_high - raw_low, 0)
    IN [framing_ticks |-> Round(max(raw_low * SPREAD - N_LOW * loop, 0), SPREAD),
        loop_per_iter_ticks |-> loop]

\* Overhead::per_event_ticks
per_event_ticks(ovh, batch) ==
    LET b == max(batch, 1)
    IN Round(ovh.framing_ticks * SPREAD + ovh.loop_per_iter_ticks * b, SPREAD * b)

-----------------------------------------------------------------------------

\* Twice the error of the correction of n events against a measured cost.
Error(ovh, n, raw) == 2 * (n * per_event_ticks(ovh, n) - raw)

\* The fitted line passes through both measured points, up to the rounding
\* of the correction per event and of the framing cost, if the points are in
\* order and the intercept is not negative.  When noise has them otherwise,
\* the correction errs to one side only: it takes off no less than was
\* measured at either point.
Fits(raw_low, raw_high, ovh) ==
    LET plausible == raw_low <= raw_high /\ raw_low * N_HIGH >= raw_high * N_LOW
        least == /\ Error(ovh, N_LOW, raw_low) >= -N_LOW - 1
                 /\ Error(ovh, N_HIGH, raw_high) >= -N_HIGH - 1
        most == /\ Error(ovh, N_LOW, raw_low) <= N_LOW + 1
                /\ Error(ovh, N_HIGH, raw_high) <= N_HIGH + 1
    IN least /\ (plausible => most)

=============================================================================
