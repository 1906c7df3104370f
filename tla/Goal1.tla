------------------------------- MODULE Goal1 -------------------------------
(***************************************************************************)
(* main of the goal1 binary (goal1.rs:108-156) on SingleThreadRuntime: two *)
(* PingPongActors, one seed, a warmup run_for, the probe cleared, the      *)
(* apparatus calibrated, a measured run_for with the same batch size, the  *)
(* report.  With stage = Library the runtime has any other caller.         *)
(***************************************************************************)
EXTENDS SingleThreadRuntime

\* main has room for its two actors, and they answer every message.
ASSUME PingPongAssumption == MaxActors >= 2 /\ Unlimited \in Limit

VARIABLES
    stage,      \* the next line of main, or Library
    batch,      \* cli.inner
    measured    \* the count main prints

gvars == <<vars, stage, batch, measured>>

Library == -1

\* `value_parser!(u64).range(1..)` refuses an inner of 0.
GInit == /\ Init /\ measured = 0
         /\ \/ stage = Library /\ batch = 0
            \/ stage = 0 /\ batch \in Inner \ {0}

\* An actor that answers every message to its peer.
PingPongActor(peer_id) == add_actor(peer_id, Unlimited)

\* What main does at each stage; every call has returned before the next.
Do(n) == CASE n = 0 -> PingPongActor(1)
           [] n = 1 -> PingPongActor(0)
           [] n = 2 -> seed(0)
           [] n = 3 -> run_for(batch)
           [] n = 4 -> clear
           [] n = 5 -> mpc = "idle" /\ UNCHANGED vars     \* calibrate()
           [] n = 6 -> run_for(batch)

Main == /\ stage \in 0 .. 6
        /\ Do(stage)
        /\ stage' = stage + 1
        /\ UNCHANGED <<batch, measured>>

\* `let count = rt.run_for(..)`, printed; then the report.
Report == /\ stage = 7 /\ mpc = "idle"
          /\ measured' = count /\ stage' = 8
          /\ UNCHANGED <<vars, batch>>

GNext == \/ stage = Library /\ Calls /\ UNCHANGED <<stage, batch, measured>>
         \/ (Step \/ Expire) /\ UNCHANGED <<stage, batch, measured>>
         \/ Main \/ Report

GSpec == GInit /\ [][GNext]_gvars
         /\ WF_gvars(Step /\ UNCHANGED <<stage, batch, measured>>)
         /\ WF_gvars(Expire /\ UNCHANGED <<stage, batch, measured>>)
         /\ WF_gvars(Main \/ Report)

-----------------------------------------------------------------------------

\* The throughput that goal1 prints and the batches of its report are the
\* same work: all of what the actors did after the warmup, and nothing of
\* what they did before.
ReportExact ==
    stage = 8 => /\ SumFunction(records) = measured
                 /\ measured = Handled - cleared

=============================================================================
