----------------------------- MODULE MC_Startup -----------------------------
(***************************************************************************)
(* What the comments of spawn_and_seed and actor_loop say of a startup that *)
(* fails, against GoalZC with a pool too small for its initial messages:   *)
(* the first handler finds the pool empty and panics.                      *)
(***************************************************************************)
EXTENDS MC_GoalZC

\* "a send failure indicates an immediate thread panic at startup which the
\* join below surfaces with a clearer message" (runtime_zc.rs:200-202): a
\* seed whose destination exists is never what stops the main thread.
SeedFailureReachesJoin ==
    [][mpc = "seed" /\ seeds # <<>> /\ Head(seeds).dst \in Actor
          => mpc' # "unwind"]_vars

\* "`Signal::Shutdown` (or closed channel) exits" (runtime_zc.rs:414): once
\* the main thread has gone, and its senders with it, the actors exit.
OrphansExit ==
    mpc = "panicked" ~> \A a \in Actor : pc[a] \in {"unborn", "exited"}

=============================================================================
