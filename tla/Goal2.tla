------------------------------- MODULE Goal2 -------------------------------
(***************************************************************************)
(* main of the goal2 binary (goal2.rs:89-161) on MultiThreadRuntime: it    *)
(* calibrates the apparatus and runs two PingPongActors with one seed.     *)
(* With goal2 = FALSE the runtime has any other actors and seeds.          *)
(***************************************************************************)
EXTENDS MultiThreadRuntime

CONSTANT peer_id    \* the peer of each PingPongActor
ASSUME PeerAssumption == peer_id \in [Actor -> Actor]

VARIABLES
    goal2,          \* whether the actors are PingPongActors
    calibrated,     \* main has called calibrate
    replied         \* actors that have answered the message they handle

gvars == <<vars, goal2, calibrated, replied>>

GInit == /\ Init /\ replied = {} /\ goal2 \in BOOLEAN
         /\ goal2 => seeds = <<0>>
         /\ calibrated = ~goal2

Calibrate == /\ ~calibrated /\ calibrated' = TRUE
             /\ UNCHANGED <<vars, goal2, replied>>

\* Mutant of Reply: answers again and again.
Reply_Twice(a) == /\ Send(a, peer_id[a])
                  /\ UNCHANGED <<goal2, calibrated, replied>>

\* PingPongActor::handle_message
Reply(a) == /\ a \notin replied /\ Send(a, peer_id[a])
            /\ replied' = replied \cup {a}
            /\ UNCHANGED <<goal2, calibrated>>
GReturn(a) == /\ a \in replied /\ Return(a)
              /\ replied' = replied \ {a}
              /\ UNCHANGED <<goal2, calibrated>>

GMain == calibrated /\ MainStep /\ UNCHANGED <<goal2, calibrated, replied>>
GLoop(a) == LoopStep(a) /\ UNCHANGED <<goal2, calibrated, replied>>
PingPong(a) == goal2 /\ (Reply(a) \/ GReturn(a))
AnyHandler(a) == ~goal2 /\ HandlerStep(a) /\ UNCHANGED <<goal2, calibrated, replied>>
HandlerEnds(a) == ~goal2 /\ (Return(a) \/ Panic(a)) /\ UNCHANGED <<goal2, calibrated, replied>>

GNext == \/ Calibrate \/ GMain
         \/ ~goal2 /\ SpawnFail /\ UNCHANGED <<goal2, calibrated, replied>>
         \/ \E a \in Actor : GLoop(a) \/ PingPong(a) \/ AnyHandler(a)

\* Threads are scheduled fairly, sleeps end, handlers do not block (the
\* contract of Actor): they return or panic.
GSpec == /\ GInit /\ [][GNext]_gvars
         /\ WF_gvars(Calibrate \/ GMain)
         /\ \A a \in Actor : WF_gvars(GLoop(a)) /\ WF_gvars(PingPong(a) \/ HandlerEnds(a))

-----------------------------------------------------------------------------

\* Messages whose answer is still to come.
InFlight == (UNION {{<<a, i>> : i \in {j \in DOMAIN queue[a] : queue[a][j] = "User"}} :
                       a \in Actor})
            \cup {<<a, 0>> : a \in {b \in Actor : pc[b] = "handle" /\ b \notin replied}}

\* "Ping-pong style workloads hold one message in flight between two actors"
\* (runtime.rs:301-304): the reason for the batch size of 1.  The message
\* is lost only when one of the actors has stopped.
OneInFlight == goal2 /\ mpc \notin {"spawn", "seed"} =>
    /\ Cardinality(InFlight) <= 1
    /\ (\A a \in Actor : open[a]) => Cardinality(InFlight) = 1

\* "Assumes the CPU is already warm [..] `goal1` / `goal2` satisfy this by
\* running an app-level warmup loop before calling `calibrate`"
\* (overhead.rs:97-100): main calibrates after the warmup.
CalibratesWarm == goal2 /\ calibrated => mpc \notin {"spawn", "seed"}

=============================================================================
