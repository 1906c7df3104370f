------------------------------- MODULE GoalZC -------------------------------
(***************************************************************************)
(* The goalzc binary: RuntimeZC with the ping-pong actor PingPongZC        *)
(* (goalzc.rs:35-45; the tests and the bench use the same actor).  The     *)
(* handler draws a reply from the pool with `expect`, sends it to its peer *)
(* and returns, after which the runtime gives the inbound message back: a  *)
(* handler owns two buffers at a time, and panics if the pool is empty.    *)
(* Each initial message starts one exchange that never ends by itself.     *)
(***************************************************************************)
EXTENDS RuntimeZC

CONSTANT peer_id    \* the peer of each actor

ASSUME PeerAssumption == peer_id \in [Actor -> Actor]
ASSUME BufAssumption == IsFiniteSet(Buf)

VARIABLES
    replied,        \* actors that have sent the reply of the current message
    exchanges       \* history: how many initial messages there were

gvars == <<vars, replied, exchanges>>

GInit == Init /\ replied = {} /\ exchanges = Len(seeds)

\* `ctx.get_msg(msg.len()).expect(..)`
Fetch(a) == /\ a \notin replied /\ held[a] = {}
            /\ GetMsg(a)
            /\ UNCHANGED <<replied, exchanges>>

FetchPanic(a) == /\ a \notin replied /\ held[a] = {}
                 /\ free = {}
                 /\ HandlerPanic(a)
                 /\ UNCHANGED <<replied, exchanges>>

\* A reply per message and another one for good measure.
Reply_Twice(a) == /\ Send(a, peer_id[a]) \/ SendClosed(a, peer_id[a])
                  /\ UNCHANGED <<replied, exchanges>>

\* `ctx.send(self.peer_id, reply)`
Reply(a) == /\ Send(a, peer_id[a]) \/ SendClosed(a, peer_id[a])
            /\ replied' = replied \cup {a}
            /\ UNCHANGED exchanges

Return(a) == /\ a \in replied
             /\ HandlerReturn(a)
             /\ replied' = replied \ {a}
             /\ UNCHANGED exchanges

PingPong(a) == Fetch(a) \/ FetchPanic(a) \/ Reply(a) \/ Return(a)

\* The process may stop when main has.
Done == mpc \in {"returned", "panicked"} /\ UNCHANGED gvars

GNext == \/ MainStep /\ UNCHANGED <<replied, exchanges>>
         \/ \E a \in Actor : \/ LoopStep(a) /\ UNCHANGED <<replied, exchanges>>
                             \/ PingPong(a)
         \/ Done

GSpec == GInit /\ [][GNext]_gvars

GFairness == /\ WF_gvars(MainStep /\ UNCHANGED <<replied, exchanges>>)
             /\ \A a \in Actor :
                   /\ WF_gvars(LoopStep(a) /\ UNCHANGED <<replied, exchanges>>)
                   /\ WF_gvars(PingPong(a))

GFairSpec == GSpec /\ GFairness

-----------------------------------------------------------------------------

\* An actor about to call get_msg for its reply.
Fetching(a) == pc[a] = "handle" /\ a \notin replied /\ held[a] = {}

\* The messages that still have their reply before them: waiting to be sent,
\* queued, or being handled and not replied to yet.
Pending == SeedBufs
           \cup (UNION {QueuedBufs(a) : a \in Actor})
           \cup {inbound[a] : a \in {c \in Actor : pc[c] = "handle"
                                                    /\ c \notin replied}}

\* An exchange never multiplies, and none dies while the actors are up: a
\* message lost or replied to twice would change the load that the binary
\* reports as its throughput.
ExchangesConserved ==
    /\ Cardinality(Pending) <= exchanges
    /\ mpc \in {"spawn", "seed", "running", "clear"} /\ failed = {}
          => Cardinality(Pending) = exchanges

\* The pool is "sized for ping-pong steady state [..] with headroom [..] so a
\* wakeup race never starves" (goalzc.rs:16-18): beside the messages under
\* way each actor keeps at most one more buffer out, so a pool of one buffer
\* per exchange and one per actor is never empty when a handler calls
\* get_msg.  One exchange between two actors needs three buffers, not the two
\* of the steady state; the binary has four.
NeverStarved ==
    /\ Cardinality(Buf \ free) <= exchanges + N
    /\ Cardinality(Buf) >= exchanges + N =>
          \A a \in Actor : Fetching(a) => free # {}

\* With such a pool, every way of ending the run returns: no handler panics,
\* stop's join finds no failed thread, and the actors stop although their
\* ping-pong would go on forever.
StopReturns ==
    (Cardinality(Buf) >= exchanges + N) => <>(mpc = "returned")

=============================================================================
