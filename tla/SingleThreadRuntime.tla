------------------------ MODULE SingleThreadRuntime ------------------------
(***************************************************************************)
(* SingleThreadRuntime (runtime.rs:24-147): all actors on the calling      *)
(* thread, one FIFO mailbox, dispatch in batches of `inner` messages, one  *)
(* probe record per whole batch.  The caller registers actors, seeds the   *)
(* mailbox, calls run_for or dispatch_batch and clears the probe in any    *)
(* order.  The deadline of run_for passes at any moment; the code looks at *)
(* it between batches only.                                                *)
(*                                                                         *)
(* An actor is Arbitrary, sending to anyone and perhaps panicking, or it   *)
(* answers its peer until it has sent `max` messages: the Bouncer of the   *)
(* tests (runtime.rs:160-176), their Sink with max = 0, and the            *)
(* PingPongActor of goal1 with max = Unlimited.                            *)
(***************************************************************************)
EXTENDS Integers, Sequences, Functions

CONSTANTS
    Unlimited,      \* the limit of an actor that always answers
    Arbitrary,      \* in place of a limit: an actor with any handler
    Limit,          \* limits of the actors: naturals, Unlimited or Arbitrary
    Inner,          \* batch sizes the caller asks for
    MaxActors, MaxSeeds, MaxRecords,    \* bounds on the caller
    MaxHandled,     \* bound: no further batch once so many are handled
    MaxSends        \* bound: messages an arbitrary actor sends in all

ASSUME BoundsAssumption ==
    {MaxActors, MaxSeeds, MaxRecords, MaxHandled, MaxSends} \subseteq Nat
ASSUME InnerAssumption ==
    /\ Inner \subseteq Nat /\ Limit \subseteq Nat \cup {Unlimited, Arbitrary}
    /\ Arbitrary # Unlimited

VARIABLES
    actors,     \* <<[peer, max, sent, handled], ...>>; actor id i is entry i + 1
    queue,      \* the mailbox: <<[dst, round], ...>>, round is a history field
    records,    \* the batch sizes recorded by the probe
    mpc,        \* where the caller's thread is
    inner, done, count, \* argument and locals of the call; count stays as its result
    expired,    \* the deadline of run_for has passed
    seeds,      \* history: the destinations seeded
    before,     \* history: messages handled when the call began
    cleared     \* history: messages handled when the probe was last cleared

callVars == <<inner, done, count, expired>>
history == <<seeds, before, cleared>>
vars == <<actors, queue, records, mpc, callVars, history>>

\* Messages handled since the start.
Handled == SumFunction([i \in DOMAIN actors |-> actors[i].handled])

Init ==
    /\ actors = <<>> /\ queue = <<>> /\ records = <<>>
    /\ mpc = "idle" /\ inner = 0 /\ done = 0 /\ count = 0 /\ expired = FALSE
    /\ seeds = <<>> /\ before = 0 /\ cleared = 0

-----------------------------------------------------------------------------
(* Calls *)

add_actor(peer, max) ==
    /\ mpc = "idle" /\ Len(actors) < MaxActors
    /\ actors' = Append(actors, [peer |-> peer, max |-> max, sent |-> 0, handled |-> 0])
    /\ UNCHANGED <<queue, records, mpc, callVars, history>>

\* Mutant of send: the latest message first.
send_Front(q, m) == <<m>> \o q

\* SingleCtx::send, and the push of seed.
send(q, m) == Append(q, m)

\* Mutant of sends: the latest messages first.
sends_Front(q, ms) == ms \o q

\* send once for each message of ms.
sends(q, ms) == q \o ms

\* A seed joins the round of the last message that waits.
seed(dst) ==
    /\ mpc = "idle" /\ Len(seeds) < MaxSeeds
    /\ queue' = send(queue, [dst |-> dst,
                             round |-> IF queue = <<>> THEN 0 ELSE queue[Len(queue)].round])
    /\ seeds' = Append(seeds, dst)
    /\ UNCHANGED <<actors, records, mpc, callVars, before, cleared>>

Call(to, n) ==
    /\ mpc = "idle" /\ mpc' = to
    /\ inner' = n /\ done' = 0 /\ count' = 0 /\ expired' = FALSE
    /\ before' = Handled
    /\ UNCHANGED <<actors, queue, records, seeds, cleared>>

run_for(n) == Call("run_for", n)
dispatch_batch(n) == Handled < MaxHandled /\ Call("dispatch_batch", n)

\* Mutant of clear: the warmup's records stay.
clear_KeepsRecords ==
    /\ mpc = "idle"
    /\ cleared' = Handled
    /\ UNCHANGED <<actors, queue, records, mpc, callVars, seeds, before>>

\* probe_mut().clear()
clear ==
    /\ mpc = "idle"
    /\ records' = <<>> /\ cleared' = Handled
    /\ UNCHANGED <<actors, queue, mpc, callVars, seeds, before>>

-----------------------------------------------------------------------------
(* The loops of run_for and dispatch_batch *)

Expire == /\ mpc \in {"run_for", "scope"} /\ ~expired
          /\ expired' = TRUE
          /\ UNCHANGED <<actors, queue, records, mpc, inner, done, count, history>>

Return(n) == /\ mpc' = "idle" /\ count' = n
             /\ inner' = 0 /\ done' = 0 /\ expired' = FALSE /\ before' = 0
             /\ UNCHANGED <<actors, queue, records, seeds, cleared>>

\* Mutant of Over: ends when the mailbox is dry, whatever the time.
Over_IgnoresDeadline == queue = <<>>

\* `while Instant::now() < deadline`, and the break on an empty mailbox.
Over == expired \/ queue = <<>>

StartScope == /\ mpc = "run_for" /\ ~Over
              /\ Handled < MaxHandled /\ Len(records) < MaxRecords
              /\ mpc' = "scope" /\ done' = 0
              /\ UNCHANGED <<actors, queue, records, inner, count, expired, history>>

\* Mutants of Full and Dry: one message too many; a late batch is given up.
Full_OffByOne == done > inner
Dry_OrLate == queue = <<>> \/ expired

Full == done >= inner
Dry == queue = <<>>

\* Mutant of Answers: answers once more than it may.
Answers_OneMore(actor) == actor.max = Unlimited \/ actor.sent <= actor.max

\* `self.sent < self.max`; a PingPongActor does not count.
Answers(actor) == actor.max = Unlimited \/ actor.sent < actor.max

\* The handler of an actor with a limit.
Dispatch ==
    /\ mpc \in {"scope", "dispatch_batch"} /\ ~Full /\ ~Dry
    /\ LET msg == Head(queue)
           i == msg.dst + 1
       IN /\ i \in DOMAIN actors /\ actors[i].max # Arbitrary
          /\ LET actor == actors[i]
                 answer == [dst |-> actor.peer, round |-> msg.round + 1]
             IN /\ queue' = IF Answers(actor) THEN send(Tail(queue), answer)
                                              ELSE Tail(queue)
                /\ actors' = [actors EXCEPT
                     ![i].handled = @ + 1,
                     ![i].sent = IF Answers(actor) /\ actor.max # Unlimited THEN @ + 1 ELSE @]
    /\ done' = done + 1
    /\ UNCHANGED <<records, mpc, inner, count, expired, history>>

\* Any other handler: it sends any messages, also to itself.
DispatchAny ==
    /\ mpc \in {"scope", "dispatch_batch"} /\ ~Full /\ ~Dry
    /\ LET msg == Head(queue)
           i == msg.dst + 1
       IN /\ i \in DOMAIN actors /\ actors[i].max = Arbitrary
          /\ \E n \in 0 .. MaxSends - actors[i].sent : \E dsts \in [1 .. n -> 0 .. MaxActors - 1] :
               /\ actors' = [actors EXCEPT ![i].handled = @ + 1, ![i].sent = @ + n]
               /\ queue' = sends(Tail(queue),
                                 [k \in 1 .. n |-> [dst |-> dsts[k], round |-> msg.round + 1]])
    /\ done' = done + 1
    /\ UNCHANGED <<records, mpc, inner, count, expired, history>>

\* ... or panics, and the caller's thread with it.
HandlerPanics ==
    /\ mpc \in {"scope", "dispatch_batch"} /\ ~Full /\ ~Dry
    /\ LET i == Head(queue).dst + 1 IN i \in DOMAIN actors /\ actors[i].max = Arbitrary
    /\ queue' = Tail(queue) /\ mpc' = "panicked"
    /\ UNCHANGED <<actors, records, callVars, history>>

\* `&mut actors[dst as usize]` with no such actor: the message is popped and
\* the caller's thread panics.
NoActor ==
    /\ mpc \in {"scope", "dispatch_batch"} /\ ~Full /\ ~Dry
    /\ Head(queue).dst + 1 \notin DOMAIN actors
    /\ queue' = Tail(queue) /\ mpc' = "panicked"
    /\ UNCHANGED <<actors, records, callVars, history>>

\* `probe.end_batch(id, inner); count += done`
EndBatch ==
    /\ mpc = "scope" /\ Full
    /\ records' = Append(records, inner) /\ count' = count + done
    /\ mpc' = "run_for"
    /\ UNCHANGED <<actors, queue, inner, done, expired, history>>

RunForReturns == mpc = "run_for" /\ Over /\ Return(count)

\* Mutant of DropPartialBatch: records the batch as if it were whole.
DropPartialBatch_Records ==
    /\ mpc = "scope" /\ ~Full /\ Dry
    /\ records' = Append(records, inner)
    /\ mpc' = "idle" /\ inner' = 0 /\ done' = 0 /\ expired' = FALSE /\ before' = 0
    /\ UNCHANGED <<actors, queue, count, seeds, cleared>>

\* "Partial trailing batch: drop the scope (don't record or count) and stop."
DropPartialBatch == mpc = "scope" /\ ~Full /\ Dry /\ Return(count)

DispatchBatchReturns == mpc = "dispatch_batch" /\ (Full \/ Dry) /\ Return(done)

Returns == RunForReturns \/ DropPartialBatch \/ DispatchBatchReturns
Step == \/ StartScope \/ EndBatch \/ Returns
        \/ Dispatch \/ DispatchAny \/ HandlerPanics \/ NoActor

\* The peer of an arbitrary actor is never read.
Calls == \/ \E peer \in 0 .. MaxActors - 1, max \in Limit :
               (max = Arbitrary => peer = 0) /\ add_actor(peer, max)
         \/ \E dst \in 0 .. MaxActors - 1 : seed(dst)
         \/ \E n \in Inner : run_for(n) \/ dispatch_batch(n)
         \/ clear

Next == Calls \/ Step \/ Expire
Fairness == WF_vars(Step) /\ WF_vars(Expire)
Spec == Init /\ [][Next]_vars /\ Fairness

-----------------------------------------------------------------------------
(* Properties *)

TypeOK ==
    /\ actors \in Seq([peer : Nat, max : Limit, sent : Nat, handled : Nat])
    /\ queue \in Seq([dst : Nat, round : Nat]) /\ records \in Seq(Inner)
    /\ mpc \in {"idle", "run_for", "scope", "dispatch_batch", "panicked"}
    /\ inner \in Inner \cup {0} /\ done \in 0 .. inner
    /\ count \in Nat /\ expired \in BOOLEAN
    /\ seeds \in Seq(Nat) /\ before \in Nat /\ cleared \in Nat

\* What a call handled beyond what it returns: never a whole batch, and
\* nothing at all unless the mailbox ran dry.  In particular the deadline
\* costs no message, and run_for(_, 0) handles none (runtime.rs:56-63).
LossOnlyWhenDry ==
    [][mpc \notin {"idle", "panicked"} /\ mpc' = "idle" =>
         LET lost == Handled - before - count'
         IN lost # 0 => lost \in 1 .. inner - 1 /\ queue = <<>>]_vars

\* The mailbox is fair: a message waits for the messages of its own round
\* only, never for an answer to one that was dispatched after it was queued.
NoOvertaking ==
    \A i, j \in DOMAIN queue : i < j => queue[j].round \in queue[i].round .. queue[i].round + 1

\* The limits of the actors 0 and 1 as numbers, for one seed at actor 0.
Bounces(max0, max1) ==
    IF max0 # Unlimited /\ (max1 = Unlimited \/ max0 <= max1)
    THEN 2 * max0 + 1
    ELSE 2 * max1 + 2

\* Two actors that bounce one seed handle as many messages as their limits
\* allow, however the calls cut them into batches: 11 for limits of 5, 3
\* for limits of 1 (the tests at runtime.rs:187-205 and 259-281), and 7,
\* not the 4 of the comment at runtime.rs:236, for limits of 3.
BouncesAddUp ==
    /\ mpc = "idle" /\ queue = <<>> /\ seeds = <<0>>
    /\ Len(actors) = 2 /\ actors[1].peer = 1 /\ actors[2].peer = 0
    /\ Arbitrary \notin {actors[1].max, actors[2].max}
    => Handled = Bounces(actors[1].max, actors[2].max)

\* The records claim no more events than were handled since the clear.
NoPhantomEvents == mpc # "panicked" => SumFunction(records) <= Handled - cleared

\* Every call comes back: also with inner = 0, which spins to the deadline,
\* and with actors that answer for ever.
CallsReturn == mpc # "idle" ~> mpc \in {"idle", "panicked"}

=============================================================================
