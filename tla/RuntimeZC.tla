----------------------------- MODULE RuntimeZC -----------------------------
(***************************************************************************)
(* The multi-threaded zerocopy runtime (runtime_zc.rs) with the pool       *)
(* behind it.  A main thread spawns one thread per actor, delivers the     *)
(* initial messages, may reset the counts, and finally shuts the actors    *)
(* down by sending `Shutdown` down the same FIFO channels that carry the   *)
(* user messages, and joining the threads.  The actors pass pool buffers   *)
(* to each other; whatever happens (closed channels, panicking handlers,   *)
(* a failing startup) every buffer has to find its way back to the pool.   *)
(*                                                                         *)
(* Actors are arbitrary here: a handler gets buffers, sends them anywhere, *)
(* keeps them in the actor's own state, drops them, returns or panics in   *)
(* any order.  GoalZC.tla plugs in the ping-pong actor of the goalzc       *)
(* binary.  The pool is the abstract store of BufRefStore.tla, which       *)
(* Pool.tla shows the real one to implement; channels are std::sync::mpsc, *)
(* modelled from what this code relies on: FIFO, unbounded, `send` fails   *)
(* exactly when the receiver is gone, `recv` fails exactly when the queue  *)
(* is empty and all senders are gone, and dropping a receiver first closes *)
(* the channel and then drops what is queued.                              *)
(***************************************************************************)
EXTENDS Integers, Sequences, FiniteSets, Functions

CONSTANTS
    N,              \* number of actors in the ActorManager
    Buf,            \* the pool's buffers
    NoBuf,          \* "no PooledMsg here"
    ClearProbe,     \* SignalZC::ClearProbe
    Shutdown,       \* SignalZC::Shutdown
    SeedDst,        \* destinations an initial message may name
    MaxSeeds,       \* bound on the number of initial messages
    MaxResets,      \* bound on the number of reset_count calls
    MaxCount,       \* the counters saturate here
    MaxCaller       \* bound on the messages the caller holds at a time

Actor == 0 .. N - 1

\* A SignalZC::User(msg) is the buffer of its message.
Signal == Buf \cup {ClearProbe, Shutdown}

ASSUME NAssumption == N \in Nat \ {0}
ASSUME BoundsAssumption == MaxSeeds \in Nat /\ MaxResets \in Nat
                           /\ MaxCount \in Nat /\ MaxCaller \in Nat
ASSUME SeedDstAssumption == SeedDst \subseteq Nat
ASSUME SignalsDistinct ==
    /\ {ClearProbe, Shutdown, NoBuf, "Err"} \cap Buf = {}
    /\ ClearProbe # Shutdown /\ ClearProbe # "Err" /\ Shutdown # "Err"

VARIABLES
    free,       \* the pool's free list
    caller,     \* buffers of PooledMsgs the program around the runtime holds
    seeds,      \* initial_messages not sent yet: <<[dst, buf], ...>>
    mpc,        \* where the main thread is
    idx,        \* the loop index of the main thread
    how,        \* the call that ends the run: the API used until it is known
    resets,     \* reset_count calls so far
    results,    \* the counts joined so far, in id order
    pc,         \* where each actor thread is
    open,       \* TRUE until the receiver of an actor's channel is dropped
    queue,      \* the signals in each actor's channel
    inbound,    \* the buffer of the message an actor is handling
    held,       \* buffers an actor got and has neither sent nor dropped
    count,      \* the per-thread message count
    failed,     \* actors whose thread panicked
    since       \* history: messages completed since reset was last sent here

mainVars == <<seeds, mpc, idx, how, resets, results>>
actorVars == <<pc, open, queue, inbound, held, count, failed>>
vars == <<free, caller, mainVars, actorVars, since>>

MainPC == {"spawn", "seed", "running", "clear", "shutdown", "join",
           "unwind", "returned", "panicked"}
ActorPC == {"unborn", "recv", "handle", "unwind", "exiting", "closing",
            "discarding", "exited"}

TypeOK ==
    /\ free \subseteq Buf
    /\ caller \subseteq Buf
    /\ seeds \in Seq([dst : Nat, buf : Buf])
    /\ mpc \in MainPC
    /\ idx \in Actor
    /\ how \in {"live", "run", "stop", "drop"}
    /\ resets \in Nat
    /\ results \in Seq(0 .. MaxCount)
    /\ pc \in [Actor -> ActorPC]
    /\ open \in [Actor -> BOOLEAN]
    /\ queue \in [Actor -> Seq(Signal)]
    /\ inbound \in [Actor -> Buf \cup {NoBuf}]
    /\ held \in [Actor -> SUBSET Buf]
    /\ count \in [Actor -> 0 .. MaxCount]
    /\ failed \in SUBSET Actor
    /\ since \in [Actor -> 0 .. MaxCount]

\* The caller has drawn its initial messages from the pool and calls either
\* startup (how = "live") or run / run_probed (how = "run").
Init ==
    /\ \E k \in 0 .. MaxSeeds : seeds \in [1 .. k -> [dst : SeedDst, buf : Buf]]
    /\ \A i, j \in DOMAIN seeds : seeds[i].buf = seeds[j].buf => i = j
    /\ free = Buf \ {seeds[i].buf : i \in DOMAIN seeds}
    /\ caller = {}
    /\ mpc = "spawn"
    /\ idx = 0
    /\ how \in {"live", "run"}
    /\ resets = 0
    /\ results = <<>>
    /\ pc = [a \in Actor |-> "unborn"]
    /\ open = [a \in Actor |-> TRUE]
    /\ queue = [a \in Actor |-> <<>>]
    /\ inbound = [a \in Actor |-> NoBuf]
    /\ held = [a \in Actor |-> {}]
    /\ count = [a \in Actor |-> 0]
    /\ failed = {}
    /\ since = [a \in Actor |-> 0]

-----------------------------------------------------------------------------
(* The main thread *)

\* Mutant of Advance: the loop runs one actor too far.
Advance_OffByOne(next) ==
    IF idx = N THEN mpc' = next /\ idx' = 0
               ELSE mpc' = mpc /\ idx' = idx + 1

\* The end of one round of a `for` loop over the actors.
Advance(next) ==
    IF idx + 1 = N THEN mpc' = next /\ idx' = 0
                   ELSE mpc' = mpc /\ idx' = idx + 1

\* spawn_and_seed: the thread gets its receiver and a clone of ALL senders,
\* the one of its own channel included.
Spawn ==
    /\ mpc = "spawn"
    /\ pc' = [pc EXCEPT ![idx] = "recv"]
    /\ Advance("seed")
    /\ UNCHANGED <<free, caller, seeds, how, resets, results, open, queue,
                   inbound, held, count, failed, since>>

\* `.expect("failed to spawn actor thread")`: unwinding drops the receivers
\* that no thread owns yet.
SpawnFail ==
    /\ mpc = "spawn"
    /\ mpc' = "unwind"
    /\ open' = [a \in Actor |-> open[a] /\ pc[a] # "unborn"]
    /\ UNCHANGED <<free, caller, seeds, idx, how, resets, results, pc, queue,
                   inbound, held, count, failed, since>>

Deliverable(seed) == seed.dst \in Actor /\ open[seed.dst]

SeedSend ==
    /\ mpc = "seed"
    /\ seeds # <<>>
    /\ Deliverable(Head(seeds))
    /\ queue' = [queue EXCEPT ![Head(seeds).dst] = Append(@, Head(seeds).buf)]
    /\ seeds' = Tail(seeds)
    /\ UNCHANGED <<free, caller, mpc, idx, how, resets, results, pc, open,
                   inbound, held, count, failed, since>>

\* A destination out of range, or the `unwrap` of a send to a thread that
\* is already gone.
SeedFail ==
    /\ mpc = "seed"
    /\ seeds # <<>>
    /\ ~Deliverable(Head(seeds))
    /\ mpc' = "unwind"
    /\ UNCHANGED <<free, caller, seeds, idx, how, resets, results, actorVars,
                   since>>

SeedDone ==
    /\ mpc = "seed"
    /\ seeds = <<>>
    /\ mpc' = "running"
    /\ UNCHANGED <<free, caller, seeds, idx, how, resets, results, actorVars,
                   since>>

\* A panic in spawn_and_seed drops the messages that were not sent, one by
\* one, and then the senders and the join handles, which detaches the threads.
UnwindSeed ==
    /\ mpc = "unwind"
    /\ seeds # <<>>
    /\ free' = free \cup {Head(seeds).buf}
    /\ seeds' = Tail(seeds)
    /\ UNCHANGED <<caller, mpc, idx, how, resets, results, actorVars, since>>

UnwindDone ==
    /\ mpc = "unwind"
    /\ seeds = <<>>
    /\ mpc' = "panicked"
    /\ UNCHANGED <<free, caller, seeds, idx, how, resets, results, actorVars,
                   since>>

\* Handle::reset_count, any number of times; run_inner clears exactly once,
\* after the warmup.
ResetCount ==
    /\ mpc = "running"
    /\ resets < IF how = "run" THEN 1 ELSE MaxResets
    /\ resets' = resets + 1
    /\ mpc' = "clear"
    /\ UNCHANGED <<free, caller, seeds, idx, how, results, actorVars, since>>

\* `let _ = tx.send(s)`: queued, or silently dropped if the thread is gone.
SendSignal(a, s) == queue' = IF open[a] THEN [queue EXCEPT ![a] = Append(@, s)]
                                        ELSE queue

SendClear ==
    /\ mpc = "clear"
    /\ SendSignal(idx, ClearProbe)
    /\ since' = [since EXCEPT ![idx] = 0]
    /\ Advance("running")
    /\ UNCHANGED <<free, caller, seeds, how, resets, results, pc, open,
                   inbound, held, count, failed>>

\* Handle::stop, the Drop of a Handle, or the end of run_inner's measurement.
EndRun ==
    /\ mpc = "running"
    /\ IF how = "run" THEN resets = 1 /\ how' = how
                      ELSE how' \in {"stop", "drop"}
    /\ mpc' = "shutdown"
    /\ UNCHANGED <<free, caller, seeds, idx, resets, results, actorVars, since>>

\* Mutant of SendShutdown: every signal goes down the first channel.
SendShutdown_SameActor ==
    /\ mpc = "shutdown"
    /\ SendSignal(0, Shutdown)
    /\ Advance("join")
    /\ UNCHANGED <<free, caller, seeds, how, resets, results, pc, open,
                   inbound, held, count, failed, since>>

\* Mutant of SendShutdown: joins the first actor before it signals the others.
SendShutdown_OneByOne ==
    /\ mpc = "shutdown"
    /\ SendSignal(idx, Shutdown)
    /\ mpc' = "join"
    /\ UNCHANGED <<free, caller, seeds, idx, how, resets, results, pc, open,
                   inbound, held, count, failed, since>>

\* The senders are dropped after the last round.
SendShutdown ==
    /\ mpc = "shutdown"
    /\ SendSignal(idx, Shutdown)
    /\ Advance("join")
    /\ UNCHANGED <<free, caller, seeds, how, resets, results, pc, open,
                   inbound, held, count, failed, since>>

\* Mutant of Join: detaches the threads instead of joining them.
Join_NoWait ==
    /\ mpc = "join"
    /\ idx \notin failed \/ how = "drop"
    /\ results' = IF how = "drop" THEN results ELSE Append(results, count[idx])
    /\ Advance("returned")
    /\ UNCHANGED <<free, caller, seeds, how, resets, actorVars, since>>

\* Mutant of Join: `let _ = h.join()` in stop, as the Drop of the Handle does.
Join_Swallows ==
    /\ mpc = "join"
    /\ pc[idx] = "exited"
    /\ results' = IF how = "drop" THEN results ELSE Append(results, count[idx])
    /\ Advance("returned")
    /\ UNCHANGED <<free, caller, seeds, how, resets, actorVars, since>>

\* `h.join()` of a thread that returned its count, or of any thread when a
\* dropped Handle ignores the result.
Join ==
    /\ mpc = "join"
    /\ pc[idx] = "exited"
    /\ idx \notin failed \/ how = "drop"
    /\ results' = IF how = "drop" THEN results ELSE Append(results, count[idx])
    /\ Advance("returned")
    /\ UNCHANGED <<free, caller, seeds, how, resets, actorVars, since>>

\* `.expect("actor thread panicked")`: the handles not joined yet are
\* dropped, their threads run on.  The Drop of the Handle that `stop` owns
\* finds both Options taken and does nothing.
JoinPanic ==
    /\ mpc = "join"
    /\ pc[idx] = "exited"
    /\ idx \in failed
    /\ how # "drop"
    /\ mpc' = "panicked"
    /\ UNCHANGED <<free, caller, seeds, idx, how, resets, results, actorVars,
                   since>>

\* Whoever has a clone of the Pool (Handle::pool, the caller's own handle)
\* may draw messages and drop them at any time.
CallerGet == \E b \in free :
    /\ Cardinality(caller) < MaxCaller
    /\ free' = free \ {b}
    /\ caller' = caller \cup {b}
    /\ UNCHANGED <<mainVars, actorVars, since>>

CallerDrop == \E b \in caller :
    /\ free' = free \cup {b}
    /\ caller' = caller \ {b}
    /\ UNCHANGED <<mainVars, actorVars, since>>

-----------------------------------------------------------------------------
(* An actor thread: actor_loop and MultiCtxZC *)

HoldsPeers(a) == pc[a] \in {"recv", "handle", "unwind", "exiting"}
MainHoldsSenders ==
    mpc \in {"spawn", "seed", "running", "clear", "shutdown", "unwind"}
\* Some sender of an actor's channel is alive.
Connected(a) == MainHoldsSenders \/ \E b \in Actor : HoldsPeers(b)

\* `rx.recv()` does not return while this fails ...
Ready(a) == pc[a] = "recv" /\ (queue[a] # <<>> \/ ~Connected(a))
\* ... and returns Err if nothing is queued and nobody can send any more.
Received(a) == IF queue[a] = <<>> THEN "Err" ELSE Head(queue[a])

RecvUser(a) ==
    /\ Ready(a)
    /\ Received(a) \in Buf
    /\ inbound' = [inbound EXCEPT ![a] = Received(a)]
    /\ queue' = [queue EXCEPT ![a] = Tail(@)]
    /\ pc' = [pc EXCEPT ![a] = "handle"]
    /\ UNCHANGED <<free, caller, mainVars, open, held, count, failed, since>>

\* Mutant of RecvClear: clears the probe and forgets the count.
RecvClear_KeepsCount(a) ==
    /\ Ready(a)
    /\ Received(a) = ClearProbe
    /\ queue' = [queue EXCEPT ![a] = Tail(@)]
    /\ UNCHANGED <<free, caller, mainVars, pc, open, inbound, held, count,
                   failed, since>>

RecvClear(a) ==
    /\ Ready(a)
    /\ Received(a) = ClearProbe
    /\ count' = [count EXCEPT ![a] = 0]
    /\ queue' = [queue EXCEPT ![a] = Tail(@)]
    /\ UNCHANGED <<free, caller, mainVars, pc, open, inbound, held, failed,
                   since>>

\* Mutant of RecvBreak: serves what is queued behind Shutdown first.
RecvBreak_Drains(a) ==
    /\ Ready(a)
    /\ Received(a) \in {Shutdown, "Err"}
    /\ IF Len(queue[a]) > 1
       THEN /\ queue' = [queue EXCEPT ![a] = Append(Tail(@), Head(@))]
            /\ pc' = pc
       ELSE /\ queue' = [queue EXCEPT ![a] = <<>>]
            /\ pc' = [pc EXCEPT ![a] = "exiting"]
    /\ UNCHANGED <<free, caller, mainVars, open, inbound, held, count, failed,
                   since>>

\* `Ok(Shutdown) | Err(_) => break`
RecvBreak(a) ==
    /\ Ready(a)
    /\ Received(a) \in {Shutdown, "Err"}
    /\ queue' = [queue EXCEPT ![a] = IF @ = <<>> THEN @ ELSE Tail(@)]
    /\ pc' = [pc EXCEPT ![a] = "exiting"]
    /\ UNCHANGED <<free, caller, mainVars, open, inbound, held, count, failed,
                   since>>

\* ctx.get_msg that succeeds.  Err(NoMsgs) changes nothing by itself: what
\* the handler does about it is a choice between the other actions.
GetMsg(a) == \E b \in free :
    /\ pc[a] = "handle"
    /\ free' = free \ {b}
    /\ held' = [held EXCEPT ![a] = @ \cup {b}]
    /\ UNCHANGED <<caller, mainVars, pc, open, queue, inbound, count, failed,
                   since>>

\* ctx.send of a message the handler holds, delivered ...
Send(a, dst) == \E b \in held[a] :
    /\ pc[a] = "handle"
    /\ open[dst]
    /\ queue' = [queue EXCEPT ![dst] = Append(@, b)]
    /\ held' = [held EXCEPT ![a] = @ \ {b}]
    /\ UNCHANGED <<free, caller, mainVars, pc, open, inbound, count, failed,
                   since>>

\* Mutant of SendClosed: forgets the message the failed send gives back.
SendClosed_Leaks(a, dst) == \E b \in held[a] :
    /\ pc[a] = "handle"
    /\ ~open[dst]
    /\ held' = [held EXCEPT ![a] = @ \ {b}]
    /\ UNCHANGED <<free, caller, mainVars, pc, open, queue, inbound, count,
                   failed, since>>

\* ... or, with the destination's receiver gone, dropped back to the pool.
SendClosed(a, dst) == \E b \in held[a] :
    /\ pc[a] = "handle"
    /\ ~open[dst]
    /\ free' = free \cup {b}
    /\ held' = [held EXCEPT ![a] = @ \ {b}]
    /\ UNCHANGED <<caller, mainVars, pc, open, queue, inbound, count, failed,
                   since>>

\* A PooledMsg dropped without being sent: by the handler, while a panic
\* unwinds it, or with the actor itself when its thread ends.
DropHeld(a) == \E b \in held[a] :
    /\ \/ pc[a] \in {"handle", "unwind"}
       \/ pc[a] = "discarding" /\ queue[a] = <<>>
    /\ free' = free \cup {b}
    /\ held' = [held EXCEPT ![a] = @ \ {b}]
    /\ UNCHANGED <<caller, mainVars, pc, open, queue, inbound, count, failed,
                   since>>

CountUp(n) == IF n < MaxCount THEN n + 1 ELSE n

\* Mutant of HandlerReturn: the message is not dropped.
HandlerReturn_Leaks(a) ==
    /\ pc[a] = "handle"
    /\ inbound' = [inbound EXCEPT ![a] = NoBuf]
    /\ count' = [count EXCEPT ![a] = CountUp(@)]
    /\ since' = [since EXCEPT ![a] = CountUp(@)]
    /\ pc' = [pc EXCEPT ![a] = "recv"]
    /\ UNCHANGED <<free, caller, mainVars, open, queue, held, failed>>

\* handle_message returns; `drop(msg); count += 1`.
HandlerReturn(a) ==
    /\ pc[a] = "handle"
    /\ free' = free \cup {inbound[a]}
    /\ inbound' = [inbound EXCEPT ![a] = NoBuf]
    /\ count' = [count EXCEPT ![a] = CountUp(@)]
    /\ since' = [since EXCEPT ![a] = CountUp(@)]
    /\ pc' = [pc EXCEPT ![a] = "recv"]
    /\ UNCHANGED <<caller, mainVars, open, queue, held, failed>>

HandlerPanic(a) ==
    /\ pc[a] = "handle"
    /\ failed' = failed \cup {a}
    /\ pc' = [pc EXCEPT ![a] = "unwind"]
    /\ UNCHANGED <<free, caller, mainVars, open, queue, inbound, held, count,
                   since>>

\* Unwinding out of the match arm drops the message being handled.
UnwindInbound(a) ==
    /\ pc[a] = "unwind"
    /\ free' = free \cup {inbound[a]}
    /\ inbound' = [inbound EXCEPT ![a] = NoBuf]
    /\ pc' = [pc EXCEPT ![a] = "exiting"]
    /\ UNCHANGED <<caller, mainVars, open, queue, held, count, failed, since>>

\* The parameters of actor_loop are dropped last to first: the pool handle
\* and the peers, then the receiver, then the actor.
DropPeers(a) ==
    /\ pc[a] = "exiting"
    /\ pc' = [pc EXCEPT ![a] = "closing"]
    /\ UNCHANGED <<free, caller, mainVars, open, queue, inbound, held, count,
                   failed, since>>

DropReceiver(a) ==
    /\ pc[a] = "closing"
    /\ open' = [open EXCEPT ![a] = FALSE]
    /\ pc' = [pc EXCEPT ![a] = "discarding"]
    /\ UNCHANGED <<free, caller, mainVars, queue, inbound, held, count, failed,
                   since>>

\* The receiver's drop goes on: each signal left in the channel is dropped.
Discard(a) ==
    /\ pc[a] = "discarding"
    /\ queue[a] # <<>>
    /\ free' = free \cup ({Head(queue[a])} \cap Buf)
    /\ queue' = [queue EXCEPT ![a] = Tail(@)]
    /\ UNCHANGED <<caller, mainVars, pc, open, inbound, held, count, failed,
                   since>>

Exit(a) ==
    /\ pc[a] = "discarding"
    /\ queue[a] = <<>>
    /\ held[a] = {}
    /\ pc' = [pc EXCEPT ![a] = "exited"]
    /\ UNCHANGED <<free, caller, mainVars, open, queue, inbound, held, count,
                   failed, since>>

-----------------------------------------------------------------------------

MainStep == \/ Spawn \/ SeedSend \/ SeedFail \/ SeedDone
            \/ UnwindSeed \/ UnwindDone
            \/ ResetCount \/ SendClear \/ EndRun \/ SendShutdown
            \/ Join \/ JoinPanic

\* What the runtime does in an actor's thread ...
LoopStep(a) == \/ RecvUser(a) \/ RecvClear(a) \/ RecvBreak(a)
               \/ UnwindInbound(a)
               \/ DropPeers(a) \/ DropReceiver(a) \/ Discard(a)
               \/ pc[a] # "handle" /\ DropHeld(a)
               \/ Exit(a)
\* ... and what the actor does there.
HandlerStep(a) == \/ GetMsg(a)
                  \/ pc[a] = "handle" /\ DropHeld(a)
                  \/ \E dst \in Actor : Send(a, dst) \/ SendClosed(a, dst)
                  \/ HandlerReturn(a) \/ HandlerPanic(a)

Next == \/ MainStep \/ SpawnFail \/ CallerGet \/ CallerDrop
        \/ \E a \in Actor : LoopStep(a) \/ HandlerStep(a)

Spec == Init /\ [][Next]_vars

\* Threads are scheduled fairly, sleeps and spawns end, and a handler does
\* not block (the contract of ActorZC): it returns or panics some day.
Fairness == /\ WF_vars(MainStep)
            /\ \A a \in Actor : /\ WF_vars(LoopStep(a))
                                /\ WF_vars(HandlerReturn(a) \/ HandlerPanic(a))

FairSpec == Spec /\ Fairness

-----------------------------------------------------------------------------
(* Properties *)

\* The buffers of the messages in the caller's hands, and in a channel.
SeedBufs == {seeds[i].buf : i \in DOMAIN seeds}
QueuedBufs(a) == Range(queue[a]) \cap Buf

\* Where a buffer is: in the pool, or owned by a message of the caller, of
\* initial_messages, in a channel, being handled, or held by an actor.
Places(b) ==
    {<<"pool">> : x \in free \cap {b}}
    \cup {<<"caller">> : x \in caller \cap {b}}
    \cup {<<"seed", i>> : i \in {j \in DOMAIN seeds : seeds[j].buf = b}}
    \cup {<<"inbound", a>> : a \in {c \in Actor : inbound[c] = b}}
    \cup {<<"held", a>> : a \in {c \in Actor : b \in held[c]}}
    \cup UNION {{<<"queue", a, i>> : i \in {j \in DOMAIN queue[a] :
                                              queue[a][j] = b}} : a \in Actor}

\* A buffer is always in exactly one place: no path through sends, closed
\* channels, panics and shutdown loses a buffer, and none puts one back
\* into the pool while a message still uses it.
OneOwner == \A b \in Buf : \E p \in Places(b) : Places(b) = {p}

\* The drain invariant (runtime_zc.rs:27-30): when stop, the Drop of the
\* Handle, run or run_probed returns, every message the runtime ever had in
\* flight has been dropped, whatever was queued behind the Shutdown signals
\* and whichever handlers panicked.
Drained == mpc = "returned" => free = Buf \ caller

\* reset_count marks the warmup boundary "so stop's aggregate excludes
\* warmup messages" (runtime_zc.rs:313-316): no thread reports more messages
\* than it completed after reset_count last reached it, though the signal
\* waits behind queued messages and Shutdown follows behind it.
ExcludesWarmup ==
    mpc = "returned" => \A i \in DOMAIN results : results[i] <= since[i - 1]

\* stop and run return normally only if they joined every thread and none of
\* them panicked; dropping the Handle swallows panics (runtime_zc.rs:334-336,
\* 355-357).
PanicsSurface ==
    /\ mpc = "returned" /\ how # "drop" => failed = {} /\ Len(results) = N
    /\ how = "drop" => mpc # "panicked"

\* Resets under way: run_inner still owes one to every actor until it has
\* sent its ClearProbe.
Live == {a \in Actor : pc[a] \in {"unborn", "recv", "handle"}}
Owing == {a \in Live : \/ ClearProbe \in Range(queue[a])
                       \/ how = "run" /\ resets = 0
                       \/ how = "run" /\ mpc = "clear" /\ idx <= a}
Stopped == mpc = "returned" /\ how # "drop"
Outcome == CASE mpc \in {"spawn", "seed", "unwind"} -> "starting"
             [] Stopped -> "reported"
             [] mpc = "panicked" -> "aborted"
             [] OTHER -> "running"

\* The counts that stop and run return are, for each actor, the messages it
\* completed since it consumed the last ClearProbe sent to it; there is no
\* report while an actor runs, nor if one has failed (Handle::stop and
\* RuntimeZC::run, runtime_zc.rs:90-139 and 331-351).
Measured == INSTANCE Measurement WITH tally <- count, pending <- Owing, live <- Live,
    outcome <- Outcome,
    report <- [a \in Actor |-> IF Stopped THEN results[a + 1] ELSE 0]
CountsMeasured == Measured!Spec

-----------------------------------------------------------------------------
(* Liveness *)

\* A run always ends: the Shutdown signals get through the backlog of every
\* actor although the actors keep sending to each other, and no thread waits
\* for another one in a circle.
Terminates == <>(mpc \in {"returned", "panicked"})

\* Once the shutdown signals are out, all threads end and all their buffers
\* come home, even if stop panics at the first failed thread and abandons
\* the rest.
ShutdownDrains ==
    mpc = "join" ~> /\ \A a \in Actor : pc[a] = "exited"
                    /\ Buf = free \cup caller

=============================================================================
