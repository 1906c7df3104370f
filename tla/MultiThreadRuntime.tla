------------------------- MODULE MultiThreadRuntime -------------------------
(***************************************************************************)
(* MultiThreadRuntime::run (runtime.rs:369-496): a thread and a channel    *)
(* per actor.  main spawns the threads, delivers the seeds, sleeps through *)
(* the warmup, sends every actor a ClearProbe, sleeps through the          *)
(* measurement, sends every actor a Shutdown and joins them in id order.   *)
(* The signals queue up behind the user messages of the same channel.      *)
(* Messages are empty (lib.rs: `struct Message`).  Factories run in the    *)
(* thread of their actor; they and the handlers may panic.                 *)
(***************************************************************************)
EXTENDS Integers, Sequences, FiniteSets, Functions

CONSTANTS
    N,              \* number of registered factories
    SeedDst,        \* destinations the seeds may name
    MaxSeeds,       \* bound on the number of seeds
    MaxCount,       \* the counters saturate here
    MaxQueued       \* bound on the user messages in one channel

ASSUME NAssumption == N \in Nat \ {0}
ASSUME BoundsAssumption == {MaxSeeds, MaxCount, MaxQueued} \subseteq Nat
ASSUME SeedDstAssumption == SeedDst \subseteq Nat

Actor == 0 .. N - 1
Signal == {"User", "ClearProbe", "Shutdown"}

VARIABLES
    seeds,      \* pending_seeds not sent yet: their destinations
    mpc, idx,   \* where main is, and its loop index
    results,    \* what the joins returned so far, in id order
    pc,         \* where each actor's thread is
    open,       \* TRUE until the actor's receiver is dropped
    queue,      \* the signals in each channel
    count,      \* actor_loop's count
    samples,    \* records in the actor's probe
    failed      \* actors whose thread panicked

mainVars == <<seeds, mpc, idx, results>>
threadVars == <<pc, open, queue, count, samples, failed>>
vars == <<mainVars, threadVars>>

\* The state in which run has taken the factories and the seeds.
Init == /\ \E k \in 0 .. MaxSeeds : seeds \in [1 .. k -> SeedDst]
        /\ mpc = "spawn" /\ idx = 0 /\ results = <<>>
        /\ pc = [a \in Actor |-> "unborn"] /\ open = [a \in Actor |-> TRUE]
        /\ queue = [a \in Actor |-> <<>>]
        /\ count = [a \in Actor |-> 0] /\ samples = count /\ failed = {}

-----------------------------------------------------------------------------
(* main *)

\* Mutant of Advance: one turn too many.
Advance_Past(next) == IF idx = N THEN mpc' = next /\ idx' = 0
                                 ELSE mpc' = mpc /\ idx' = idx + 1

\* The end of a turn of main's loop over the actors.
Advance(next) == IF idx + 1 = N THEN mpc' = next /\ idx' = 0
                                ELSE mpc' = mpc /\ idx' = idx + 1

Spawn == /\ mpc = "spawn"
         /\ pc' = [pc EXCEPT ![idx] = "start"]
         /\ Advance("seed")
         /\ UNCHANGED <<seeds, results, open, queue, count, samples, failed>>

\* `.expect("failed to spawn actor thread")`; the receivers left are dropped.
SpawnFail == /\ mpc = "spawn" /\ mpc' = "panicked"
             /\ open' = [a \in Actor |-> open[a] /\ pc[a] # "unborn"]
             /\ UNCHANGED <<seeds, idx, results, pc, queue, count, samples, failed>>

\* A send reaches the channel unless its receiver is gone.
Enqueue(a, s) == queue' = [queue EXCEPT ![a] = IF open[a] THEN Append(@, s) ELSE @]

Deliverable(dst) == dst \in Actor /\ open[dst]

SeedSend == /\ mpc = "seed" /\ seeds # <<>> /\ Deliverable(Head(seeds))
            /\ Enqueue(Head(seeds), "User") /\ seeds' = Tail(seeds)
            /\ UNCHANGED <<mpc, idx, results, pc, open, count, samples, failed>>

\* `senders[dst as usize]` out of range, or the unwrap of a failed send.
SeedFail == /\ mpc = "seed" /\ seeds # <<>> /\ ~Deliverable(Head(seeds))
            /\ mpc' = "panicked"
            /\ UNCHANGED <<seeds, idx, results, threadVars>>

\* The warmup begins.
SeedDone == /\ mpc = "seed" /\ seeds = <<>>
            /\ mpc' = "clear"
            /\ UNCHANGED <<seeds, idx, results, threadVars>>

Broadcast(s, next) == /\ Enqueue(idx, s) /\ Advance(next)
                      /\ UNCHANGED <<seeds, results, pc, open, count, samples, failed>>

\* Mutant of SendClear: the loop goes straight on to the shutdown.
SendClear_FirstOnly == mpc = "clear" /\ Enqueue(idx, "ClearProbe") /\ mpc' = "shutdown"
                       /\ UNCHANGED <<seeds, idx, results, pc, open, count, samples, failed>>

SendClear == mpc = "clear" /\ Broadcast("ClearProbe", "shutdown")

\* Mutant of SendShutdown: joins each actor before it signals the next one.
SendShutdown_OneByOne == mpc = "shutdown" /\ Enqueue(idx, "Shutdown") /\ mpc' = "join"
                         /\ UNCHANGED <<seeds, idx, results, pc, open, count, samples, failed>>

SendShutdown == mpc = "shutdown" /\ Broadcast("Shutdown", "join")

Join == /\ mpc = "join" /\ pc[idx] = "exited" /\ idx \notin failed
        /\ results' = Append(results, [count |-> count[idx], samples |-> samples[idx]])
        /\ Advance("returned")
        /\ UNCHANGED <<seeds, threadVars>>

\* `h.join().expect("actor thread panicked")`; the threads left run on.
JoinPanic == /\ mpc = "join" /\ pc[idx] = "exited" /\ idx \in failed
             /\ mpc' = "panicked"
             /\ UNCHANGED <<seeds, idx, results, threadVars>>

-----------------------------------------------------------------------------
(* An actor's thread *)

\* `factory()` returns, actor_loop begins.
Start(a) == /\ pc[a] = "start"
            /\ pc' = [pc EXCEPT ![a] = "recv"]
            /\ UNCHANGED <<mainVars, open, queue, count, samples, failed>>

\* `rx.recv()`.  It never returns Err: `peers` holds a sender of the
\* thread's own channel.
Recv(a, s, to) == /\ pc[a] = "recv" /\ queue[a] # <<>> /\ Head(queue[a]) = s
                  /\ queue' = [queue EXCEPT ![a] = Tail(@)]
                  /\ pc' = [pc EXCEPT ![a] = to]

RecvUser(a) == Recv(a, "User", "handle") /\ UNCHANGED <<mainVars, open, count, samples, failed>>

\* Mutant of RecvClear: only the probe is cleared.
RecvClear_KeepsCount(a) == /\ Recv(a, "ClearProbe", "recv")
                           /\ samples' = [samples EXCEPT ![a] = 0]
                           /\ UNCHANGED <<mainVars, open, count, failed>>

RecvClear(a) == /\ Recv(a, "ClearProbe", "recv")
                /\ count' = [count EXCEPT ![a] = 0] /\ samples' = [samples EXCEPT ![a] = 0]
                /\ UNCHANGED <<mainVars, open, failed>>

RecvShutdown(a) == Recv(a, "Shutdown", "exit") /\ UNCHANGED <<mainVars, open, count, samples, failed>>

\* MultiCtx::send; a closed channel is silently ignored.
Send(a, dst) == /\ pc[a] = "handle"
                /\ Cardinality({i \in DOMAIN queue[dst] : queue[dst][i] = "User"}) < MaxQueued
                /\ Enqueue(dst, "User")
                /\ UNCHANGED <<mainVars, pc, open, count, samples, failed>>

CountUp(n) == IF n < MaxCount THEN n + 1 ELSE n

\* handle_message returns: `probe.end(id); count += 1`.
Return(a) == /\ pc[a] = "handle"
             /\ count' = [count EXCEPT ![a] = CountUp(@)]
             /\ samples' = [samples EXCEPT ![a] = CountUp(@)]
             /\ pc' = [pc EXCEPT ![a] = "recv"]
             /\ UNCHANGED <<mainVars, open, queue, failed>>

\* The factory or the handler panics (an index out of range in send, too).
Panic(a) == /\ pc[a] \in {"start", "handle"}
            /\ failed' = failed \cup {a} /\ pc' = [pc EXCEPT ![a] = "exit"]
            /\ UNCHANGED <<mainVars, open, queue, count, samples>>

\* Mutant of Exit: what is queued keeps the thread alive.
Exit_WhenEmpty(a) == /\ pc[a] = "exit" /\ queue[a] = <<>>
                     /\ open' = [open EXCEPT ![a] = FALSE] /\ pc' = [pc EXCEPT ![a] = "exited"]
                     /\ UNCHANGED <<mainVars, queue, count, samples, failed>>

\* The receiver is dropped with whatever is queued, and the thread ends.
Exit(a) == /\ pc[a] = "exit"
           /\ open' = [open EXCEPT ![a] = FALSE] /\ queue' = [queue EXCEPT ![a] = <<>>]
           /\ pc' = [pc EXCEPT ![a] = "exited"]
           /\ UNCHANGED <<mainVars, count, samples, failed>>

MainStep == Spawn \/ SeedSend \/ SeedFail \/ SeedDone \/ SendClear \/ SendShutdown
            \/ Join \/ JoinPanic
LoopStep(a) == Start(a) \/ RecvUser(a) \/ RecvClear(a) \/ RecvShutdown(a) \/ Exit(a)
HandlerStep(a) == Return(a) \/ Panic(a) \/ \E dst \in Actor : Send(a, dst)

Next == MainStep \/ SpawnFail \/ \E a \in Actor : LoopStep(a) \/ HandlerStep(a)
Spec == Init /\ [][Next]_vars

-----------------------------------------------------------------------------
(* Properties *)

TypeOK == /\ seeds \in Seq(SeedDst) /\ idx \in Actor
          /\ mpc \in {"spawn", "seed", "clear", "shutdown", "join", "returned", "panicked"}
          /\ results \in Seq([count : 0 .. MaxCount, samples : 0 .. MaxCount])
          /\ pc \in [Actor -> {"unborn", "start", "recv", "handle", "exit", "exited"}]
          /\ open \in [Actor -> BOOLEAN] /\ queue \in [Actor -> Seq(Signal)]
          /\ count \in [Actor -> 0 .. MaxCount] /\ samples \in [Actor -> 0 .. MaxCount]
          /\ failed \subseteq Actor

\* An actor owes a reset until it has consumed the ClearProbe that main
\* sends it after the warmup.
Live == {a \in Actor : pc[a] \notin {"exit", "exited"}}
Owing == {a \in Live : \/ mpc \in {"spawn", "seed"}
                       \/ mpc = "clear" /\ idx <= a
                       \/ "ClearProbe" \in Range(queue[a])}
Outcome == CASE mpc \in {"spawn", "seed"} -> "starting"
             [] mpc = "returned" -> "reported"
             [] mpc = "panicked" -> "aborted"
             [] OTHER -> "running"
Reported(r) == [a \in Actor |-> IF mpc = "returned" THEN r[a] ELSE 0]

\* run returns for each actor what it did after it consumed its own
\* ClearProbe, behind all of the warmup's messages that came before it, and
\* returns at all only if no thread has failed.  This holds for the message
\* counts and, separately, for the records in the probes.
Counts == INSTANCE Measurement WITH tally <- count, pending <- Owing, live <- Live,
    outcome <- Outcome, report <- Reported([a \in Actor |-> results[a + 1].count])
Probes == INSTANCE Measurement WITH tally <- samples, pending <- Owing, live <- Live,
    outcome <- Outcome, report <- Reported([a \in Actor |-> results[a + 1].samples])

CountsMeasured == Counts!Spec
ProbesMeasured == Probes!Spec

\* run returns (or panics), although the actors keep each other busy and the
\* Shutdown waits behind their messages.
Terminates == <>(mpc \in {"returned", "panicked"})

\* After the Shutdown signals all threads end, those too that main abandons
\* when it panics at the join of a failed one.
ThreadsEnd == mpc = "join" ~> \A a \in Actor : pc[a] = "exited"

=============================================================================
