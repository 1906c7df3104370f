# Verification of actor-x1

TLA+ models of the actor runtimes in `crates/actor-x1` and of the probe library
in `crates/tprobe`, model-checked with TLC and, where it pays, proved with
TLAPS. File and line references are to
`crates/actor-x1/src/` unless a path says otherwise.

## The system

actor-x1 is a small actor framework built to measure message-passing costs.
Actors are objects with a `handle_message`; a runtime delivers messages to
them. The zerocopy path, the part with the most state in motion, passes
buffers of a fixed pool instead of values.

| part | source | state it keeps | operations |
|---|---|---|---|
| `BufRefStore`, `MutexLifo` | pool.rs:93-197 | free list of buffers | `from_buffers`, `get`, `ret`, `len`, `size` |
| `Pool`, `PooledMsg` | pool.rs:199-363 | the shared store; per message its buffer and logical length | `new`, `get_msg`, deref, hand-over, `Drop` |
| `ActorManager`, traits `ActorZC`, `ContextZC` | actor_manager.rs | actors with dense ids | `add`, `take_actors` |
| `RuntimeZC`, `Handle` | runtime_zc.rs | one thread and one channel per actor, join handles, per-thread counts | `run`, `run_probed`, `startup`, `reset_count`, `stop`, `Drop`, per-thread loop, `MultiCtxZC::{get_msg, send}` |
| goalzc | bin/goalzc.rs | two ping-pong actors, a pool of 4 | startup, warmup, reset, run, stop |
| `MultiThreadRuntime` | runtime.rs:284-496 | as RuntimeZC without pool or Handle | `add_actor`, `seed`, `run`, per-thread loop |
| `SingleThreadRuntime` | runtime.rs:14-147 | mailbox, actors, probe | `add_actor`, `seed`, `run_for`, `dispatch_batch` |
| goal1, goal2 | bin/ | ping-pong over these two runtimes | |
| `TProbe` | tprobe/src/tprobe.rs | records, histogram | `start`, `end`, `end_batch`, `clear`, `report` |
| `band_table`, `overhead` | tprobe/src/ | none (pure computations) | `render`, `calibrate`, `per_event_ticks` |
| pin, ticks, fmt, benches | | none | OS calls, counter reads, formatting, timing drivers |

How they interact. The main thread spawns a thread per actor and gives each
the receiver of its channel and a clone of every sender, its own channel's
included (runtime_zc.rs:180). Everything the threads tell each other goes
through these FIFO channels: user messages, and in-band the control signals
`ClearProbe` and `Shutdown` from main. A message owns a pool buffer; whoever
drops the message, on whatever path, returns the buffer through the mutex of
the store. Main learns from a thread only by joining it.

What is hard here:

- Interleavings of the pool's clients: `get_msg` and the `Drop` of a message
  are several steps each.
- Every way a message can die: handled, sent to a thread that is gone, still
  queued when its receiver is dropped, held by a handler that panics, kept in
  an actor's own fields, stuck in a startup that fails. Each must return one
  buffer exactly once.
- The order of signals and backlog: `ClearProbe` and `Shutdown` stand in line
  behind messages that the actors keep producing.
- Partial failure: a panic in one thread, noticed (or not) at a join while the
  other threads go on; a panic of main during startup.
- The size of the pool: the reply is drawn before the inbound buffer returns.
- The single-threaded loop: a deadline looked at between batches only, a batch
  the mailbox cannot fill, a warmup and a measurement on one probe.
- The arithmetic of a report: costs rounded per event, equal samples across a
  percentile, a fit through noisy points.

What makes each part correct: the store neither loses nor duplicates a buffer;
a message has its buffer alone and within bounds; at the end of a run all
buffers are home (the drain invariant, runtime_zc.rs:27-30); a reported count
excludes the warmup; a panic is reported by `stop` and `run` and by nothing
else; every run ends; goalzc's pool never runs dry. The mailbox is FIFO and what
`run_for` does not count is less than one batch; goal1's count and records
describe the same messages; a probe reports each ended scope once, in the
bucket of its cost to the nearest tick; bands and trim lie where their
percentiles are, and the overhead taken off the mean is what the samples owe,
to the precision of the buckets.

## Modules

| module | models | built on |
|---|---|---|
| `BufRefStore` | the contract of the trait: some held buffer out, a buffer that is out back in | |
| `MutexLifo` | the default store, one atomic step per method (each holds the lock for one `Vec` call that cannot panic) | |
| `StorePrecondition` | a client that uses `MutexLifo` through the public trait, held to the documented precondition only | `MutexLifo` |
| `Pool` | threads sharing a Pool | `MutexLifo`; implements `BufRefStore` |
| `RuntimeZC` | RuntimeZC, Handle, the actor threads, with arbitrary handlers | the abstract store as the set `free` |
| `GoalZC` | RuntimeZC with the ping-pong actor | `RuntimeZC` |
| `Measurement` | what a run of either multi-threaded runtime promises its caller: tallies, resets, a report | implemented by `MultiThreadRuntime` and `RuntimeZC` |
| `MultiThreadRuntime` | `run`, the actor threads, with arbitrary factories and handlers | |
| `Goal2` | main of goal2 with its ping-pong actors | `MultiThreadRuntime` |
| `SingleThreadRuntime` | the runtime and a caller that uses it in any order | |
| `Goal1` | main of goal1, or any other caller | `SingleThreadRuntime` |
| `Histogram` | the hdrhistogram crate as the probe uses it: buckets of three significant figures (operators, external) | |
| `Overhead` | the calibration fit and the correction per event (operators) | |
| `BandTable` | the numbers of a report (operators) | `Histogram` |
| `TProbe` | a probe, its records, histogram and reports | `Overhead`, `BandTable` |
| `MC_RuntimeZC`, `MC_GoalZC`, `MC_Startup`, `MC_Goal2`, `MC_TProbe` | instances for TLC | |
| `Pool_proofs` | theorems about `Pool` | `Pool` |
| `RuntimeZC_proofs`, `RuntimeZC_warmup` | theorems about `RuntimeZC`: ownership; counts and reports | `RuntimeZC` |
| `GoalZC_proofs` | theorems about goalzc | `GoalZC`, `RuntimeZC_warmup` |
| `MultiThreadRuntime_proofs` | theorems about `MultiThreadRuntime` and goal2 | `Goal2` |
| `Sums_proofs` | laws of sums over finite sets | |
| `SingleThreadRuntime_proofs` | theorems about `SingleThreadRuntime` and goal1 | `Goal1`, `Sums_proofs` |
| `TProbe_proofs` | theorems about a probe, its reports and the calibration | `TProbe`, `Sums_proofs` |

`Pool` carries `pc[t]` for a thread inside `get_msg` (`get`, `build`) or inside
a drop (`ret`), `box[t]` for the `BufRef` in its hands and `msgs` for the live
PooledMsgs with the thread that owns them. `get_msg` is `GetMsg` (the size
check: a refused size changes nothing and has no step), `StoreGet` or `NoMsgs`,
and `Build`; `Drop` is `DropTake` and `DropRet`; `Give` is a move to another
thread. Bytes are left out: neither `get_msg` nor `Drop` reads or writes them.

`RuntimeZC` keeps for main: `mpc` (where it is), `idx` (its loop index),
`seeds` (initial messages not sent yet), `how` (`run_inner`, or the call that
ends the Handle), `resets`, `results`; for each actor thread: `pc`, `open` (its
receiver lives), `queue` (its channel), `inbound` (the message being handled),
`held` (messages its handler or actor owns), `count`, and `failed`; the pool as
`free`; `caller` (messages of code outside, through `Handle::pool` or the
caller's own clone). `since` is a history variable: messages completed since
`reset_count` last sent the actor a `ClearProbe`.

| code | actions |
|---|---|
| `spawn_and_seed` (155-207) | `Spawn`, `SeedSend`, `SeedDone`; failing: `SpawnFail`, `SeedFail`, `UnwindSeed`, `UnwindDone` |
| `reset_count`, warmup end of `run_inner` | `ResetCount`, `SendClear` for each actor |
| `stop`, `Drop`, end of `run_inner` | `EndRun`, `SendShutdown` for each actor, `Join` for each actor or `JoinPanic` |
| `actor_loop` | `RecvUser`, `RecvClear`, `RecvBreak`, `HandlerReturn` |
| the handler through its context | `GetMsg`, `Send`, `SendClosed`, `DropHeld`, `HandlerPanic` |
| the end of a thread | `UnwindInbound`, `DropPeers`, `DropReceiver`, `Discard`, `DropHeld`, `Exit` |

The loops over the actors are one step per actor, since the threads run
between any two sends or joins. A thread ends in the order Rust drops the
parameters of `actor_loop`: pool and peers, then the receiver (the channel
closes first, the queued signals are dropped one by one after that), then the
actor with whatever messages it has kept. `actor_loop_probed` takes the same
steps; its probe calls belong to the TProbe component.

The channel (`std::sync::mpsc`) is external. The model takes from it what the
code relies on: FIFO, unbounded, `send` fails exactly when the receiver is
gone, `recv` fails exactly when the queue is empty and no sender lives.

`GoalZC` restricts the handler: `Fetch` (`get_msg`, or `FetchPanic` from its
`expect`), `Reply` to the peer, `Return`. It leaves `SpawnFail` and the
caller's own draws out (main of goalzc makes none). `exchanges` remembers the
number of initial messages.

`SingleThreadRuntime` keeps `actors` (peer, limit, replies sent, messages
handled), the mailbox `queue` and the batch sizes in the probe (`records`); for
a call under way `mpc`, `inner`, `done`, `count` and `expired` (the deadline has
passed). A message carries the length of its chain of answers (`round`), a
history field. `seeds`, `before` and `cleared` are history variables.

| code | actions |
|---|---|
| `add_actor`, `seed`, `probe_mut().clear()` | `add_actor`, `seed`, `clear` |
| `run_for` (64-98) | `run_for`, then `StartScope`, `Dispatch` for each message, `EndBatch`; it ends in `RunForReturns` or `DropPartialBatch`; `Expire` is the clock |
| `dispatch_batch` (112-125) | `dispatch_batch`, `Dispatch` for each message, `DispatchBatchReturns` |
| `handle_message` (83-85) of an actor with a limit | part of `Dispatch` |
| `handle_message` of any other actor | `DispatchAny` in place of `Dispatch`, or `HandlerPanics` |
| a destination without an actor | `NoActor` (index panic after the pop) |

The loops are cut into steps although one thread runs them, because the clock
moves between any two. An actor is `Arbitrary`, or it has a limit of replies:
the Bouncer of the tests (160-176), with 0 for their Sink and `Unlimited` for
the PingPongActor. The handler of an `Arbitrary` actor sends any messages, to
itself, to others or to an id without an actor, until the actor has sent
`MaxSends`, or it panics and takes the calling thread with it. `BouncesAddUp`
alone is about actors with limits; every other property is one of all actors.

`MultiThreadRuntime` has the variables of `RuntimeZC` that remain without a
pool and a Handle, and for each thread the records in its probe (`samples`).

| code | actions |
|---|---|
| `run` (369-446) | `Spawn`, `SeedSend`, `SeedDone`, `SendClear`, `SendShutdown`, `Join`; failing: `SpawnFail`, `SeedFail`, `JoinPanic` |
| `factory()`, `actor_loop` (471-496) | `Start`, `RecvUser`, `Return`, `RecvClear`, `RecvShutdown`, `Exit`; `Panic` |
| `MultiCtx::send` | `Send` |

Here messages own nothing, so a receiver and all it holds go in one step.

`Measurement` knows actors that work, resets that are asked for and take effect
later, actors that stop or fail, and a report. Its safety content: the report
gives for every actor what it did after its last reset took effect, no actor
stops in good order with a reset outstanding, and there is a report only if all
have stopped and none has failed. The mapping from `MultiThreadRuntime` takes
`count` (`CountsMeasured`) and `samples` (`ProbesMeasured`) for the tally; from
`RuntimeZC` it takes `count`. A reset is pending from the moment main is bound
to send the `ClearProbe` until the thread consumes it.

`TProbe` has the readings in the ids handed out (`scopes`; an id is `Copy` and
may be ended again), `records` and `hist` as bags, `ovh`, and the report just
printed (`shown`); `ended` remembers all records since the last clear. `start`,
`end_batch` (`end` is `n = 1`), `clear` and `report` are one action each: a
probe has one owner. `end_batch` adds 1 or 49 equal records, since the top band
holds nothing below 50 samples. In `Overhead` an f64 is an exact fraction over
9900, in `BandTable` percentiles are compared as integers; what f64 rounding
adds on top is left out.

The histogram does not keep values. `new_with_bounds(1, 1e12, 3)`
(tprobe.rs:92) makes buckets that are exact below 2048 and from there on as wide
as the power of two that leaves at least 1024 of them to each doubling;
`Histogram` computes the bucket of a value. A histogram of the model maps the
highest value of each bucket, which is what `iter_recorded` shows and the bands
are computed from, to its count; the mean row takes the middle of each bucket,
as `hist.mean()` does (band_table.rs:137). So a cost of 9006 is counted, and
shown by the bands, as 9007, and enters the mean row as 9004.

## Runs

| run | instance | what it shows |
|---|---|---|
| `pool` | 3 threads, 3 buffers, sizes 0-2 for `msg_size` 1 | `OneOwner`, `DerefInBounds`: no two messages share a buffer, none is lost, none out of bounds. `NoMsgsMeansAllOut`: a refusal means all buffers are out, though perhaps only in the hands of a drop under way. `StoreContract`: LIFO and Pool implement `BufRefStore`. |
| `store_precondition` | 2 stored boxes, 1 own box | violated, see Findings |
| `zc_mesh` | 2 actors, 3 buffers, up to 2 initial messages to 3 destinations (one out of range), 1 reset | `OneOwner`, `Drained`, `ExcludesWarmup`, `PanicsSurface`; `CountsMeasured`: it implements `Measurement` |
| `zc_liveness` | 2 actors, 2 buffers, up to 2 initial messages to either actor (none out of range, so startup can fail by a spawn or by a thread that is gone), 1 reset | `Terminates`, `ShutdownDrains` |
| `goalzc` | 2 actors, 3 buffers, 0-2 initial messages | `ExchangesConserved`, `NeverStarved`, `StopReturns`; deadlock-free |
| `seed_failure`, `orphans` | as goalzc with 2 buffers | violated, see Findings |
| `single_thread` | 2 actors, each with limit 0, 1 or none or with any handler, 2 seeds, 2 messages from each arbitrary actor, batches of 0, 1, 3; goal1's main and any other caller | `LossOnlyWhenDry`: what a call handled but did not count is less than a batch, and only when the mailbox ran dry. `NoOvertaking`: no answer passes a waiting message. `BouncesAddUp`: limits determine the number of messages, however batched. `NoPhantomEvents`, `ReportExact`: records and count cover the same messages. `CallsReturn` |
| `goal2` | 2 actors, up to 2 seeds to 3 destinations (one out of range), 2 messages per channel; goal2's actors and arbitrary ones | `CountsMeasured`, `ProbesMeasured`, `OneInFlight`, `Terminates`, `ThreadsEnd` |
| `report` | readings 0 and 9006, batches 0, 1, 4, 1 or 49 scopes a step, 3 such steps between clears, 3 calibrations | `HistogramIsMeasured`: each ended scope once, in the bucket of its rounded cost. `AdjustedByOwnCost`: the overhead taken off is what the samples owe, to a tick and one part in 2048, `BandsPartition`, `BandsTrackPercentiles`, `TrimIsRobust`, `FitReproduces` |
| `calibrate_cold`, `loop_subtracted` | as `goal2`, `report` | violated, see Findings |

Bounds. `MaxSeeds`, `MaxResets` and `MaxCaller` limit the inputs. `MaxCount` is
where `count` and `since` saturate, both in the same way, so that
`count <= since` is not changed by it: with 1 in `zc_mesh` a count that survived
a reset shows as 1 against 0. Two actors are enough for a send to oneself, to a
live peer, to a peer that is closing and to one that has gone, and for a panic
before and after the thread joined first; three buffers allow a message being
handled, one queued and one drawn at the same time. Two initial messages to one
actor are needed for a send that finds the thread already dead. The proofs
remove these bounds for the safety properties. In `zc_mesh` buffers are a
symmetry set: no action looks at which buffer it moves. In the liveness runs
there is no symmetry, and counts and the caller's draws, on which progress does
not depend, are bounded by 0. In `goalzc` three buffers are tight for one
exchange (`exchanges + N`) and one too few for two, so both sides of
`NeverStarved` and the panics of `get_msg().expect` occur. The binary itself
has one exchange and four buffers, one more than the bound.

In `single_thread`, `MaxHandled` and `MaxRecords` stop further batches, not the
ones under way, so that a batch of 3 is filled, broken off and overtaken by the
deadline. Two actors and two seeds give messages of different rounds in one
mailbox, and let a caller seed again after a call that ran dry. The limits 0, 1
and none give the first actor, the second or neither the last word. With
`MaxSends` = 2 an arbitrary actor sends both in one handler or in two, so that
the mailbox grows while a batch of 3 drains it, and panics with messages handled
and not recorded. In `goal2` counts saturate at 2, in all tallies alike. In
`report` the costs that occur are 1, in a bucket of its own, 2252 (9006 / 4,
rounded up at the half), the lower end of a bucket of two, and 9006, inside a
bucket of eight, with counts up to 147: empty bands, buckets across several percentiles, and
one sample in 50 in the top band. The three pairs of floors are in order, have
a negative intercept, and are in the wrong order.

Deadlock is checked in `pool`, `report` and `goalzc` (there `Done` stands for
the finished process). The others stop for good when the run is over or the
caller has used up its bounds.

Fairness. `FairSpec` assumes weak fairness of main (its sleeps end, the OS
schedules it), of the runtime's own steps in each thread, and that a handler
some day returns or panics: the contract of `ActorZC` is that it does not
block. Nothing is assumed about what a handler sends or draws, none of the
steps is strongly fair, and `ResetCount` competes with `EndRun` under one
fairness condition. In `GoalZC` the handler's own steps are weakly fair: they
never wait. `GSpec` of `Goal2` assumes the same for its threads and main, and
again nothing about what arbitrary handlers send. In `SingleThreadRuntime` and
`Goal1` the calling thread's own steps and the clock are weakly fair; among
these steps are the handlers, which return or panic but do not block. A library
caller need not call anything.

## Findings

1. `store_precondition`: the precondition documented for `ret` ("total `ret`
   calls never exceed total `get` calls plus the store's initial capacity",
   pool.rs:117-120) lets a full store take two more boxes, and `len` exceeds
   `size` against pool.rs:127-128; `MutexLifo::ret` does not panic either.
   `Pool` never does this (`StoreContract`).
2. `seed_failure`: runtime_zc.rs:200-202 (and runtime.rs:415-417) expects a
   failing seed to be surfaced by "the join below"; the `unwrap` on the same
   line panics main before there is any join.
3. `orphans`: "`Signal::Shutdown` (or closed channel) exits"
   (runtime_zc.rs:414): a channel never closes while its own thread runs,
   because the thread holds a sender of it. After a failed startup the threads
   block in `recv` until the process ends.
4. `calibrate_cold`: overhead.rs:97-100 says that goal1 and goal2 run their
   warmup before they call `calibrate`. goal2 calibrates first (goal2.rs:102);
   its warmup runs later, inside `run`.
5. `loop_subtracted`: overhead.rs:44-47 calls `loop_per_iter_ticks` "not used in
   the subtraction path"; `per_event_ticks` adds it (overhead.rs:66), as its own
   comment and tprobe's notes/overhead-model.md ("Correction policy") document.
   With floors of 3 and 26000 the whole correction is loop cost.

Two remarks that are not divergences of a run. The test comment at
runtime.rs:236-237 counts 4 dispatches for two Bouncers with a limit of 3;
`BouncesAddUp` says 7, and the assertion accepts 1 to 7. And `TrimIsRobust`
shows that at least 98 percent of the samples always stay in the trimmed mean,
so the branch for an empty trim (band_table.rs:146-150, "if all samples land in
`p99-max`") is never taken.

## Proofs

Every invariant and every action property that a passing run checks is also a
theorem, for every value of the constants; the runs show them on a small
instance and show that the interesting cases occur. Liveness stays with TLC.

| module | theorem | statement |
|---|---|---|
| `Pool_proofs` | `TypeCorrect` | `Spec => []TypeOK` |
| | `BuffersHaveOneOwner` | `Spec => []OneOwner` |
| | `LengthsInBounds` | `Spec => []DerefInBounds` |
| | `NoMsgsOnlyWhenAllOut` | `Spec => NoMsgsMeansAllOut` |
| | `ImplementsStore` | `Spec => StoreContract`: the pool and its LIFO implement `BufRefStore` |
| `RuntimeZC_proofs` | `TypeCorrect` | `Spec => []TypeOK` |
| | `BuffersHaveOneOwner` | `Spec => []OneOwner` |
| | `RunsDrain` | `Spec => []Drained` |
| | `PanicsSurfaceAtStop` | `Spec => []PanicsSurface` |
| `RuntimeZC_warmup` | `ReportsExcludeWarmup` | `Spec => []ExcludesWarmup` |
| | `CountsAreMeasured` | `Spec => CountsMeasured`: RuntimeZC implements `Measurement` |
| `GoalZC_proofs` | `ExchangesAreConserved` | `GSpec => []ExchangesConserved` |
| | `PoolNeverStarves` | `GSpec => []NeverStarved` |
| `MultiThreadRuntime_proofs` | `TypeCorrect` | `Spec => []TypeOK` |
| | `CountsAreMeasured` | `Spec => CountsMeasured`: it implements `Measurement` with its counts |
| | `ProbesAreMeasured` | `Spec => ProbesMeasured`: and with the records of its probes |
| | `OneMessageInFlight` | `GSpec => []OneInFlight` |
| `SingleThreadRuntime_proofs` | `TypeCorrect` | `Spec => []TypeOK` |
| | `MailboxIsFair` | `Spec => []NoOvertaking` |
| | `RecordsAreHandled` | `Spec => []NoPhantomEvents` |
| | `LossIsPartial` | `Spec => LossOnlyWhenDry` |
| | `BouncesAreCounted` | `Spec => []BouncesAddUp` |
| | `ReportIsExact` | `GSpec => []ReportExact` |
| `TProbe_proofs` | `TypeCorrect` | `Spec => []TypeOK` |
| | `ScopesAreMeasured` | `Spec => []HistogramIsMeasured` |
| | `OwnCostIsTakenOff` | `Spec => []AdjustedByOwnCost` |
| | `BandsArePartition` | `Spec => []BandsPartition` |
| | `BandsAreAtPercentiles` | `Spec => []BandsTrackPercentiles` |
| | `TrimIsAtMostTwoPercent` | `Spec => []TrimIsRobust` |
| | `FitIsReproduced` | `Spec => []FitReproduces` |

Assumptions. All are named in the module that declares the constants, and TLC
evaluates them in the runs: finite sets of buffers (`BufFinite`,
`BufAssumption`), natural sizes and bounds (`SizesAreNat`, `BoundsAssumption`,
`BoundAssumption`), at least one actor (`NAssumption`; goal1 registers two,
`PingPongAssumption`), every ping-pong actor has a peer (`PeerAssumption`),
control signals that are no buffers (`SignalsDistinct`, `NoBufIsNoBuf`), seed
destinations that are naturals, `u32` in the code (`SeedDstAssumption`), batch
sizes that are naturals, limits that are naturals or one of two distinct marks
(`InnerAssumption`), readings and batch sizes that are naturals, finitely many
readings, and no zero number of equal scopes (`ReadingsAssumption`), and no scope
so long that the histogram refuses it (`RecordableAssumption`: 2^40 ticks, the
bucket of 1e12; the comment at tprobe.rs:174 makes the same assumption). The proofs use the bounds of
the models (`MaxSeeds`, `MaxCount`, `MaxEnds`, ...) as arbitrary numbers.

### Pool

The invariant splits `OneOwner` into what a step can see: a buffer is stored,
carried by a thread, or live in a message (`Kept`), not in two of these
(`Apart`), and not twice in one (`StoredOnce`, `CarriedOnce`, `LiveOnce`); a
thread carries a box exactly in `build` and `ret` (`Carrying`); and a thread
past the size check has a size that fits (`Checked`), from which
`DerefInBounds` follows. `GetMoves` and `RetMoves` say of pop and push that
they move one buffer and leave the others; all five theorems rest on them.

### RuntimeZC: ownership

`OneOwner` of `RuntimeZC` is not inductive either. It counts places; a step
needs to know where the buffer it moves is, and that an unborn or finished
thread has none. The invariant `IInv` is

- `TypeOK`;
- `Handling`: `inbound` holds a buffer exactly in the states `handle` and
  `unwind`;
- `Lifecycle`: threads from `idx` on are unborn while main spawns; a thread
  past its receiver's drop is closed, an exited one has empty channel and
  hands; main is past a join only if that thread has exited, and past a join
  that expects a count only if it has not failed; seeds are gone once it runs;
- `Ownership`: for each buffer there is a kind of place and an actor such that
  the buffer is there and nowhere else (`OnlyAt`), and no channel or seed list
  has it twice.

Every action moves at most one buffer; the lemma `StaysOwned` disposes of all
others, and one step per action moves the one. `OwnershipIsOneOwner` turns the
map into the set of places of `OneOwner`. `Drained` follows since at
`returned` all threads have exited, so only `free` and `caller` are left.

### RuntimeZC: reports

A count exceeds `since` only while a `ClearProbe` is under way (`Cleared`); no
`ClearProbe` is queued behind a `Shutdown` (`ClearFirst`); before the shutdown
a thread leaves its loop only by a panic, since its own sender keeps its
channel open (`OnlyPanicsLeave`), so a thread that ends in good order has
consumed every `ClearProbe` (`NoneMissed`). This is where the clone of a
thread's own sender, the cause of finding 3, is needed: without it a thread
could leave on a closed channel. That is `ExcludesWarmup`.

The refinement of `Measurement` adds that a joined count is final (`Final`),
that main's loops start from the first actor (`Rewound`) and that `run` sends
no `Shutdown` before it has cleared (`ClearsFirst`). A step of a thread or of
main then is a `Work`, a reset taking effect, a stop, a failure, the report, or
a stutter of `Measurement`, shown action by action. `MultiThreadRuntime` goes
the same way: its `IInv` says how far main's loops have come with the threads
(`Born`, `OpenUntilExited`), with the signals (`Unsent`, `ClearFirst`) and with
the results (`JoinedInOrder`).

### The binaries

goal2: either the seed is still in main's hands and no message exists, or there
is one at most, in a channel or in the hands of a handler that owes its answer,
and one for sure as long as all channels are open (`Flight`).

goalzc: an actor draws one reply, while it owes it (`OneReply`), and the number
of messages waiting for an answer is that of the seeds until an actor fails,
and never more (`Conserved`): a reply enters the set of waiting messages in
the same step in which the message it answers leaves it (`ReplySwaps`). The
pool's bound follows by mapping every other buffer that is out to the actor
that keeps it, one buffer each (`RestFits`): at most `exchanges + N` buffers are
out, and while a handler draws, it keeps none itself.

goal1: `Lines` follows its main line by line: which actors and messages exist,
and from the clear on that the records sum up to the count.

### SingleThreadRuntime

`IInv` ties what was handled to the count, the batch under way (`Counted`) and
the records (`Recorded`): `Handled` is `before + count + done` inside a scope.
`LossOnlyWhenDry` is the step in which `done` is dropped. `NoOvertaking` is
inductive with the types. `BouncesAddUp` needs to know at every moment whose
turn it is and who has sent how much (`Bounced`): the two actors' tallies differ
by at most one, until a limit is spent.

### TProbe and its reports

The bags need a law for each operation: `EndMeasures` (a scope that ends is
open, nothing else changes) and `ReportMeasures` (a report moves the costs of
the open records into the histogram). `Measures` says that a histogram holds
for *every* cost, those it does not show as well, as many samples as drained
records have it; without those the step that shows a new cost would not go
through. `CostIs` is the arithmetic of rounding: the quotient computed is the
one value whose interval holds the exact cost. The buckets come in by a few
facts about recordable values (`BucketIs`, `MedianIs`, `BucketsAre`): the width of a bucket is a power of two, it is
the same for every value in the bucket, and it is 1 below 2048 and at most one
part in 1024 of the lowest value above. From these follow that the buckets are
disjoint intervals, which makes the count of each one exact, and that the middle
of a bucket is within one part in 2048 of anything in it, which is the `blur` in
`AdjustedByOwnCost` and the bound on the mean row in `BandsPartition`.

The properties of the bands hold of *every* histogram (`RenderPartitions`,
`RenderTracks`, `RenderTrims`), and of a report because what is on show is the
rendering of one (`ShownRendered`). Mid-ranks increase with the values
(`BelowIs`), so bands do (`BandsOrdered`), so the values up to a band are a
prefix of the histogram and its sum is what lies below the next value
(`InsideIs`); the mid-rank of that value against the percentile gives the
bound. `FitReproduces` is linear arithmetic over the two roundings.

### Sums

`SumFunctionOnSet` is a fold, defined by recursion through `CHOOSE`.
`Sums_proofs` proves the laws of it that all this needs (an element taken
out, one value changed, a sequence extended, disjoint parts, two functions
added, fibres of a map), by induction over the subsets of a finite set. The
induction theorems of the library take an operator, which the provers cannot
instantiate; well-founded minimality (`WFMin`) is about sets, and the lemmas
`Least` and `SubsetInduction` get the same effect from it.

### Only model-checked

All liveness (`Terminates`, `ShutdownDrains`, `StopReturns`, `ThreadsEnd`,
`CallsReturn`) and deadlock freedom: fairness and ENABLED are out of the
prover's reach. The findings are counterexamples of runs.

## Not modelled

- Bytes in buffers, reference counts of the shared pool, thread names,
  pinning, printing and command lines.
- The probe in `actor_loop_probed`: its calls are those of `actor_loop` in
  runtime.rs, where `samples` stands for them.
- A probe's `site_id` (nothing reads it) and the exit of `TProbe::new` when the
  tick counter is unusable.
- Standard deviations, unit conversion and layout of the band table; rounding
  of f64: means and the fit are exact fractions.
- A scope of 2^40 ticks or more, for which `report` panics at the `unwrap` of
  `record` (`RecordableAssumption` excludes it).
- What a report should take off when it shows samples that an earlier report
  drained: the code averages the overhead over the new records only
  (tprobe.rs:180), and `AdjustedByOwnCost` is about reports that drained all they
  show, as those of the binaries do.
- `measure_empty_raw` (overhead.rs:71-90), the smallest of many readings of the
  counter around an empty loop: its two results are inputs, and any two naturals
  are allowed.
- `add` / `take_actors` of `ActorManager`, `add_actor` / `seed` of
  `MultiThreadRuntime` as steps: they fill lists that a run takes at its start,
  and every such list is an initial state.
- A runtime without actors (`N = 0`): `run` then returns an empty vector with
  no thread and no channel.
- Spawn failure in `GoalZC` (it is in `RuntimeZC`).
- Panics while the store's mutex is held: `push`, `pop` and `len` do not panic;
  running out of memory aborts the process.

## Plan

Done: the pool, all runtimes and their binaries, the probe with its report;
theorems for every safety and action property of the runs. Left:

1. Steps towards liveness that are safety: a thread that has been sent its
   `Shutdown` and is not in a handler always has a step, and the number of
   signals before the `Shutdown` never grows from the control side.
2. The corrected precondition of finding 1 (no box is returned that was not
   handed out) as a theorem about `MutexLifo` under any client.
