-------------------------- MODULE RuntimeZC_proofs --------------------------
(***************************************************************************)
(* Proofs about RuntimeZC, for every number of actors, every pool and      *)
(* every bound.                                                            *)
(*                                                                         *)
(* The argument follows the owner of each buffer.  An ownership map says   *)
(* of every buffer what kind of place it is in and at which actor; every   *)
(* action moves at most one buffer.  With the map at hand, two places that *)
(* both had a buffer would contradict each other (OneOwner), and once all  *)
(* threads have exited with empty channels no place is left but the pool   *)
(* and the caller (Drained).                                               *)
(***************************************************************************)
EXTENDS RuntimeZC, SequenceTheorems, TLAPS

-----------------------------------------------------------------------------
(* Channels as sequences *)

Occurs(x, q) == \E i \in 1 .. Len(q) : q[i] = x

\* Each buffer at most once; the control signals may repeat.
Once(q) == \A i, j \in 1 .. Len(q) : q[i] = q[j] /\ q[i] \in Buf => i = j

\* What a signal appended to a channel changes about its contents.
LEMMA OccursAppend ==
    ASSUME NEW S, NEW q \in Seq(S), NEW x \in S, NEW y
    PROVE  Occurs(y, Append(q, x)) <=> (y = x \/ Occurs(y, q))
<1>1. Len(Append(q, x)) = Len(q) + 1 /\ Len(q) \in Nat
  OBVIOUS
<1>2. \A i \in 1 .. Len(q) : Append(q, x)[i] = q[i]
  OBVIOUS
<1>3. Append(q, x)[Len(q) + 1] = x
  OBVIOUS
<1> QED
  BY <1>1, <1>2, <1>3 DEF Occurs

LEMMA OnceAppend ==
    ASSUME NEW S, NEW q \in Seq(S), NEW x \in S, Once(q),
           x \in Buf => ~Occurs(x, q)
    PROVE  Once(Append(q, x))
<1>1. Len(Append(q, x)) = Len(q) + 1 /\ Len(q) \in Nat
  OBVIOUS
<1>2. \A i \in 1 .. Len(q) : Append(q, x)[i] = q[i]
  OBVIOUS
<1>3. Append(q, x)[Len(q) + 1] = x
  OBVIOUS
<1> QED
  BY <1>1, <1>2, <1>3 DEF Occurs, Once

\* What taking the first signal off a channel changes.
LEMMA TailFacts ==
    ASSUME NEW S, NEW q \in Seq(S), q # <<>>
    PROVE  /\ Len(Tail(q)) = Len(q) - 1 /\ Len(q) \in Nat \ {0}
           /\ \A i \in 1 .. Len(q) - 1 : Tail(q)[i] = q[i + 1]
           /\ Head(q) = q[1]
           /\ Head(q) \in S /\ Tail(q) \in Seq(S)
OBVIOUS

LEMMA OccursTail ==
    ASSUME NEW S, NEW q \in Seq(S), q # <<>>, NEW y
    PROVE  Occurs(y, q) <=> (y = Head(q) \/ Occurs(y, Tail(q)))
<1>1. ASSUME Occurs(y, q), y # Head(q) PROVE Occurs(y, Tail(q))
  <2>1. PICK i \in 1 .. Len(q) : q[i] = y
    BY <1>1 DEF Occurs
  <2>2. i # 1 /\ i - 1 \in 1 .. Len(q) - 1
    BY <1>1, <2>1, TailFacts
  <2>3. Tail(q)[i - 1] = y
    BY <2>1, <2>2, TailFacts
  <2> QED
    BY <2>2, <2>3, TailFacts DEF Occurs
<1>2. ASSUME y = Head(q) PROVE Occurs(y, q)
  BY <1>2, TailFacts DEF Occurs
<1>3. ASSUME Occurs(y, Tail(q)) PROVE Occurs(y, q)
  <2>1. PICK i \in 1 .. Len(q) - 1 : Tail(q)[i] = y
    BY <1>3, TailFacts DEF Occurs
  <2>2. q[i + 1] = y /\ i + 1 \in 1 .. Len(q)
    BY <2>1, TailFacts
  <2> QED
    BY <2>2 DEF Occurs
<1> QED
  BY <1>1, <1>2, <1>3

LEMMA OnceTail ==
    ASSUME NEW S, NEW q \in Seq(S), q # <<>>, Once(q)
    PROVE  /\ Once(Tail(q))
           /\ Head(q) \in Buf => ~Occurs(Head(q), Tail(q))
<1>1. \A i \in 1 .. Len(q) - 1 : i + 1 \in 1 .. Len(q) /\ Tail(q)[i] = q[i + 1]
  BY TailFacts
<1>2. Len(Tail(q)) = Len(q) - 1 /\ Len(q) \in Nat \ {0} /\ Head(q) = q[1]
  BY TailFacts
<1>3. Once(Tail(q))
  BY <1>1, <1>2 DEF Once
<1>4. ASSUME Head(q) \in Buf, NEW i \in 1 .. Len(q) - 1, Tail(q)[i] = Head(q)
      PROVE  FALSE
  <2>1. q[i + 1] = q[1] /\ 1 \in 1 .. Len(q) /\ i + 1 \in 1 .. Len(q)
    BY <1>1, <1>2, <1>4
  <2> QED
    BY <1>2, <1>4, <2>1 DEF Once
<1> QED
  BY <1>2, <1>3, <1>4 DEF Occurs

-----------------------------------------------------------------------------
(* Types *)

\* A thread handles a message exactly while it owns one.
Handling == \A a \in Actor : inbound[a] \in Buf <=> pc[a] \in {"handle", "unwind"}

\* The threads the main thread has not spawned yet.
Unborn == mpc = "spawn" => \A a \in Actor : a >= idx => pc[a] = "unborn"

USE NAssumption, BoundsAssumption, SeedDstAssumption, SignalsDistinct

\* The end of a round leaves the loop index an actor.
LEMMA AdvanceTypes ==
    ASSUME idx \in Actor, NEW next, Advance(next)
    PROVE  /\ mpc' \in {mpc, next} /\ idx' \in Actor
           /\ mpc' = mpc /\ mpc # next => idx' = idx + 1
           /\ mpc' # mpc => idx + 1 = N /\ idx' = 0
<1>1. CASE idx + 1 = N
  BY <1>1 DEF Advance, Actor
<1>2. CASE idx + 1 # N
  BY <1>2 DEF Advance, Actor
<1> QED
  BY <1>1, <1>2

\* The next initial message.
LEMMA HeadSeed ==
    ASSUME TypeOK, seeds # <<>>
    PROVE  /\ Head(seeds) \in [dst : Nat, buf : Buf]
           /\ Tail(seeds) \in Seq([dst : Nat, buf : Buf])
BY TailFacts DEF TypeOK

LEMMA InitTypes == Init => TypeOK /\ Handling /\ Unborn
<1> SUFFICES ASSUME Init PROVE TypeOK /\ Handling /\ Unborn
  OBVIOUS
<1>1. seeds \in Seq([dst : Nat, buf : Buf])
  <2>1. PICK k \in 0 .. MaxSeeds : seeds \in [1 .. k -> [dst : SeedDst, buf : Buf]]
    BY DEF Init
  <2>2. \A i \in 1 .. k : seeds[i] \in [dst : Nat, buf : Buf]
    BY <2>1
  <2>3. seeds \in [1 .. k -> [dst : Nat, buf : Buf]]
    BY <2>1, <2>2
  <2>4. k \in Nat
    BY <2>1
  <2> QED
    BY ONLY <2>3, <2>4, SeqDef
<1>2. 0 \in Actor
  BY DEF Actor
<1>3. TypeOK
  BY <1>1, <1>2 DEF Init, TypeOK, MainPC, ActorPC
<1> QED
  BY <1>3 DEF Init, Handling, Unborn

LEMMA NextTypes == TypeOK /\ Handling /\ Unborn /\ [Next]_vars => TypeOK' /\ Handling'
<1> SUFFICES ASSUME TypeOK, Handling, Unborn, [Next]_vars
             PROVE  TypeOK' /\ Handling'
  OBVIOUS
<1> USE DEF TypeOK, mainVars, actorVars
<1>1. CASE Spawn
  <2>1. pc' \in [Actor -> ActorPC]
    BY <1>1 DEF Spawn, ActorPC
  <2>2. mpc' \in MainPC /\ idx' \in Actor
    BY <1>1, AdvanceTypes DEF Spawn, MainPC
  <2>3. Handling'
    <3>1. pc[idx] = "unborn"
      BY <1>1 DEF Spawn, Unborn, Actor
    <3> QED
      BY <1>1, <3>1 DEF Spawn, Handling
  <2> QED
    BY <1>1, <2>1, <2>2, <2>3 DEF Spawn
<1>2. CASE SpawnFail
  <2>1. mpc' \in MainPC
    BY <1>2 DEF SpawnFail, MainPC
  <2>2. open' \in [Actor -> BOOLEAN]
    BY <1>2 DEF SpawnFail
  <2>3. Handling'
    BY <1>2 DEF SpawnFail, Handling
  <2> QED
    BY <1>2, <2>1, <2>2, <2>3 DEF SpawnFail
<1>3. CASE SeedSend
  <2>1. seeds' \in Seq([dst : Nat, buf : Buf])
    BY <1>3 DEF SeedSend
  <2>2. queue' \in [Actor -> Seq(Signal)]
    <3>1. Head(seeds).buf \in Signal
      BY <1>3, HeadSeed DEF SeedSend, Signal
    <3> QED
      BY <1>3, <3>1 DEF SeedSend, Deliverable
  <2>3. Handling'
    BY <1>3 DEF SeedSend, Handling
  <2> QED
    BY <1>3, <2>1, <2>2, <2>3 DEF SeedSend
<1>4. CASE SeedFail
  <2>1. mpc' \in MainPC
    BY <1>4 DEF SeedFail, MainPC
  <2>2. Handling'
    BY <1>4 DEF SeedFail, Handling
  <2> QED
    BY <1>4, <2>1, <2>2 DEF SeedFail
<1>5. CASE SeedDone
  <2>1. mpc' \in MainPC
    BY <1>5 DEF SeedDone, MainPC
  <2>2. Handling'
    BY <1>5 DEF SeedDone, Handling
  <2> QED
    BY <1>5, <2>1, <2>2 DEF SeedDone
<1>6. CASE UnwindSeed
  <2>1. seeds' \in Seq([dst : Nat, buf : Buf])
    BY <1>6 DEF UnwindSeed
  <2>2. free' \subseteq Buf
    BY <1>6, HeadSeed DEF UnwindSeed
  <2>3. Handling'
    BY <1>6 DEF UnwindSeed, Handling
  <2> QED
    BY <1>6, <2>1, <2>2, <2>3 DEF UnwindSeed
<1>7. CASE UnwindDone
  <2>1. mpc' \in MainPC
    BY <1>7 DEF UnwindDone, MainPC
  <2>2. Handling'
    BY <1>7 DEF UnwindDone, Handling
  <2> QED
    BY <1>7, <2>1, <2>2 DEF UnwindDone
<1>8. CASE ResetCount
  <2>1. mpc' \in MainPC
    BY <1>8 DEF ResetCount, MainPC
  <2>2. resets' \in Nat
    BY <1>8 DEF ResetCount
  <2>3. Handling'
    BY <1>8 DEF ResetCount, Handling
  <2> QED
    BY <1>8, <2>1, <2>2, <2>3 DEF ResetCount
<1>9. CASE SendClear
  <2>1. queue' \in [Actor -> Seq(Signal)]
    BY <1>9 DEF SendClear, SendSignal, Signal
  <2>2. since' \in [Actor -> 0 .. MaxCount]
    BY <1>9 DEF SendClear
  <2>3. mpc' \in MainPC /\ idx' \in Actor
    BY <1>9, AdvanceTypes DEF SendClear, MainPC
  <2>4. Handling'
    BY <1>9 DEF SendClear, Handling
  <2> QED
    BY <1>9, <2>1, <2>2, <2>3, <2>4 DEF SendClear
<1>10. CASE EndRun
  <2>1. mpc' \in MainPC
    BY <1>10 DEF EndRun, MainPC
  <2>2. how' \in {"live", "run", "stop", "drop"}
    BY <1>10 DEF EndRun
  <2>3. Handling'
    BY <1>10 DEF EndRun, Handling
  <2> QED
    BY <1>10, <2>1, <2>2, <2>3 DEF EndRun
<1>11. CASE SendShutdown
  <2>1. queue' \in [Actor -> Seq(Signal)]
    BY <1>11 DEF SendShutdown, SendSignal, Signal
  <2>2. mpc' \in MainPC /\ idx' \in Actor
    BY <1>11, AdvanceTypes DEF SendShutdown, MainPC
  <2>3. Handling'
    BY <1>11 DEF SendShutdown, Handling
  <2> QED
    BY <1>11, <2>1, <2>2, <2>3 DEF SendShutdown
<1>12. CASE Join
  <2>1. results' \in Seq(0 .. MaxCount)
    <3>1. count[idx] \in 0 .. MaxCount
      OBVIOUS
    <3>2. Append(results, count[idx]) \in Seq(0 .. MaxCount)
      BY <3>1
    <3> QED
      BY <1>12, <3>2 DEF Join
  <2>2. mpc' \in MainPC /\ idx' \in Actor
    BY <1>12, AdvanceTypes DEF Join, MainPC
  <2>3. Handling'
    BY <1>12 DEF Join, Handling
  <2> QED
    BY <1>12, <2>1, <2>2, <2>3 DEF Join
<1>13. CASE JoinPanic
  <2>1. mpc' \in MainPC
    BY <1>13 DEF JoinPanic, MainPC
  <2>2. Handling'
    BY <1>13 DEF JoinPanic, Handling
  <2> QED
    BY <1>13, <2>1, <2>2 DEF JoinPanic
<1>14. CASE CallerGet
  <2>1. free' \subseteq Buf
    BY <1>14 DEF CallerGet
  <2>2. caller' \subseteq Buf
    BY <1>14 DEF CallerGet
  <2>3. Handling'
    BY <1>14 DEF CallerGet, Handling
  <2> QED
    BY <1>14, <2>1, <2>2, <2>3 DEF CallerGet
<1>15. CASE CallerDrop
  <2>1. free' \subseteq Buf
    BY <1>15 DEF CallerDrop
  <2>2. caller' \subseteq Buf
    BY <1>15 DEF CallerDrop
  <2>3. Handling'
    BY <1>15 DEF CallerDrop, Handling
  <2> QED
    BY <1>15, <2>1, <2>2, <2>3 DEF CallerDrop
<1>16. ASSUME NEW a \in Actor, RecvUser(a) PROVE TypeOK' /\ Handling'
  <2>1. queue' \in [Actor -> Seq(Signal)]
    BY <1>16 DEF RecvUser, Ready, Received
  <2>2. pc' \in [Actor -> ActorPC]
    BY <1>16 DEF RecvUser, ActorPC
  <2>3. inbound' \in [Actor -> Buf \cup {NoBuf}]
    BY <1>16 DEF RecvUser
  <2>4. Handling'
    BY <1>16 DEF RecvUser, Handling
  <2> QED
    BY <1>16, <2>1, <2>2, <2>3, <2>4 DEF RecvUser
<1>17. ASSUME NEW a \in Actor, RecvClear(a) PROVE TypeOK' /\ Handling'
  <2>1. queue' \in [Actor -> Seq(Signal)]
    BY <1>17 DEF RecvClear, Ready, Received
  <2>2. count' \in [Actor -> 0 .. MaxCount]
    BY <1>17 DEF RecvClear
  <2>3. Handling'
    BY <1>17 DEF RecvClear, Handling
  <2> QED
    BY <1>17, <2>1, <2>2, <2>3 DEF RecvClear
<1>18. ASSUME NEW a \in Actor, RecvBreak(a) PROVE TypeOK' /\ Handling'
  <2>1. queue' \in [Actor -> Seq(Signal)]
    BY <1>18 DEF RecvBreak, Ready, Received
  <2>2. pc' \in [Actor -> ActorPC]
    BY <1>18 DEF RecvBreak, ActorPC
  <2>3. Handling'
    BY <1>18 DEF RecvBreak, Handling, Ready
  <2> QED
    BY <1>18, <2>1, <2>2, <2>3 DEF RecvBreak
<1>19. ASSUME NEW a \in Actor, GetMsg(a) PROVE TypeOK' /\ Handling'
  <2>1. free' \subseteq Buf
    BY <1>19 DEF GetMsg
  <2>2. held' \in [Actor -> SUBSET Buf]
    BY <1>19 DEF GetMsg
  <2>3. Handling'
    BY <1>19 DEF GetMsg, Handling
  <2> QED
    BY <1>19, <2>1, <2>2, <2>3 DEF GetMsg
<1>20. ASSUME NEW a \in Actor, DropHeld(a) PROVE TypeOK' /\ Handling'
  <2>1. free' \subseteq Buf
    BY <1>20 DEF DropHeld
  <2>2. held' \in [Actor -> SUBSET Buf]
    BY <1>20 DEF DropHeld
  <2>3. Handling'
    BY <1>20 DEF DropHeld, Handling
  <2> QED
    BY <1>20, <2>1, <2>2, <2>3 DEF DropHeld
<1>21. ASSUME NEW a \in Actor, HandlerReturn(a) PROVE TypeOK' /\ Handling'
  <2>1. free' \subseteq Buf
    BY <1>21 DEF HandlerReturn, Handling
  <2>2. pc' \in [Actor -> ActorPC]
    BY <1>21 DEF HandlerReturn, ActorPC
  <2>3. inbound' \in [Actor -> Buf \cup {NoBuf}]
    BY <1>21 DEF HandlerReturn
  <2>4. count' \in [Actor -> 0 .. MaxCount]
    BY <1>21 DEF HandlerReturn, CountUp
  <2>5. since' \in [Actor -> 0 .. MaxCount]
    BY <1>21 DEF HandlerReturn, CountUp
  <2>6. Handling'
    BY <1>21 DEF HandlerReturn, Handling
  <2> QED
    BY <1>21, <2>1, <2>2, <2>3, <2>4, <2>5, <2>6 DEF HandlerReturn
<1>22. ASSUME NEW a \in Actor, HandlerPanic(a) PROVE TypeOK' /\ Handling'
  <2>1. pc' \in [Actor -> ActorPC]
    BY <1>22 DEF HandlerPanic, ActorPC
  <2>2. failed' \in SUBSET Actor
    BY <1>22 DEF HandlerPanic
  <2>3. Handling'
    BY <1>22 DEF HandlerPanic, Handling
  <2> QED
    BY <1>22, <2>1, <2>2, <2>3 DEF HandlerPanic
<1>23. ASSUME NEW a \in Actor, UnwindInbound(a) PROVE TypeOK' /\ Handling'
  <2>1. free' \subseteq Buf
    BY <1>23 DEF UnwindInbound, Handling
  <2>2. pc' \in [Actor -> ActorPC]
    BY <1>23 DEF UnwindInbound, ActorPC
  <2>3. inbound' \in [Actor -> Buf \cup {NoBuf}]
    BY <1>23 DEF UnwindInbound
  <2>4. Handling'
    BY <1>23 DEF UnwindInbound, Handling
  <2> QED
    BY <1>23, <2>1, <2>2, <2>3, <2>4 DEF UnwindInbound
<1>24. ASSUME NEW a \in Actor, DropPeers(a) PROVE TypeOK' /\ Handling'
  <2>1. pc' \in [Actor -> ActorPC]
    BY <1>24 DEF DropPeers, ActorPC
  <2>2. Handling'
    BY <1>24 DEF DropPeers, Handling
  <2> QED
    BY <1>24, <2>1, <2>2 DEF DropPeers
<1>25. ASSUME NEW a \in Actor, DropReceiver(a) PROVE TypeOK' /\ Handling'
  <2>1. pc' \in [Actor -> ActorPC]
    BY <1>25 DEF DropReceiver, ActorPC
  <2>2. open' \in [Actor -> BOOLEAN]
    BY <1>25 DEF DropReceiver
  <2>3. Handling'
    BY <1>25 DEF DropReceiver, Handling
  <2> QED
    BY <1>25, <2>1, <2>2, <2>3 DEF DropReceiver
<1>26. ASSUME NEW a \in Actor, Discard(a) PROVE TypeOK' /\ Handling'
  <2>1. queue' \in [Actor -> Seq(Signal)]
    BY <1>26 DEF Discard
  <2>2. free' \subseteq Buf
    BY <1>26 DEF Discard
  <2>3. Handling'
    BY <1>26 DEF Discard, Handling
  <2> QED
    BY <1>26, <2>1, <2>2, <2>3 DEF Discard
<1>27. ASSUME NEW a \in Actor, Exit(a) PROVE TypeOK' /\ Handling'
  <2>1. pc' \in [Actor -> ActorPC]
    BY <1>27 DEF Exit, ActorPC
  <2>2. Handling'
    BY <1>27 DEF Exit, Handling
  <2> QED
    BY <1>27, <2>1, <2>2 DEF Exit
<1>28. ASSUME NEW a \in Actor, NEW dst \in Actor, Send(a, dst)
      PROVE  TypeOK' /\ Handling'
  <2>1. queue' \in [Actor -> Seq(Signal)]
    BY <1>28 DEF Send, Signal
  <2>2. held' \in [Actor -> SUBSET Buf]
    BY <1>28 DEF Send
  <2>3. Handling'
    BY <1>28 DEF Send, Handling
  <2> QED
    BY <1>28, <2>1, <2>2, <2>3 DEF Send
<1>29. ASSUME NEW a \in Actor, NEW dst \in Actor, SendClosed(a, dst)
      PROVE  TypeOK' /\ Handling'
  <2>1. free' \subseteq Buf
    BY <1>29 DEF SendClosed
  <2>2. held' \in [Actor -> SUBSET Buf]
    BY <1>29 DEF SendClosed
  <2>3. Handling'
    BY <1>29 DEF SendClosed, Handling
  <2> QED
    BY <1>29, <2>1, <2>2, <2>3 DEF SendClosed
<1>30. CASE UNCHANGED vars
  BY <1>30 DEF vars, Handling
<1> QED
  BY <1>1, <1>2, <1>3, <1>4, <1>5, <1>6, <1>7, <1>8, <1>9, <1>10, <1>11, <1>12, <1>13, <1>14, <1>15, <1>16, <1>17, <1>18, <1>19, <1>20, <1>21, <1>22, <1>23, <1>24, <1>25, <1>26, <1>27, <1>28, <1>29, <1>30
     DEF Next, MainStep, LoopStep, HandlerStep

-----------------------------------------------------------------------------
(* Where the threads are when the main thread has come so far *)

\* A receiver is gone before what it leaves behind is dropped; nothing is
\* left behind by a thread that has ended.
Ended == \A a \in Actor :
    /\ pc[a] \in {"discarding", "exited"} => ~open[a]
    /\ pc[a] = "exited" => queue[a] = <<>> /\ held[a] = {}

\* The initial messages are sent by the time the actors run on their own, and
\* the main thread passes a join only when that thread has ended.
Joined ==
    /\ mpc \in {"running", "clear", "shutdown", "join", "returned"} => seeds = <<>>
    /\ mpc = "join" => \A a \in Actor : a < idx => pc[a] = "exited"
    /\ mpc = "returned" => \A a \in Actor : pc[a] = "exited"

\* A join that expects a count passes only threads that did not panic.
Counted ==
    /\ mpc \in {"spawn", "seed", "running", "clear", "shutdown"} => results = <<>>
    /\ mpc = "join" /\ how # "drop" =>
          Len(results) = idx /\ \A a \in Actor : a < idx => a \notin failed
    /\ mpc = "returned" /\ how # "drop" => Len(results) = N /\ failed = {}
    /\ how = "drop" => mpc \in {"shutdown", "join", "returned"}

Lifecycle == Unborn /\ Ended /\ Joined /\ Counted

LEMMA InitLifecycle == Init => Lifecycle
BY DEF Init, Lifecycle, Unborn, Ended, Joined, Counted

LEMMA NextLifecycle == TypeOK /\ Lifecycle /\ [Next]_vars => Lifecycle'
<1> SUFFICES ASSUME TypeOK, Lifecycle, [Next]_vars PROVE Lifecycle'
  OBVIOUS
<1> USE DEF TypeOK, mainVars, actorVars, Lifecycle
<1>1. CASE Spawn
  <2>0. /\ mpc' \in {"spawn", "seed"} /\ idx' \in Actor /\ mpc = "spawn"
        /\ mpc' = "spawn" => idx' = idx + 1
        /\ mpc' = "seed" => idx + 1 = N /\ idx' = 0
    BY <1>1, AdvanceTypes DEF Spawn
  <2>1. Unborn'
    BY <1>1, <2>0 DEF Spawn, Unborn, Actor
  <2>2. Ended'
    BY <1>1, <2>0 DEF Spawn, Ended, Actor
  <2>3. Joined'
    BY <1>1, <2>0 DEF Spawn, Joined, Actor
  <2>4. Counted'
    BY <1>1, <2>0 DEF Spawn, Counted, Actor
  <2> QED
    BY <2>1, <2>2, <2>3, <2>4
<1>2. CASE SpawnFail
  <2>1. Unborn'
    BY <1>2 DEF SpawnFail, Unborn
  <2>2. Ended'
    BY <1>2 DEF SpawnFail, Ended
  <2>3. Joined'
    BY <1>2 DEF SpawnFail, Joined
  <2>4. Counted'
    BY <1>2 DEF SpawnFail, Counted
  <2> QED
    BY <2>1, <2>2, <2>3, <2>4
<1>3. CASE SeedSend
  <2>1. Unborn'
    BY <1>3 DEF SeedSend, Deliverable, Unborn
  <2>2. Ended'
    BY <1>3 DEF SeedSend, Deliverable, Ended
  <2>3. Joined'
    BY <1>3 DEF SeedSend, Deliverable, Joined
  <2>4. Counted'
    BY <1>3 DEF SeedSend, Deliverable, Counted
  <2> QED
    BY <2>1, <2>2, <2>3, <2>4
<1>4. CASE SeedFail
  <2>1. Unborn'
    BY <1>4 DEF SeedFail, Unborn
  <2>2. Ended'
    BY <1>4 DEF SeedFail, Ended
  <2>3. Joined'
    BY <1>4 DEF SeedFail, Joined
  <2>4. Counted'
    BY <1>4 DEF SeedFail, Counted
  <2> QED
    BY <2>1, <2>2, <2>3, <2>4
<1>5. CASE SeedDone
  <2>1. Unborn'
    BY <1>5 DEF SeedDone, Unborn
  <2>2. Ended'
    BY <1>5 DEF SeedDone, Ended
  <2>3. Joined'
    BY <1>5 DEF SeedDone, Joined
  <2>4. Counted'
    BY <1>5 DEF SeedDone, Counted
  <2> QED
    BY <2>1, <2>2, <2>3, <2>4
<1>6. CASE UnwindSeed
  <2>1. Unborn'
    BY <1>6 DEF UnwindSeed, Unborn
  <2>2. Ended'
    BY <1>6 DEF UnwindSeed, Ended
  <2>3. Joined'
    BY <1>6 DEF UnwindSeed, Joined
  <2>4. Counted'
    BY <1>6 DEF UnwindSeed, Counted
  <2> QED
    BY <2>1, <2>2, <2>3, <2>4
<1>7. CASE UnwindDone
  <2>1. Unborn'
    BY <1>7 DEF UnwindDone, Unborn
  <2>2. Ended'
    BY <1>7 DEF UnwindDone, Ended
  <2>3. Joined'
    BY <1>7 DEF UnwindDone, Joined
  <2>4. Counted'
    BY <1>7 DEF UnwindDone, Counted
  <2> QED
    BY <2>1, <2>2, <2>3, <2>4
<1>8. CASE ResetCount
  <2>1. Unborn'
    BY <1>8 DEF ResetCount, Unborn
  <2>2. Ended'
    BY <1>8 DEF ResetCount, Ended
  <2>3. Joined'
    BY <1>8 DEF ResetCount, Joined
  <2>4. Counted'
    BY <1>8 DEF ResetCount, Counted
  <2> QED
    BY <2>1, <2>2, <2>3, <2>4
<1>9. CASE SendClear
  <2>0. /\ mpc' \in {"clear", "running"} /\ idx' \in Actor /\ mpc = "clear"
        /\ mpc' = "clear" => idx' = idx + 1
        /\ mpc' = "running" => idx + 1 = N /\ idx' = 0
    BY <1>9, AdvanceTypes DEF SendClear
  <2>1. Unborn'
    BY <1>9, <2>0 DEF SendClear, Unborn, Actor
  <2>2. Ended'
    BY <1>9, <2>0 DEF SendClear, SendSignal, Ended, Actor
  <2>3. Joined'
    BY <1>9, <2>0 DEF SendClear, Joined, Actor
  <2>4. Counted'
    BY <1>9, <2>0 DEF SendClear, Counted, Actor
  <2> QED
    BY <2>1, <2>2, <2>3, <2>4
<1>10. CASE EndRun
  <2>1. Unborn'
    BY <1>10 DEF EndRun, Unborn
  <2>2. Ended'
    BY <1>10 DEF EndRun, Ended
  <2>3. Joined'
    BY <1>10 DEF EndRun, Joined
  <2>4. Counted'
    BY <1>10 DEF EndRun, Counted
  <2> QED
    BY <2>1, <2>2, <2>3, <2>4
<1>11. CASE SendShutdown
  <2>0. /\ mpc' \in {"shutdown", "join"} /\ idx' \in Actor /\ mpc = "shutdown"
        /\ mpc' = "shutdown" => idx' = idx + 1
        /\ mpc' = "join" => idx + 1 = N /\ idx' = 0
    BY <1>11, AdvanceTypes DEF SendShutdown
  <2>1. Unborn'
    BY <1>11, <2>0 DEF SendShutdown, Unborn, Actor
  <2>2. Ended'
    BY <1>11, <2>0 DEF SendShutdown, SendSignal, Ended, Actor
  <2>3. Joined'
    BY <1>11, <2>0 DEF SendShutdown, Joined, Actor
  <2>4. Counted'
    BY <1>11, <2>0 DEF SendShutdown, Counted, Actor
  <2> QED
    BY <2>1, <2>2, <2>3, <2>4
<1>12. CASE Join
  <2>0. /\ mpc' \in {"join", "returned"} /\ idx' \in Actor /\ mpc = "join"
        /\ mpc' = "join" => idx' = idx + 1
        /\ mpc' = "returned" => idx + 1 = N /\ idx' = 0
    BY <1>12, AdvanceTypes DEF Join
  <2>1. Unborn'
    BY <1>12, <2>0 DEF Join, Unborn, Actor
  <2>2. Ended'
    BY <1>12, <2>0 DEF Join, Ended, Actor
  <2>3. Joined'
    <3>1. \A a \in Actor : a <= idx => pc[a] = "exited"
      BY <1>12 DEF Join, Joined, Actor
    <3> QED
      BY <1>12, <2>0, <3>1 DEF Join, Joined, Actor
  <2>4. Counted'
    <3>1. ASSUME how # "drop"
          PROVE  /\ Len(results') = idx + 1
                 /\ \A a \in Actor : a <= idx => a \notin failed
      BY <1>12, <3>1 DEF Join, Counted, Actor
    <3>2. ASSUME how # "drop", idx + 1 = N PROVE failed = {}
      BY <3>1, <3>2 DEF Actor
    <3>3. how' = how /\ failed' = failed
      BY <1>12 DEF Join
    <3>4. CASE mpc' = "join"
      <4>1. ASSUME how # "drop", NEW a \in Actor, a < idx' PROVE a \notin failed
        BY <2>0, <3>1, <3>4, <4>1 DEF Actor
      <4> QED
        BY <2>0, <3>1, <3>3, <3>4, <4>1 DEF Counted
    <3>5. CASE mpc' = "returned"
      BY <2>0, <3>1, <3>2, <3>3, <3>5 DEF Counted
    <3> QED
      BY <2>0, <3>4, <3>5
  <2> QED
    BY <2>1, <2>2, <2>3, <2>4
<1>13. CASE JoinPanic
  <2>1. Unborn'
    BY <1>13 DEF JoinPanic, Unborn
  <2>2. Ended'
    BY <1>13 DEF JoinPanic, Ended
  <2>3. Joined'
    BY <1>13 DEF JoinPanic, Joined
  <2>4. Counted'
    BY <1>13 DEF JoinPanic, Counted
  <2> QED
    BY <2>1, <2>2, <2>3, <2>4
<1>14. CASE CallerGet
  <2>1. Unborn'
    BY <1>14 DEF CallerGet, Unborn
  <2>2. Ended'
    BY <1>14 DEF CallerGet, Ended
  <2>3. Joined'
    BY <1>14 DEF CallerGet, Joined
  <2>4. Counted'
    BY <1>14 DEF CallerGet, Counted
  <2> QED
    BY <2>1, <2>2, <2>3, <2>4
<1>15. CASE CallerDrop
  <2>1. Unborn'
    BY <1>15 DEF CallerDrop, Unborn
  <2>2. Ended'
    BY <1>15 DEF CallerDrop, Ended
  <2>3. Joined'
    BY <1>15 DEF CallerDrop, Joined
  <2>4. Counted'
    BY <1>15 DEF CallerDrop, Counted
  <2> QED
    BY <2>1, <2>2, <2>3, <2>4
<1>16. ASSUME NEW a \in Actor, RecvUser(a) PROVE Lifecycle'
  <2>1. Unborn'
    BY <1>16 DEF RecvUser, Ready, Unborn
  <2>2. Ended'
    BY <1>16 DEF RecvUser, Ready, Ended
  <2>3. Joined'
    BY <1>16 DEF RecvUser, Ready, Joined
  <2>4. Counted'
    BY <1>16 DEF RecvUser, Ready, Counted
  <2> QED
    BY <2>1, <2>2, <2>3, <2>4
<1>17. ASSUME NEW a \in Actor, RecvClear(a) PROVE Lifecycle'
  <2>1. Unborn'
    BY <1>17 DEF RecvClear, Ready, Unborn
  <2>2. Ended'
    BY <1>17 DEF RecvClear, Ready, Ended
  <2>3. Joined'
    BY <1>17 DEF RecvClear, Ready, Joined
  <2>4. Counted'
    BY <1>17 DEF RecvClear, Ready, Counted
  <2> QED
    BY <2>1, <2>2, <2>3, <2>4
<1>18. ASSUME NEW a \in Actor, RecvBreak(a) PROVE Lifecycle'
  <2>1. Unborn'
    BY <1>18 DEF RecvBreak, Ready, Unborn
  <2>2. Ended'
    BY <1>18 DEF RecvBreak, Ready, Ended
  <2>3. Joined'
    BY <1>18 DEF RecvBreak, Ready, Joined
  <2>4. Counted'
    BY <1>18 DEF RecvBreak, Ready, Counted
  <2> QED
    BY <2>1, <2>2, <2>3, <2>4
<1>19. ASSUME NEW a \in Actor, GetMsg(a) PROVE Lifecycle'
  <2>1. Unborn'
    BY <1>19 DEF GetMsg, Unborn
  <2>2. Ended'
    BY <1>19 DEF GetMsg, Ended
  <2>3. Joined'
    BY <1>19 DEF GetMsg, Joined
  <2>4. Counted'
    BY <1>19 DEF GetMsg, Counted
  <2> QED
    BY <2>1, <2>2, <2>3, <2>4
<1>20. ASSUME NEW a \in Actor, DropHeld(a) PROVE Lifecycle'
  <2>1. Unborn'
    BY <1>20 DEF DropHeld, Unborn
  <2>2. Ended'
    BY <1>20 DEF DropHeld, Ended
  <2>3. Joined'
    BY <1>20 DEF DropHeld, Joined
  <2>4. Counted'
    BY <1>20 DEF DropHeld, Counted
  <2> QED
    BY <2>1, <2>2, <2>3, <2>4
<1>21. ASSUME NEW a \in Actor, HandlerReturn(a) PROVE Lifecycle'
  <2>1. Unborn'
    BY <1>21 DEF HandlerReturn, Unborn
  <2>2. Ended'
    BY <1>21 DEF HandlerReturn, Ended
  <2>3. Joined'
    BY <1>21 DEF HandlerReturn, Joined
  <2>4. Counted'
    BY <1>21 DEF HandlerReturn, Counted
  <2> QED
    BY <2>1, <2>2, <2>3, <2>4
<1>22. ASSUME NEW a \in Actor, HandlerPanic(a) PROVE Lifecycle'
  <2>1. Unborn'
    BY <1>22 DEF HandlerPanic, Unborn
  <2>2. Ended'
    BY <1>22 DEF HandlerPanic, Ended
  <2>3. Joined'
    BY <1>22 DEF HandlerPanic, Joined
  <2>4. Counted'
    BY <1>22 DEF HandlerPanic, Counted, Joined
  <2> QED
    BY <2>1, <2>2, <2>3, <2>4
<1>23. ASSUME NEW a \in Actor, UnwindInbound(a) PROVE Lifecycle'
  <2>1. Unborn'
    BY <1>23 DEF UnwindInbound, Unborn
  <2>2. Ended'
    BY <1>23 DEF UnwindInbound, Ended
  <2>3. Joined'
    BY <1>23 DEF UnwindInbound, Joined
  <2>4. Counted'
    BY <1>23 DEF UnwindInbound, Counted
  <2> QED
    BY <2>1, <2>2, <2>3, <2>4
<1>24. ASSUME NEW a \in Actor, DropPeers(a) PROVE Lifecycle'
  <2>1. Unborn'
    BY <1>24 DEF DropPeers, Unborn
  <2>2. Ended'
    BY <1>24 DEF DropPeers, Ended
  <2>3. Joined'
    BY <1>24 DEF DropPeers, Joined
  <2>4. Counted'
    BY <1>24 DEF DropPeers, Counted
  <2> QED
    BY <2>1, <2>2, <2>3, <2>4
<1>25. ASSUME NEW a \in Actor, DropReceiver(a) PROVE Lifecycle'
  <2>1. Unborn'
    BY <1>25 DEF DropReceiver, Unborn
  <2>2. Ended'
    BY <1>25 DEF DropReceiver, Ended
  <2>3. Joined'
    BY <1>25 DEF DropReceiver, Joined
  <2>4. Counted'
    BY <1>25 DEF DropReceiver, Counted
  <2> QED
    BY <2>1, <2>2, <2>3, <2>4
<1>26. ASSUME NEW a \in Actor, Discard(a) PROVE Lifecycle'
  <2>1. Unborn'
    BY <1>26 DEF Discard, Unborn
  <2>2. Ended'
    BY <1>26 DEF Discard, Ended
  <2>3. Joined'
    BY <1>26 DEF Discard, Joined
  <2>4. Counted'
    BY <1>26 DEF Discard, Counted
  <2> QED
    BY <2>1, <2>2, <2>3, <2>4
<1>27. ASSUME NEW a \in Actor, Exit(a) PROVE Lifecycle'
  <2>1. Unborn'
    BY <1>27 DEF Exit, Unborn
  <2>2. Ended'
    BY <1>27 DEF Exit, Ended
  <2>3. Joined'
    BY <1>27 DEF Exit, Joined
  <2>4. Counted'
    BY <1>27 DEF Exit, Counted
  <2> QED
    BY <2>1, <2>2, <2>3, <2>4
<1>28. ASSUME NEW a \in Actor, NEW dst \in Actor, Send(a, dst) PROVE Lifecycle'
  <2>1. Unborn'
    BY <1>28 DEF Send, Unborn
  <2>2. Ended'
    BY <1>28 DEF Send, Ended
  <2>3. Joined'
    BY <1>28 DEF Send, Joined
  <2>4. Counted'
    BY <1>28 DEF Send, Counted
  <2> QED
    BY <2>1, <2>2, <2>3, <2>4
<1>29. ASSUME NEW a \in Actor, NEW dst \in Actor, SendClosed(a, dst) PROVE Lifecycle'
  <2>1. Unborn'
    BY <1>29 DEF SendClosed, Unborn
  <2>2. Ended'
    BY <1>29 DEF SendClosed, Ended
  <2>3. Joined'
    BY <1>29 DEF SendClosed, Joined
  <2>4. Counted'
    BY <1>29 DEF SendClosed, Counted
  <2> QED
    BY <2>1, <2>2, <2>3, <2>4
<1>30. CASE UNCHANGED vars
  BY <1>30 DEF vars, Unborn, Ended, Joined, Counted
<1> QED
  BY <1>1, <1>2, <1>3, <1>4, <1>5, <1>6, <1>7, <1>8, <1>9, <1>10, <1>11, <1>12, <1>13, <1>14, <1>15, <1>16, <1>17, <1>18, <1>19, <1>20, <1>21, <1>22, <1>23, <1>24, <1>25, <1>26, <1>27, <1>28, <1>29, <1>30
     DEF Next, MainStep, LoopStep, HandlerStep

-----------------------------------------------------------------------------
(* The owner of a buffer *)

Kind == {"pool", "caller", "seed", "held", "inbound", "queue"}

SeedOccurs(b) == \E i \in 1 .. Len(seeds) : seeds[i].buf = b

\* b is in a place of kind K (at actor a, if that kind belongs to an actor)
\* and in no other place.
OnlyAt(b, K, a) ==
    /\ b \in free <=> K = "pool"
    /\ b \in caller <=> K = "caller"
    /\ SeedOccurs(b) <=> K = "seed"
    /\ \A c \in Actor : /\ b \in held[c] <=> K = "held" /\ c = a
                        /\ inbound[c] = b <=> K = "inbound" /\ c = a
                        /\ Occurs(b, queue[c]) <=> K = "queue" /\ c = a

Owned(b) == \E K \in Kind, a \in Actor : OnlyAt(b, K, a)

\* No message is in a sequence twice.
NoRepeats == /\ \A i, j \in 1 .. Len(seeds) : seeds[i].buf = seeds[j].buf => i = j
             /\ \A a \in Actor : Once(queue[a])

Ownership == (\A b \in Buf : Owned(b)) /\ NoRepeats

\* A step that leaves b where it is.
Untouched(b) ==
    /\ b \in free' <=> b \in free
    /\ b \in caller' <=> b \in caller
    /\ SeedOccurs(b)' <=> SeedOccurs(b)
    /\ \A c \in Actor : /\ b \in held'[c] <=> b \in held[c]
                        /\ inbound'[c] = b <=> inbound[c] = b
                        /\ Occurs(b, queue'[c]) <=> Occurs(b, queue[c])

LEMMA StaysOwned ==
    ASSUME NEW b \in Buf, Owned(b), Untouched(b)
    PROVE  Owned(b)'
<1>1. PICK K \in Kind, a \in Actor : OnlyAt(b, K, a)
  BY DEF Owned
<1>2. OnlyAt(b, K, a)'
  BY <1>1 DEF OnlyAt, Untouched
<1> QED
  BY <1>2 DEF Owned

\* Knowing one place of a buffer is knowing that it is nowhere else.
LEMMA Exclusive ==
    ASSUME Ownership, NEW b \in Buf, NEW a \in Actor
    PROVE  /\ b \in free => OnlyAt(b, "pool", a)
           /\ b \in caller => OnlyAt(b, "caller", a)
           /\ SeedOccurs(b) => OnlyAt(b, "seed", a)
           /\ b \in held[a] => OnlyAt(b, "held", a)
           /\ inbound[a] = b => OnlyAt(b, "inbound", a)
           /\ Occurs(b, queue[a]) => OnlyAt(b, "queue", a)
<1>1. PICK K \in Kind, c \in Actor : OnlyAt(b, K, c)
  BY DEF Ownership, Owned
<1> QED
  BY <1>1 DEF OnlyAt

\* What appending to one channel does to all of them.
LEMMA QueueAppend ==
    ASSUME TypeOK, NEW a \in Actor, NEW x \in Signal,
           queue' = [queue EXCEPT ![a] = Append(@, x)]
    PROVE  /\ \A c \in Actor : \A y : Occurs(y, queue'[c]) <=>
                                     Occurs(y, queue[c]) \/ (c = a /\ y = x)
           /\ NoRepeats /\ (x \in Buf => ~Occurs(x, queue[a])) =>
                 \A c \in Actor : Once(queue'[c])
<1>1. \A c \in Actor : c # a => queue'[c] = queue[c]
  BY DEF TypeOK
<1>2. queue'[a] = Append(queue[a], x) /\ queue[a] \in Seq(Signal)
  BY DEF TypeOK
<1>3. \A y : Occurs(y, queue'[a]) <=> Occurs(y, queue[a]) \/ y = x
  BY <1>2, OccursAppend
<1>4. NoRepeats /\ (x \in Buf => ~Occurs(x, queue[a])) => Once(queue'[a])
  BY <1>2, OnceAppend DEF NoRepeats
<1> QED
  BY <1>1, <1>3, <1>4 DEF NoRepeats

\* What taking the head of one channel does to all of them.
LEMMA QueueTail ==
    ASSUME TypeOK, NoRepeats, NEW a \in Actor, queue[a] # <<>>,
           queue' = [queue EXCEPT ![a] = Tail(@)]
    PROVE  /\ \A c \in Actor : \A y : c # a => (Occurs(y, queue'[c]) <=> Occurs(y, queue[c]))
           /\ \A y : Occurs(y, queue[a]) <=> y = Head(queue[a]) \/ Occurs(y, queue'[a])
           /\ Head(queue[a]) \in Buf => ~Occurs(Head(queue[a]), queue'[a])
           /\ Head(queue[a]) \in Signal
           /\ \A c \in Actor : Once(queue'[c])
<1>1. \A c \in Actor : c # a => queue'[c] = queue[c]
  BY DEF TypeOK
<1>2. queue'[a] = Tail(queue[a]) /\ queue[a] \in Seq(Signal)
  BY DEF TypeOK
<1>3. \A y : Occurs(y, queue[a]) <=> y = Head(queue[a]) \/ Occurs(y, queue'[a])
  BY <1>2, OccursTail
<1>4. /\ Once(queue'[a])
      /\ Head(queue[a]) \in Buf => ~Occurs(Head(queue[a]), queue'[a])
  BY <1>2, OnceTail DEF NoRepeats
<1>5. Head(queue[a]) \in Signal
  BY <1>2, TailFacts
<1> QED
  BY <1>1, <1>3, <1>4, <1>5 DEF NoRepeats

\* What sending or dropping the next initial message does to the others.
LEMMA SeedTail ==
    ASSUME TypeOK, NoRepeats, seeds # <<>>, seeds' = Tail(seeds)
    PROVE  /\ \A b : SeedOccurs(b) <=> b = Head(seeds).buf \/ SeedOccurs(b)'
           /\ \A b : b = Head(seeds).buf => ~SeedOccurs(b)'
           /\ \A i, j \in 1 .. Len(seeds') : seeds'[i].buf = seeds'[j].buf => i = j
<1>1. /\ Len(seeds') = Len(seeds) - 1 /\ Len(seeds) \in Nat \ {0}
      /\ \A i \in 1 .. Len(seeds) - 1 : seeds'[i] = seeds[i + 1]
      /\ Head(seeds) = seeds[1]
  BY TailFacts DEF TypeOK
<1>2. \A i \in 1 .. Len(seeds) - 1 : i + 1 \in 1 .. Len(seeds)
  BY <1>1
<1>3. ASSUME NEW b, SeedOccurs(b), b # Head(seeds).buf PROVE SeedOccurs(b)'
  <2>1. PICK i \in 1 .. Len(seeds) : seeds[i].buf = b
    BY <1>3 DEF SeedOccurs
  <2>2. i # 1 /\ i - 1 \in 1 .. Len(seeds) - 1 /\ (i - 1) + 1 = i
    BY <1>1, <1>3, <2>1
  <2>3. seeds'[i - 1] = seeds[i]
    BY <1>1, <2>2
  <2> QED
    BY <1>1, <2>1, <2>2, <2>3 DEF SeedOccurs
<1>4. ASSUME NEW b, SeedOccurs(b)' PROVE SeedOccurs(b) /\ b # Head(seeds).buf
  <2>1. PICK i \in 1 .. Len(seeds) - 1 : seeds'[i].buf = b
    BY <1>1, <1>4 DEF SeedOccurs
  <2>2. seeds[i + 1].buf = b /\ i + 1 \in 1 .. Len(seeds) /\ i + 1 # 1
    BY <1>1, <1>2, <2>1
  <2>3. 1 \in 1 .. Len(seeds)
    BY <1>1
  <2> QED
    BY <1>1, <2>2, <2>3 DEF SeedOccurs, NoRepeats
<1>5. \A b : b = Head(seeds).buf => SeedOccurs(b)
  BY <1>1 DEF SeedOccurs
<1>6. \A i, j \in 1 .. Len(seeds') : seeds'[i].buf = seeds'[j].buf => i = j
  BY <1>1, <1>2 DEF NoRepeats
<1> QED
  BY <1>3, <1>4, <1>5, <1>6

LEMMA InitOwnership == Init => Ownership
<1> SUFFICES ASSUME Init PROVE Ownership
  OBVIOUS
<1>1. PICK k \in 0 .. MaxSeeds : seeds \in [1 .. k -> [dst : SeedDst, buf : Buf]]
  BY DEF Init
<1>2. Len(seeds) = k /\ DOMAIN seeds = 1 .. k
  BY <1>1, InitTypes DEF TypeOK
<1>3. 0 \in Actor
  BY DEF Actor
<1>4. ASSUME NEW b \in Buf PROVE Owned(b)
  <2>1. \A a \in Actor : ~Occurs(b, queue[a]) /\ b \notin held[a] /\ inbound[a] # b
    BY DEF Init, Occurs
  <2>2. b \in free <=> ~SeedOccurs(b)
    BY <1>2 DEF Init, SeedOccurs
  <2>3. b \notin caller
    BY DEF Init
  <2>4. CASE SeedOccurs(b)
    BY <1>3, <2>1, <2>2, <2>3, <2>4 DEF Owned, OnlyAt, Kind
  <2>5. CASE ~SeedOccurs(b)
    BY <1>3, <2>1, <2>2, <2>3, <2>5 DEF Owned, OnlyAt, Kind
  <2> QED
    BY <2>4, <2>5
<1>5. NoRepeats
  BY <1>2 DEF Init, NoRepeats, Once
<1> QED
  BY <1>4, <1>5 DEF Ownership

\* A step that moves no message.
LEMMA NoMove ==
    ASSUME Ownership, UNCHANGED <<free, caller, seeds, held, inbound, queue>>
    PROVE  Ownership'
<1>1. ASSUME NEW b \in Buf PROVE Owned(b)'
  BY StaysOwned DEF Ownership, Untouched, SeedOccurs
<1> QED
  BY <1>1 DEF Ownership, NoRepeats

\* A step that puts a control signal into a channel.
LEMMA SignalSent ==
    ASSUME TypeOK, Ownership, UNCHANGED <<free, caller, seeds, held, inbound>>,
           NEW s \in {ClearProbe, Shutdown}, idx \in Actor, SendSignal(idx, s)
    PROVE  Ownership'
<1>1. CASE ~open[idx]
  BY <1>1, NoMove DEF SendSignal
<1>2. CASE open[idx]
  <2>1. s \in Signal /\ s \notin Buf /\ queue' = [queue EXCEPT ![idx] = Append(@, s)]
    BY <1>2 DEF SendSignal, Signal
  <2>2. /\ \A c \in Actor : \A y : Occurs(y, queue'[c]) <=>
                                  Occurs(y, queue[c]) \/ (c = idx /\ y = s)
        /\ \A c \in Actor : Once(queue'[c])
    BY <2>1, QueueAppend DEF Ownership
  <2>3. ASSUME NEW b \in Buf PROVE Owned(b)'
    BY <2>1, <2>2, StaysOwned DEF Ownership, Untouched, SeedOccurs
  <2> QED
    BY <2>2, <2>3 DEF Ownership, NoRepeats
<1> QED
  BY <1>1, <1>2

\* A step that takes a control signal out of a channel.
LEMMA SignalTaken ==
    ASSUME TypeOK, Ownership, UNCHANGED <<free, caller, seeds, held, inbound>>,
           NEW a \in Actor, queue[a] # <<>>, Head(queue[a]) \notin Buf,
           queue' = [queue EXCEPT ![a] = Tail(@)]
    PROVE  Ownership'
<1>1. /\ \A c \in Actor : \A y : c # a => (Occurs(y, queue'[c]) <=> Occurs(y, queue[c]))
      /\ \A y : Occurs(y, queue[a]) <=> y = Head(queue[a]) \/ Occurs(y, queue'[a])
      /\ \A c \in Actor : Once(queue'[c])
  BY QueueTail DEF Ownership
<1>2. ASSUME NEW b \in Buf PROVE Owned(b)'
  BY <1>1, StaysOwned DEF Ownership, Untouched, SeedOccurs
<1> QED
  BY <1>1, <1>2 DEF Ownership, NoRepeats

LEMMA NextOwnership == TypeOK /\ Handling /\ Ownership /\ [Next]_vars => Ownership'
<1> SUFFICES ASSUME TypeOK, Handling, Ownership, [Next]_vars PROVE Ownership'
  OBVIOUS
<1> USE DEF mainVars, actorVars
<1>1. CASE Spawn
  BY <1>1, NoMove DEF Spawn
<1>2. CASE SpawnFail
  BY <1>2, NoMove DEF SpawnFail
<1>3. CASE SeedFail
  BY <1>3, NoMove DEF SeedFail
<1>4. CASE SeedDone
  BY <1>4, NoMove DEF SeedDone
<1>5. CASE UnwindDone
  BY <1>5, NoMove DEF UnwindDone
<1>6. CASE ResetCount
  BY <1>6, NoMove DEF ResetCount
<1>7. CASE EndRun
  BY <1>7, NoMove DEF EndRun
<1>8. CASE Join
  BY <1>8, NoMove DEF Join
<1>9. CASE JoinPanic
  BY <1>9, NoMove DEF JoinPanic
<1>10. CASE SendClear
  <2>1. idx \in Actor /\ SendSignal(idx, ClearProbe)
    BY <1>10 DEF SendClear, TypeOK
  <2> QED
    BY <1>10, <2>1, SignalSent DEF SendClear
<1>11. CASE SendShutdown
  <2>1. idx \in Actor /\ SendSignal(idx, Shutdown)
    BY <1>11 DEF SendShutdown, TypeOK
  <2> QED
    BY <1>11, <2>1, SignalSent DEF SendShutdown
<1>12. ASSUME NEW a \in Actor, HandlerPanic(a) PROVE Ownership'
  BY <1>12, NoMove DEF HandlerPanic
<1>13. ASSUME NEW a \in Actor, DropPeers(a) PROVE Ownership'
  BY <1>13, NoMove DEF DropPeers
<1>14. ASSUME NEW a \in Actor, DropReceiver(a) PROVE Ownership'
  BY <1>14, NoMove DEF DropReceiver
<1>15. ASSUME NEW a \in Actor, Exit(a) PROVE Ownership'
  BY <1>15, NoMove DEF Exit
<1>16. ASSUME NEW a \in Actor, RecvClear(a) PROVE Ownership'
  <2>1. queue[a] # <<>> /\ Head(queue[a]) \notin Buf
    BY <1>16 DEF RecvClear, Ready, Received
  <2> QED
    BY <1>16, <2>1, SignalTaken DEF RecvClear
<1>17. ASSUME NEW a \in Actor, RecvBreak(a) PROVE Ownership'
  <2>1. CASE queue[a] = <<>>
    <3>1. queue' = queue
      BY <1>17, <2>1 DEF RecvBreak, TypeOK
    <3> QED
      BY <1>17, <3>1, NoMove DEF RecvBreak
  <2>2. CASE queue[a] # <<>>
    <3>1. Head(queue[a]) \notin Buf /\ queue' = [queue EXCEPT ![a] = Tail(@)]
      BY <1>17, <2>2 DEF RecvBreak, Ready, Received
    <3> QED
      BY <1>17, <2>2, <3>1, SignalTaken DEF RecvBreak
  <2> QED
    BY <2>1, <2>2
<1>18. CASE CallerGet
  <2>0. 0 \in Actor
    BY DEF Actor
  <2>1. PICK b \in Buf :
           /\ b \in free /\ free' = free \ {b} /\ caller' = caller \cup {b}
           /\ UNCHANGED <<seeds, held, inbound, queue>>
    BY <1>18 DEF CallerGet, TypeOK
  <2>3. OnlyAt(b, "pool", 0)
    BY <2>1, <2>0, Exclusive
  <2>4. ASSUME NEW x \in Buf, x # b PROVE Owned(x)'
    <3>1. Untouched(x)
      BY <2>1, <2>0, <2>4 DEF Untouched, SeedOccurs, TypeOK
    <3> QED
      BY <3>1, StaysOwned DEF Ownership
  <2>5. Owned(b)'
    <3>1. OnlyAt(b, "caller", 0)'
      BY <2>1, <2>0, <2>3 DEF OnlyAt, SeedOccurs, TypeOK
    <3> QED
      BY <3>1, <2>0 DEF Owned, Kind
  <2> QED
    BY <2>1, <2>0, <2>4, <2>5 DEF Ownership, NoRepeats
<1>19. CASE CallerDrop
  <2>0. 0 \in Actor
    BY DEF Actor
  <2>1. PICK b \in Buf :
           /\ b \in caller /\ free' = free \cup {b} /\ caller' = caller \ {b}
           /\ UNCHANGED <<seeds, held, inbound, queue>>
    BY <1>19 DEF CallerDrop, TypeOK
  <2>3. OnlyAt(b, "caller", 0)
    BY <2>1, <2>0, Exclusive
  <2>4. ASSUME NEW x \in Buf, x # b PROVE Owned(x)'
    <3>1. Untouched(x)
      BY <2>1, <2>0, <2>4 DEF Untouched, SeedOccurs, TypeOK
    <3> QED
      BY <3>1, StaysOwned DEF Ownership
  <2>5. Owned(b)'
    <3>1. OnlyAt(b, "pool", 0)'
      BY <2>1, <2>0, <2>3 DEF OnlyAt, SeedOccurs, TypeOK
    <3> QED
      BY <3>1, <2>0 DEF Owned, Kind
  <2> QED
    BY <2>1, <2>0, <2>4, <2>5 DEF Ownership, NoRepeats
<1>20. ASSUME NEW a \in Actor, GetMsg(a) PROVE Ownership'
  <2>1. PICK b \in Buf :
           /\ b \in free /\ free' = free \ {b}
           /\ held' = [held EXCEPT ![a] = @ \cup {b}]
           /\ UNCHANGED <<caller, seeds, inbound, queue>>
    BY <1>20 DEF GetMsg, TypeOK
  <2>3. OnlyAt(b, "pool", a)
    BY <2>1, Exclusive
  <2>4. ASSUME NEW x \in Buf, x # b PROVE Owned(x)'
    <3>1. Untouched(x)
      BY <2>1, <2>4 DEF Untouched, SeedOccurs, TypeOK
    <3> QED
      BY <3>1, StaysOwned DEF Ownership
  <2>5. Owned(b)'
    <3>1. OnlyAt(b, "held", a)'
      BY <2>1, <2>3 DEF OnlyAt, SeedOccurs, TypeOK
    <3> QED
      BY <3>1 DEF Owned, Kind
  <2> QED
    BY <2>1, <2>4, <2>5 DEF Ownership, NoRepeats
<1>21. ASSUME NEW a \in Actor, DropHeld(a) PROVE Ownership'
  <2>1. PICK b \in Buf :
           /\ b \in held[a] /\ free' = free \cup {b}
           /\ held' = [held EXCEPT ![a] = @ \ {b}]
           /\ UNCHANGED <<caller, seeds, inbound, queue>>
    BY <1>21 DEF DropHeld, TypeOK
  <2>3. OnlyAt(b, "held", a)
    BY <2>1, Exclusive
  <2>4. ASSUME NEW x \in Buf, x # b PROVE Owned(x)'
    <3>1. Untouched(x)
      BY <2>1, <2>4 DEF Untouched, SeedOccurs, TypeOK
    <3> QED
      BY <3>1, StaysOwned DEF Ownership
  <2>5. Owned(b)'
    <3>1. OnlyAt(b, "pool", a)'
      BY <2>1, <2>3 DEF OnlyAt, SeedOccurs, TypeOK
    <3> QED
      BY <3>1 DEF Owned, Kind
  <2> QED
    BY <2>1, <2>4, <2>5 DEF Ownership, NoRepeats
<1>22. ASSUME NEW a \in Actor, HandlerReturn(a) PROVE Ownership'
  <2>1. PICK b \in Buf :
           /\ inbound[a] = b /\ free' = free \cup {b}
           /\ inbound' = [inbound EXCEPT ![a] = NoBuf]
           /\ UNCHANGED <<caller, seeds, held, queue>>
    BY <1>22 DEF HandlerReturn, Handling
  <2>3. OnlyAt(b, "inbound", a)
    BY <2>1, Exclusive
  <2>4. ASSUME NEW x \in Buf, x # b PROVE Owned(x)'
    <3>1. Untouched(x)
      BY <2>1, <2>4 DEF Untouched, SeedOccurs, TypeOK
    <3> QED
      BY <3>1, StaysOwned DEF Ownership
  <2>5. Owned(b)'
    <3>1. OnlyAt(b, "pool", a)'
      BY <2>1, <2>3 DEF OnlyAt, SeedOccurs, TypeOK
    <3> QED
      BY <3>1 DEF Owned, Kind
  <2> QED
    BY <2>1, <2>4, <2>5 DEF Ownership, NoRepeats
<1>23. ASSUME NEW a \in Actor, UnwindInbound(a) PROVE Ownership'
  <2>1. PICK b \in Buf :
           /\ inbound[a] = b /\ free' = free \cup {b}
           /\ inbound' = [inbound EXCEPT ![a] = NoBuf]
           /\ UNCHANGED <<caller, seeds, held, queue>>
    BY <1>23 DEF UnwindInbound, Handling
  <2>3. OnlyAt(b, "inbound", a)
    BY <2>1, Exclusive
  <2>4. ASSUME NEW x \in Buf, x # b PROVE Owned(x)'
    <3>1. Untouched(x)
      BY <2>1, <2>4 DEF Untouched, SeedOccurs, TypeOK
    <3> QED
      BY <3>1, StaysOwned DEF Ownership
  <2>5. Owned(b)'
    <3>1. OnlyAt(b, "pool", a)'
      BY <2>1, <2>3 DEF OnlyAt, SeedOccurs, TypeOK
    <3> QED
      BY <3>1 DEF Owned, Kind
  <2> QED
    BY <2>1, <2>4, <2>5 DEF Ownership, NoRepeats
<1>24. ASSUME NEW a \in Actor, NEW dst \in Actor, SendClosed(a, dst)
      PROVE  Ownership'
  <2>1. PICK b \in Buf :
           /\ b \in held[a] /\ free' = free \cup {b}
           /\ held' = [held EXCEPT ![a] = @ \ {b}]
           /\ UNCHANGED <<caller, seeds, inbound, queue>>
    BY <1>24 DEF SendClosed, TypeOK
  <2>3. OnlyAt(b, "held", a)
    BY <2>1, Exclusive
  <2>4. ASSUME NEW x \in Buf, x # b PROVE Owned(x)'
    <3>1. Untouched(x)
      BY <2>1, <2>4 DEF Untouched, SeedOccurs, TypeOK
    <3> QED
      BY <3>1, StaysOwned DEF Ownership
  <2>5. Owned(b)'
    <3>1. OnlyAt(b, "pool", a)'
      BY <2>1, <2>3 DEF OnlyAt, SeedOccurs, TypeOK
    <3> QED
      BY <3>1 DEF Owned, Kind
  <2> QED
    BY <2>1, <2>4, <2>5 DEF Ownership, NoRepeats
<1>25. ASSUME NEW a \in Actor, NEW dst \in Actor, Send(a, dst)
      PROVE  Ownership'
  <2>1. PICK b \in Buf :
           /\ b \in held[a] /\ held' = [held EXCEPT ![a] = @ \ {b}]
           /\ queue' = [queue EXCEPT ![dst] = Append(@, b)]
           /\ UNCHANGED <<free, caller, seeds, inbound>>
    BY <1>25 DEF Send, TypeOK
  <2>2. /\ \A c \in Actor : \A y : Occurs(y, queue'[c]) <=>
                                  Occurs(y, queue[c]) \/ (c = dst /\ y = b)
        /\ \A c \in Actor : Once(queue'[c])
    <3>1. b \in Signal /\ ~Occurs(b, queue[dst])
      BY <2>1, Exclusive DEF Signal, OnlyAt
    <3> QED
      BY <2>1, <3>1, QueueAppend DEF Ownership
  <2>3. OnlyAt(b, "held", a)
    BY <2>1, <2>2, Exclusive
  <2>4. ASSUME NEW x \in Buf, x # b PROVE Owned(x)'
    <3>1. Untouched(x)
      BY <2>1, <2>2, <2>4 DEF Untouched, SeedOccurs, TypeOK
    <3> QED
      BY <3>1, StaysOwned DEF Ownership
  <2>5. Owned(b)'
    <3>1. OnlyAt(b, "queue", dst)'
      BY <2>1, <2>2, <2>3 DEF OnlyAt, SeedOccurs, TypeOK
    <3> QED
      BY <3>1 DEF Owned, Kind
  <2> QED
    BY <2>1, <2>2, <2>4, <2>5 DEF Ownership, NoRepeats
<1>26. ASSUME NEW a \in Actor, RecvUser(a) PROVE Ownership'
  <2>1. PICK b \in Buf :
           /\ queue[a] # <<>> /\ b = Head(queue[a])
           /\ queue' = [queue EXCEPT ![a] = Tail(@)]
           /\ inbound' = [inbound EXCEPT ![a] = b]
           /\ inbound[a] \notin Buf
           /\ UNCHANGED <<free, caller, seeds, held>>
    BY <1>26 DEF RecvUser, Ready, Received, Handling
  <2>2. /\ \A c \in Actor : \A y : c # a => (Occurs(y, queue'[c]) <=> Occurs(y, queue[c]))
        /\ \A y : Occurs(y, queue[a]) <=> y = b \/ Occurs(y, queue'[a])
        /\ ~Occurs(b, queue'[a])
        /\ \A c \in Actor : Once(queue'[c])
    BY <2>1, QueueTail DEF Ownership
  <2>3. OnlyAt(b, "queue", a)
    BY <2>1, <2>2, Exclusive
  <2>4. ASSUME NEW x \in Buf, x # b PROVE Owned(x)'
    <3>1. Untouched(x)
      BY <2>1, <2>2, <2>4 DEF Untouched, SeedOccurs, TypeOK
    <3> QED
      BY <3>1, StaysOwned DEF Ownership
  <2>5. Owned(b)'
    <3>1. OnlyAt(b, "inbound", a)'
      BY <2>1, <2>2, <2>3 DEF OnlyAt, SeedOccurs, TypeOK
    <3> QED
      BY <3>1 DEF Owned, Kind
  <2> QED
    BY <2>1, <2>2, <2>4, <2>5 DEF Ownership, NoRepeats
<1>27. ASSUME NEW a \in Actor, Discard(a) PROVE Ownership'
  <2>1. CASE Head(queue[a]) \notin Buf
    <3>1. free' = free
      BY <1>27, <2>1 DEF Discard
    <3> QED
      BY <1>27, <2>1, <3>1, SignalTaken DEF Discard
  <2>2. CASE Head(queue[a]) \in Buf
    <3>1. PICK b \in Buf :
             /\ queue[a] # <<>> /\ b = Head(queue[a])
             /\ queue' = [queue EXCEPT ![a] = Tail(@)]
             /\ free' = free \cup {b}
             /\ UNCHANGED <<caller, seeds, held, inbound>>
      BY <1>27, <2>2 DEF Discard
    <3>2. /\ \A c \in Actor : \A y : c # a => (Occurs(y, queue'[c]) <=> Occurs(y, queue[c]))
          /\ \A y : Occurs(y, queue[a]) <=> y = b \/ Occurs(y, queue'[a])
          /\ ~Occurs(b, queue'[a])
          /\ \A c \in Actor : Once(queue'[c])
      BY <3>1, QueueTail DEF Ownership
    <3>3. OnlyAt(b, "queue", a)
      BY <3>1, <3>2, Exclusive
    <3>4. ASSUME NEW x \in Buf, x # b PROVE Owned(x)'
      <4>1. Untouched(x)
        BY <3>1, <3>2, <3>4 DEF Untouched, SeedOccurs, TypeOK
      <4> QED
        BY <4>1, StaysOwned DEF Ownership
    <3>5. Owned(b)'
      <4>1. OnlyAt(b, "pool", a)'
        BY <3>1, <3>2, <3>3 DEF OnlyAt, SeedOccurs, TypeOK
      <4> QED
        BY <4>1 DEF Owned, Kind
    <3> QED
      BY <3>1, <3>2, <3>4, <3>5 DEF Ownership, NoRepeats
  <2> QED
    BY <2>1, <2>2
<1>28. CASE UnwindSeed
  <2>0. 0 \in Actor
    BY DEF Actor
  <2>1. PICK b \in Buf :
           /\ seeds # <<>> /\ b = Head(seeds).buf /\ seeds' = Tail(seeds)
           /\ free' = free \cup {b}
           /\ UNCHANGED <<caller, held, inbound, queue>>
    BY <1>28, HeadSeed DEF UnwindSeed
  <2>2. /\ \A x : SeedOccurs(x) <=> x = b \/ SeedOccurs(x)'
        /\ ~SeedOccurs(b)'
        /\ \A i, j \in 1 .. Len(seeds') : seeds'[i].buf = seeds'[j].buf => i = j
    BY <2>1, SeedTail DEF Ownership
  <2>3. OnlyAt(b, "seed", 0)
    BY <2>0, <2>2, Exclusive
  <2>4. ASSUME NEW x \in Buf, x # b PROVE Owned(x)'
    <3>1. Untouched(x)
      BY <2>1, <2>2, <2>4 DEF Untouched
    <3> QED
      BY <3>1, StaysOwned DEF Ownership
  <2>5. Owned(b)'
    <3>1. OnlyAt(b, "pool", 0)'
      BY <2>1, <2>2, <2>3 DEF OnlyAt
    <3> QED
      BY <2>0, <3>1 DEF Owned, Kind
  <2> QED
    BY <2>1, <2>2, <2>4, <2>5 DEF Ownership, NoRepeats
<1>29. CASE SeedSend
  <2>0. PICK dst \in Actor : dst = Head(seeds).dst
    BY <1>29 DEF SeedSend, Deliverable
  <2>1. PICK b \in Buf :
           /\ seeds # <<>> /\ b = Head(seeds).buf /\ seeds' = Tail(seeds)
           /\ queue' = [queue EXCEPT ![dst] = Append(@, b)]
           /\ UNCHANGED <<free, caller, held, inbound>>
    BY <1>29, <2>0, HeadSeed DEF SeedSend
  <2>2. /\ \A x : SeedOccurs(x) <=> x = b \/ SeedOccurs(x)'
        /\ ~SeedOccurs(b)'
        /\ \A i, j \in 1 .. Len(seeds') : seeds'[i].buf = seeds'[j].buf => i = j
    BY <2>1, SeedTail DEF Ownership
  <2>3. OnlyAt(b, "seed", dst)
    BY <2>2, Exclusive
  <2>4. /\ \A c \in Actor : \A y : Occurs(y, queue'[c]) <=>
                                  Occurs(y, queue[c]) \/ (c = dst /\ y = b)
        /\ \A c \in Actor : Once(queue'[c])
    <3>1. b \in Signal /\ ~Occurs(b, queue[dst])
      BY <2>3 DEF Signal, OnlyAt
    <3> QED
      BY <2>1, <3>1, QueueAppend DEF Ownership
  <2>5. ASSUME NEW x \in Buf, x # b PROVE Owned(x)'
    <3>1. Untouched(x)
      BY <2>1, <2>2, <2>4, <2>5 DEF Untouched
    <3> QED
      BY <3>1, StaysOwned DEF Ownership
  <2>6. Owned(b)'
    <3>1. OnlyAt(b, "queue", dst)'
      BY <2>1, <2>2, <2>3, <2>4 DEF OnlyAt
    <3> QED
      BY <3>1 DEF Owned, Kind
  <2> QED
    BY <2>2, <2>4, <2>5, <2>6 DEF Ownership, NoRepeats
<1>30. CASE UNCHANGED vars
  BY <1>30, NoMove DEF vars
<1> QED
  BY <1>1, <1>2, <1>3, <1>4, <1>5, <1>6, <1>7, <1>8, <1>9, <1>10, <1>11, <1>12, <1>13, <1>14, <1>15, <1>16, <1>17, <1>18, <1>19, <1>20, <1>21, <1>22, <1>23, <1>24, <1>25, <1>26, <1>27, <1>28, <1>29, <1>30
     DEF Next, MainStep, LoopStep, HandlerStep

-----------------------------------------------------------------------------
(* The theorems *)

IInv == TypeOK /\ Handling /\ Lifecycle /\ Ownership

THEOREM Inductive == Spec => []IInv
<1>1. Init => IInv
  BY InitTypes, InitLifecycle, InitOwnership DEF IInv
<1>2. IInv /\ [Next]_vars => IInv'
  BY NextTypes, NextLifecycle, NextOwnership DEF IInv, Lifecycle
<1> QED
  BY <1>1, <1>2, PTL DEF Spec

\* Every variable keeps its type; in particular the loop index of the main
\* thread always names an actor.
THEOREM TypeCorrect == Spec => []TypeOK
<1>1. IInv => TypeOK
  BY DEF IInv
<1> QED
  BY <1>1, Inductive, PTL

\* The ownership map says where a buffer is; in each kind of place there is
\* just one way to be there.
LEMMA OwnershipIsOneOwner == TypeOK /\ Handling /\ Ownership => OneOwner
<1> SUFFICES ASSUME TypeOK, Handling, Ownership, NEW b \in Buf
             PROVE  \E p \in Places(b) : Places(b) = {p}
  BY DEF OneOwner
<1>1. PICK K \in Kind, a \in Actor : OnlyAt(b, K, a)
  BY DEF Ownership, Owned
<1>2. /\ DOMAIN seeds = 1 .. Len(seeds)
      /\ \A c \in Actor : DOMAIN queue[c] = 1 .. Len(queue[c])
  BY DEF TypeOK
<1>3. CASE K = "pool"
  <2>1. Places(b) = {<<"pool">>}
    BY <1>1, <1>2, <1>3 DEF Places, OnlyAt, SeedOccurs, Occurs
  <2> QED
    BY <2>1
<1>4. CASE K = "caller"
  <2>1. Places(b) = {<<"caller">>}
    BY <1>1, <1>2, <1>4 DEF Places, OnlyAt, SeedOccurs, Occurs
  <2> QED
    BY <2>1
<1>5. CASE K = "seed"
  <2>1. PICK i \in 1 .. Len(seeds) : seeds[i].buf = b
    BY <1>1, <1>5 DEF OnlyAt, SeedOccurs
  <2>2. \A j \in 1 .. Len(seeds) : seeds[j].buf = b <=> j = i
    BY <2>1 DEF Ownership, NoRepeats
  <2>3. Places(b) = {<<"seed", i>>}
    BY <1>1, <1>2, <1>5, <2>1, <2>2 DEF Places, OnlyAt, Occurs
  <2> QED
    BY <2>3
<1>6. CASE K = "held"
  <2>1. Places(b) = {<<"held", a>>}
    BY <1>1, <1>2, <1>6 DEF Places, OnlyAt, SeedOccurs, Occurs
  <2> QED
    BY <2>1
<1>7. CASE K = "inbound"
  <2>1. Places(b) = {<<"inbound", a>>}
    BY <1>1, <1>2, <1>7 DEF Places, OnlyAt, SeedOccurs, Occurs
  <2> QED
    BY <2>1
<1>8. CASE K = "queue"
  <2>1. PICK i \in 1 .. Len(queue[a]) : queue[a][i] = b
    BY <1>1, <1>8 DEF OnlyAt, Occurs
  <2>2. \A j \in 1 .. Len(queue[a]) : queue[a][j] = b <=> j = i
    BY <2>1 DEF Ownership, NoRepeats, Once
  <2>3. Places(b) = {<<"queue", a, i>>}
    BY <1>1, <1>2, <1>8, <2>1, <2>2 DEF Places, OnlyAt, SeedOccurs, Occurs
  <2> QED
    BY <2>3
<1> QED
  BY <1>3, <1>4, <1>5, <1>6, <1>7, <1>8 DEF Kind

\* No buffer is ever lost, shared or returned twice, with any number of
\* actors and whatever their handlers do.
THEOREM BuffersHaveOneOwner == Spec => []OneOwner
<1>1. IInv => OneOwner
  BY OwnershipIsOneOwner DEF IInv
<1> QED
  BY <1>1, Inductive, PTL

\* The drain invariant of runtime_zc.rs:27-30.
THEOREM RunsDrain == Spec => []Drained
<1>1. ASSUME IInv, mpc = "returned" PROVE free = Buf \ caller
  <2>1. ASSUME NEW b \in Buf PROVE b \in free <=> b \notin caller
    <3>1. PICK K \in Kind, a \in Actor : OnlyAt(b, K, a)
      BY <1>1 DEF IInv, Ownership, Owned
    <3>2. ~SeedOccurs(b)
      <4>1. seeds = <<>>
        BY <1>1 DEF IInv, Lifecycle, Joined
      <4> QED
        BY <4>1 DEF SeedOccurs
    <3>3. b \notin held[a] /\ inbound[a] # b /\ ~Occurs(b, queue[a])
      <4>1. pc[a] = "exited" /\ queue[a] = <<>> /\ held[a] = {}
        BY <1>1 DEF IInv, Lifecycle, Joined, Ended
      <4> QED
        BY <1>1, <4>1 DEF IInv, Handling, Occurs
    <3> QED
      BY <3>1, <3>2, <3>3 DEF OnlyAt, Kind
  <2> QED
    BY <1>1, <2>1 DEF IInv, TypeOK
<1>2. IInv => Drained
  BY <1>1 DEF Drained
<1> QED
  BY <1>2, Inductive, PTL

\* A stop that returns has joined every thread and found no panic; the Drop
\* of a Handle never panics.
THEOREM PanicsSurfaceAtStop == Spec => []PanicsSurface
<1>1. IInv => PanicsSurface
  BY DEF IInv, Lifecycle, Counted, PanicsSurface
<1> QED
  BY <1>1, Inductive, PTL

=============================================================================
