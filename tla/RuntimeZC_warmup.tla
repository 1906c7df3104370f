-------------------------- MODULE RuntimeZC_warmup --------------------------
(***************************************************************************)
(* Proofs that a reported count excludes the warmup (ExcludesWarmup) and   *)
(* that the runtime implements Measurement (CountsMeasured).               *)
(*                                                                         *)
(* count may exceed since only while a ClearProbe is on its way to the     *)
(* actor.  An actor that ends without a panic has consumed Shutdown, and   *)
(* no ClearProbe is ever queued behind Shutdown, so what it returns has    *)
(* been cleared.  Measurement asks for more: the report is what each actor *)
(* counted after its last reset took effect, and a reset that is asked for *)
(* is not lost on the way.                                                 *)
(***************************************************************************)
EXTENDS RuntimeZC_proofs

\* The main thread has not begun to send Shutdown.
Up == mpc \in {"spawn", "seed", "running", "clear"}

Leaving(a) == pc[a] \in {"exiting", "closing", "discarding", "exited"}

\* Before the shutdown there is no Shutdown signal, and only a panic makes a
\* thread leave its loop (the thread's own sender keeps its channel open).
OnlyPanicsLeave ==
    Up => \A a \in Actor : /\ ~Occurs(Shutdown, queue[a])
                           /\ Leaving(a) => a \in failed

\* Only a thread that left its loop has closed its channel; while the main
\* thread sends signals no other way remains (SpawnFail ends in the unwinding).
OpenUntilLeft ==
    mpc \notin {"unwind", "panicked"} =>
        \A a \in Actor : ~open[a] => pc[a] \in {"discarding", "exited"}

\* A panicking thread counts as failed.
Panicking == \A a \in Actor : pc[a] = "unwind" => a \in failed

\* No ClearProbe is queued behind a Shutdown.
ClearFirst == \A a \in Actor : \A i, j \in 1 .. Len(queue[a]) :
                 i < j /\ queue[a][i] = Shutdown => queue[a][j] # ClearProbe

\* A thread that left on Shutdown has seen every ClearProbe sent to it.
NoneMissed == \A a \in Actor :
                 Leaving(a) /\ a \notin failed => ~Occurs(ClearProbe, queue[a])

\* The count exceeds `since` only while a ClearProbe is on its way.
Cleared == \A a \in Actor :
              a \notin failed /\ ~Occurs(ClearProbe, queue[a]) => count[a] <= since[a]

\* The same for the counts that were joined.
Reported == \A i \in 1 .. Len(results) :
               i - 1 \in Actor /\ results[i] <= since[i - 1]

Exits == OpenUntilLeft /\ Panicking

Warmup == OnlyPanicsLeave /\ ClearFirst /\ NoneMissed /\ Cleared /\ Reported

LEMMA InitWarmup == Init => Exits /\ Warmup
BY DEF Init, Exits, OpenUntilLeft, Panicking, Warmup, OnlyPanicsLeave, ClearFirst, NoneMissed, Cleared, Reported,
       Occurs, Leaving

LEMMA NextExits == TypeOK /\ Unborn /\ Exits /\ [Next]_vars => Exits'
<1> SUFFICES ASSUME TypeOK, Unborn, Exits, [Next]_vars PROVE Exits'
  OBVIOUS
<1> USE DEF TypeOK, mainVars, actorVars, Exits, OpenUntilLeft, Panicking
<1>1. CASE SpawnFail
  BY <1>1 DEF SpawnFail
<1>2. CASE SeedSend
  BY <1>2 DEF SeedSend
<1>3. CASE SeedFail
  BY <1>3 DEF SeedFail
<1>4. CASE SeedDone
  BY <1>4 DEF SeedDone
<1>5. CASE UnwindSeed
  BY <1>5 DEF UnwindSeed
<1>6. CASE UnwindDone
  BY <1>6 DEF UnwindDone
<1>7. CASE ResetCount
  BY <1>7 DEF ResetCount
<1>8. CASE EndRun
  BY <1>8 DEF EndRun
<1>9. CASE JoinPanic
  BY <1>9 DEF JoinPanic
<1>10. CASE CallerGet
  BY <1>10 DEF CallerGet
<1>11. CASE CallerDrop
  BY <1>11 DEF CallerDrop
<1>12. CASE Spawn
  <2>1. pc[idx] = "unborn" /\ mpc' \in {"spawn", "seed"}
    BY <1>12, AdvanceTypes DEF Spawn, Unborn, Actor
  <2> QED
    BY <1>12, <2>1 DEF Spawn
<1>13. CASE SendClear
  BY <1>13, AdvanceTypes DEF SendClear
<1>14. CASE SendShutdown
  BY <1>14, AdvanceTypes DEF SendShutdown
<1>15. CASE Join
  BY <1>15, AdvanceTypes DEF Join
<1>16. ASSUME NEW a \in Actor, RecvUser(a) PROVE Exits'
  BY <1>16 DEF RecvUser, Ready
<1>17. ASSUME NEW a \in Actor, RecvClear(a) PROVE Exits'
  BY <1>17 DEF RecvClear, Ready
<1>18. ASSUME NEW a \in Actor, RecvBreak(a) PROVE Exits'
  BY <1>18 DEF RecvBreak, Ready
<1>19. ASSUME NEW a \in Actor, GetMsg(a) PROVE Exits'
  BY <1>19 DEF GetMsg
<1>20. ASSUME NEW a \in Actor, DropHeld(a) PROVE Exits'
  BY <1>20 DEF DropHeld
<1>21. ASSUME NEW a \in Actor, HandlerReturn(a) PROVE Exits'
  BY <1>21 DEF HandlerReturn
<1>22. ASSUME NEW a \in Actor, HandlerPanic(a) PROVE Exits'
  BY <1>22 DEF HandlerPanic
<1>23. ASSUME NEW a \in Actor, UnwindInbound(a) PROVE Exits'
  BY <1>23 DEF UnwindInbound
<1>24. ASSUME NEW a \in Actor, DropPeers(a) PROVE Exits'
  BY <1>24 DEF DropPeers
<1>25. ASSUME NEW a \in Actor, DropReceiver(a) PROVE Exits'
  BY <1>25 DEF DropReceiver
<1>26. ASSUME NEW a \in Actor, Discard(a) PROVE Exits'
  BY <1>26 DEF Discard
<1>27. ASSUME NEW a \in Actor, Exit(a) PROVE Exits'
  BY <1>27 DEF Exit
<1>28. ASSUME NEW a \in Actor, NEW dst \in Actor, Send(a, dst) PROVE Exits'
  BY <1>28 DEF Send
<1>29. ASSUME NEW a \in Actor, NEW dst \in Actor, SendClosed(a, dst) PROVE Exits'
  BY <1>29 DEF SendClosed
<1>30. CASE UNCHANGED vars
  BY <1>30 DEF vars
<1> QED
  BY <1>1, <1>2, <1>3, <1>4, <1>5, <1>6, <1>7, <1>8, <1>9, <1>10, <1>11, <1>12, <1>13, <1>14, <1>15, <1>16, <1>17, <1>18, <1>19, <1>20, <1>21, <1>22, <1>23, <1>24, <1>25, <1>26, <1>27, <1>28, <1>29, <1>30
     DEF Next, MainStep, LoopStep, HandlerStep

LEMMA AppendFacts ==
    ASSUME NEW S, NEW q \in Seq(S), NEW x \in S
    PROVE  /\ Len(Append(q, x)) = Len(q) + 1 /\ Len(q) \in Nat
           /\ \A i \in 1 .. Len(q) : Append(q, x)[i] = q[i]
           /\ Append(q, x)[Len(q) + 1] = x
OBVIOUS

\* Appending any signal but a misplaced ClearProbe keeps ClearFirst.
LEMMA AppendClearFirst ==
    ASSUME TypeOK, ClearFirst, NEW a \in Actor, NEW x \in Signal,
           queue' = [queue EXCEPT ![a] = Append(@, x)],
           x = ClearProbe => ~Occurs(Shutdown, queue[a])
    PROVE  ClearFirst'
<1>1. \A c \in Actor : c # a => queue'[c] = queue[c]
  BY DEF TypeOK
<1>2. queue'[a] = Append(queue[a], x) /\ queue[a] \in Seq(Signal)
  BY DEF TypeOK
<1>3. /\ Len(queue'[a]) = Len(queue[a]) + 1 /\ Len(queue[a]) \in Nat
      /\ \A i \in 1 .. Len(queue[a]) : queue'[a][i] = queue[a][i]
      /\ queue'[a][Len(queue[a]) + 1] = x
  BY <1>2
<1>4. ASSUME NEW i \in 1 .. Len(queue'[a]), NEW j \in 1 .. Len(queue'[a]),
             i < j, queue'[a][i] = Shutdown
      PROVE  queue'[a][j] # ClearProbe
  <2>1. i \in 1 .. Len(queue[a]) /\ queue[a][i] = Shutdown
    BY <1>3, <1>4
  <2>2. CASE j = Len(queue[a]) + 1
    BY <1>3, <2>1, <2>2 DEF Occurs
  <2>3. CASE j # Len(queue[a]) + 1
    BY <1>3, <1>4, <2>1, <2>3 DEF ClearFirst
  <2> QED
    BY <2>2, <2>3
<1> QED
  BY <1>1, <1>4 DEF ClearFirst

LEMMA TailClearFirst ==
    ASSUME TypeOK, ClearFirst, NEW a \in Actor, queue[a] # <<>>,
           queue' = [queue EXCEPT ![a] = Tail(@)]
    PROVE  /\ ClearFirst'
           /\ Head(queue[a]) = Shutdown => ~Occurs(ClearProbe, queue'[a])
<1>1. \A c \in Actor : c # a => queue'[c] = queue[c]
  BY DEF TypeOK
<1>2. queue'[a] = Tail(queue[a]) /\ queue[a] \in Seq(Signal)
  BY DEF TypeOK
<1>3. /\ Len(queue'[a]) = Len(queue[a]) - 1 /\ Len(queue[a]) \in Nat \ {0}
      /\ \A i \in 1 .. Len(queue[a]) - 1 : queue'[a][i] = queue[a][i + 1]
      /\ Head(queue[a]) = queue[a][1]
  BY <1>2, TailFacts
<1>4. \A i, j \in 1 .. Len(queue'[a]) :
         i < j /\ queue'[a][i] = Shutdown => queue'[a][j] # ClearProbe
  BY <1>3 DEF ClearFirst
<1>5. ASSUME Head(queue[a]) = Shutdown, NEW j \in 1 .. Len(queue'[a])
      PROVE  queue'[a][j] # ClearProbe
  BY <1>3, <1>5 DEF ClearFirst
<1> QED
  BY <1>1, <1>4, <1>5 DEF ClearFirst, Occurs

\* What a send does to the signals of all channels, and what a receive does.
LEMMA AppendOccurs ==
    ASSUME TypeOK, NEW a \in Actor, NEW x \in Signal,
           queue' = [queue EXCEPT ![a] = Append(@, x)]
    PROVE  \A c \in Actor : \A y : Occurs(y, queue'[c]) <=>
                                  Occurs(y, queue[c]) \/ (c = a /\ y = x)
BY QueueAppend

LEMMA TailOccurs ==
    ASSUME TypeOK, NEW a \in Actor, queue[a] # <<>>,
           queue' = [queue EXCEPT ![a] = Tail(@)]
    PROVE  /\ \A c \in Actor : \A y : c # a => (Occurs(y, queue'[c]) <=> Occurs(y, queue[c]))
           /\ \A y : Occurs(y, queue[a]) <=> y = Head(queue[a]) \/ Occurs(y, queue'[a])
<1>1. \A c \in Actor : c # a => queue'[c] = queue[c]
  BY DEF TypeOK
<1>2. queue'[a] = Tail(queue[a]) /\ queue[a] \in Seq(Signal)
  BY DEF TypeOK
<1> QED
  BY <1>1, <1>2, OccursTail

USE NAssumption, BoundsAssumption, SignalsDistinct

LEMMA NextWarmup ==
    TypeOK /\ Handling /\ Lifecycle /\ Exits /\ Warmup /\ [Next]_vars => Warmup'
<1> SUFFICES ASSUME TypeOK, Handling, Lifecycle, Exits, Warmup, [Next]_vars
             PROVE  Warmup'
  OBVIOUS
<1> USE DEF TypeOK, mainVars, actorVars, Warmup
<1>1. CASE Spawn
  <2>1. OnlyPanicsLeave'
    BY <1>1, AdvanceTypes DEF Spawn, OnlyPanicsLeave, Up, Leaving
  <2>2. ClearFirst'
    BY <1>1, AdvanceTypes DEF Spawn, ClearFirst, Up, Leaving
  <2>3. NoneMissed'
    BY <1>1, AdvanceTypes DEF Spawn, NoneMissed, Up, Leaving
  <2>4. Cleared'
    BY <1>1, AdvanceTypes DEF Spawn, Cleared, Up, Leaving
  <2>5. Reported'
    BY <1>1, AdvanceTypes DEF Spawn, Reported, Up, Leaving
  <2> QED
    BY <2>1, <2>2, <2>3, <2>4, <2>5
<1>2. CASE SpawnFail
  <2>1. OnlyPanicsLeave'
    BY <1>2 DEF SpawnFail, OnlyPanicsLeave, Up, Leaving
  <2>2. ClearFirst'
    BY <1>2 DEF SpawnFail, ClearFirst, Up, Leaving
  <2>3. NoneMissed'
    BY <1>2 DEF SpawnFail, NoneMissed, Up, Leaving
  <2>4. Cleared'
    BY <1>2 DEF SpawnFail, Cleared, Up, Leaving
  <2>5. Reported'
    BY <1>2 DEF SpawnFail, Reported, Up, Leaving
  <2> QED
    BY <2>1, <2>2, <2>3, <2>4, <2>5
<1>3. CASE SeedFail
  <2>1. OnlyPanicsLeave'
    BY <1>3 DEF SeedFail, OnlyPanicsLeave, Up, Leaving
  <2>2. ClearFirst'
    BY <1>3 DEF SeedFail, ClearFirst, Up, Leaving
  <2>3. NoneMissed'
    BY <1>3 DEF SeedFail, NoneMissed, Up, Leaving
  <2>4. Cleared'
    BY <1>3 DEF SeedFail, Cleared, Up, Leaving
  <2>5. Reported'
    BY <1>3 DEF SeedFail, Reported, Up, Leaving
  <2> QED
    BY <2>1, <2>2, <2>3, <2>4, <2>5
<1>4. CASE SeedDone
  <2>1. OnlyPanicsLeave'
    BY <1>4 DEF SeedDone, OnlyPanicsLeave, Up, Leaving
  <2>2. ClearFirst'
    BY <1>4 DEF SeedDone, ClearFirst, Up, Leaving
  <2>3. NoneMissed'
    BY <1>4 DEF SeedDone, NoneMissed, Up, Leaving
  <2>4. Cleared'
    BY <1>4 DEF SeedDone, Cleared, Up, Leaving
  <2>5. Reported'
    BY <1>4 DEF SeedDone, Reported, Up, Leaving
  <2> QED
    BY <2>1, <2>2, <2>3, <2>4, <2>5
<1>5. CASE UnwindSeed
  <2>1. OnlyPanicsLeave'
    BY <1>5 DEF UnwindSeed, OnlyPanicsLeave, Up, Leaving
  <2>2. ClearFirst'
    BY <1>5 DEF UnwindSeed, ClearFirst, Up, Leaving
  <2>3. NoneMissed'
    BY <1>5 DEF UnwindSeed, NoneMissed, Up, Leaving
  <2>4. Cleared'
    BY <1>5 DEF UnwindSeed, Cleared, Up, Leaving
  <2>5. Reported'
    BY <1>5 DEF UnwindSeed, Reported, Up, Leaving
  <2> QED
    BY <2>1, <2>2, <2>3, <2>4, <2>5
<1>6. CASE UnwindDone
  <2>1. OnlyPanicsLeave'
    BY <1>6 DEF UnwindDone, OnlyPanicsLeave, Up, Leaving
  <2>2. ClearFirst'
    BY <1>6 DEF UnwindDone, ClearFirst, Up, Leaving
  <2>3. NoneMissed'
    BY <1>6 DEF UnwindDone, NoneMissed, Up, Leaving
  <2>4. Cleared'
    BY <1>6 DEF UnwindDone, Cleared, Up, Leaving
  <2>5. Reported'
    BY <1>6 DEF UnwindDone, Reported, Up, Leaving
  <2> QED
    BY <2>1, <2>2, <2>3, <2>4, <2>5
<1>7. CASE ResetCount
  <2>1. OnlyPanicsLeave'
    BY <1>7 DEF ResetCount, OnlyPanicsLeave, Up, Leaving
  <2>2. ClearFirst'
    BY <1>7 DEF ResetCount, ClearFirst, Up, Leaving
  <2>3. NoneMissed'
    BY <1>7 DEF ResetCount, NoneMissed, Up, Leaving
  <2>4. Cleared'
    BY <1>7 DEF ResetCount, Cleared, Up, Leaving
  <2>5. Reported'
    BY <1>7 DEF ResetCount, Reported, Up, Leaving
  <2> QED
    BY <2>1, <2>2, <2>3, <2>4, <2>5
<1>8. CASE EndRun
  <2>1. OnlyPanicsLeave'
    BY <1>8 DEF EndRun, OnlyPanicsLeave, Up, Leaving
  <2>2. ClearFirst'
    BY <1>8 DEF EndRun, ClearFirst, Up, Leaving
  <2>3. NoneMissed'
    BY <1>8 DEF EndRun, NoneMissed, Up, Leaving
  <2>4. Cleared'
    BY <1>8 DEF EndRun, Cleared, Up, Leaving
  <2>5. Reported'
    BY <1>8 DEF EndRun, Reported, Up, Leaving
  <2> QED
    BY <2>1, <2>2, <2>3, <2>4, <2>5
<1>9. CASE JoinPanic
  <2>1. OnlyPanicsLeave'
    BY <1>9 DEF JoinPanic, OnlyPanicsLeave, Up, Leaving
  <2>2. ClearFirst'
    BY <1>9 DEF JoinPanic, ClearFirst, Up, Leaving
  <2>3. NoneMissed'
    BY <1>9 DEF JoinPanic, NoneMissed, Up, Leaving
  <2>4. Cleared'
    BY <1>9 DEF JoinPanic, Cleared, Up, Leaving
  <2>5. Reported'
    BY <1>9 DEF JoinPanic, Reported, Up, Leaving
  <2> QED
    BY <2>1, <2>2, <2>3, <2>4, <2>5
<1>10. CASE CallerGet
  <2>1. OnlyPanicsLeave'
    BY <1>10 DEF CallerGet, OnlyPanicsLeave, Up, Leaving
  <2>2. ClearFirst'
    BY <1>10 DEF CallerGet, ClearFirst, Up, Leaving
  <2>3. NoneMissed'
    BY <1>10 DEF CallerGet, NoneMissed, Up, Leaving
  <2>4. Cleared'
    BY <1>10 DEF CallerGet, Cleared, Up, Leaving
  <2>5. Reported'
    BY <1>10 DEF CallerGet, Reported, Up, Leaving
  <2> QED
    BY <2>1, <2>2, <2>3, <2>4, <2>5
<1>11. CASE CallerDrop
  <2>1. OnlyPanicsLeave'
    BY <1>11 DEF CallerDrop, OnlyPanicsLeave, Up, Leaving
  <2>2. ClearFirst'
    BY <1>11 DEF CallerDrop, ClearFirst, Up, Leaving
  <2>3. NoneMissed'
    BY <1>11 DEF CallerDrop, NoneMissed, Up, Leaving
  <2>4. Cleared'
    BY <1>11 DEF CallerDrop, Cleared, Up, Leaving
  <2>5. Reported'
    BY <1>11 DEF CallerDrop, Reported, Up, Leaving
  <2> QED
    BY <2>1, <2>2, <2>3, <2>4, <2>5
<1>12. ASSUME NEW a \in Actor, HandlerPanic(a) PROVE Warmup'
  <2>1. OnlyPanicsLeave'
    BY <1>12 DEF HandlerPanic, OnlyPanicsLeave, Up, Leaving
  <2>2. ClearFirst'
    BY <1>12 DEF HandlerPanic, ClearFirst, Up, Leaving
  <2>3. NoneMissed'
    BY <1>12 DEF HandlerPanic, NoneMissed, Up, Leaving
  <2>4. Cleared'
    BY <1>12 DEF HandlerPanic, Cleared, Up, Leaving
  <2>5. Reported'
    BY <1>12 DEF HandlerPanic, Reported, Up, Leaving
  <2> QED
    BY <2>1, <2>2, <2>3, <2>4, <2>5
<1>13. ASSUME NEW a \in Actor, UnwindInbound(a) PROVE Warmup'
  <2>1. OnlyPanicsLeave'
    BY <1>13 DEF UnwindInbound, Exits, Panicking, OnlyPanicsLeave, Up, Leaving
  <2>2. ClearFirst'
    BY <1>13 DEF UnwindInbound, ClearFirst, Up, Leaving
  <2>3. NoneMissed'
    BY <1>13 DEF UnwindInbound, Exits, Panicking, NoneMissed, Up, Leaving
  <2>4. Cleared'
    BY <1>13 DEF UnwindInbound, Cleared, Up, Leaving
  <2>5. Reported'
    BY <1>13 DEF UnwindInbound, Reported, Up, Leaving
  <2> QED
    BY <2>1, <2>2, <2>3, <2>4, <2>5
<1>14. ASSUME NEW a \in Actor, DropPeers(a) PROVE Warmup'
  <2>1. OnlyPanicsLeave'
    BY <1>14 DEF DropPeers, OnlyPanicsLeave, Up, Leaving
  <2>2. ClearFirst'
    BY <1>14 DEF DropPeers, ClearFirst, Up, Leaving
  <2>3. NoneMissed'
    BY <1>14 DEF DropPeers, NoneMissed, Up, Leaving
  <2>4. Cleared'
    BY <1>14 DEF DropPeers, Cleared, Up, Leaving
  <2>5. Reported'
    BY <1>14 DEF DropPeers, Reported, Up, Leaving
  <2> QED
    BY <2>1, <2>2, <2>3, <2>4, <2>5
<1>15. ASSUME NEW a \in Actor, DropReceiver(a) PROVE Warmup'
  <2>1. OnlyPanicsLeave'
    BY <1>15 DEF DropReceiver, OnlyPanicsLeave, Up, Leaving
  <2>2. ClearFirst'
    BY <1>15 DEF DropReceiver, ClearFirst, Up, Leaving
  <2>3. NoneMissed'
    BY <1>15 DEF DropReceiver, NoneMissed, Up, Leaving
  <2>4. Cleared'
    BY <1>15 DEF DropReceiver, Cleared, Up, Leaving
  <2>5. Reported'
    BY <1>15 DEF DropReceiver, Reported, Up, Leaving
  <2> QED
    BY <2>1, <2>2, <2>3, <2>4, <2>5
<1>16. ASSUME NEW a \in Actor, Exit(a) PROVE Warmup'
  <2>1. OnlyPanicsLeave'
    BY <1>16 DEF Exit, OnlyPanicsLeave, Up, Leaving
  <2>2. ClearFirst'
    BY <1>16 DEF Exit, ClearFirst, Up, Leaving
  <2>3. NoneMissed'
    BY <1>16 DEF Exit, NoneMissed, Up, Leaving
  <2>4. Cleared'
    BY <1>16 DEF Exit, Cleared, Up, Leaving
  <2>5. Reported'
    BY <1>16 DEF Exit, Reported, Up, Leaving
  <2> QED
    BY <2>1, <2>2, <2>3, <2>4, <2>5
<1>17. ASSUME NEW a \in Actor, GetMsg(a) PROVE Warmup'
  <2>1. OnlyPanicsLeave'
    BY <1>17 DEF GetMsg, OnlyPanicsLeave, Up, Leaving
  <2>2. ClearFirst'
    BY <1>17 DEF GetMsg, ClearFirst, Up, Leaving
  <2>3. NoneMissed'
    BY <1>17 DEF GetMsg, NoneMissed, Up, Leaving
  <2>4. Cleared'
    BY <1>17 DEF GetMsg, Cleared, Up, Leaving
  <2>5. Reported'
    BY <1>17 DEF GetMsg, Reported, Up, Leaving
  <2> QED
    BY <2>1, <2>2, <2>3, <2>4, <2>5
<1>18. ASSUME NEW a \in Actor, DropHeld(a) PROVE Warmup'
  <2>1. OnlyPanicsLeave'
    BY <1>18 DEF DropHeld, OnlyPanicsLeave, Up, Leaving
  <2>2. ClearFirst'
    BY <1>18 DEF DropHeld, ClearFirst
  <2>3. NoneMissed'
    BY <1>18 DEF DropHeld, NoneMissed, Up, Leaving
  <2>4. Cleared'
    BY <1>18 DEF DropHeld, Cleared, Up, Leaving
  <2>5. Reported'
    BY <1>18 DEF DropHeld, Reported, Up, Leaving
  <2> QED
    BY <2>1, <2>2, <2>3, <2>4, <2>5
<1>19. ASSUME NEW a \in Actor, NEW dst \in Actor, SendClosed(a, dst) PROVE Warmup'
  <2>1. OnlyPanicsLeave'
    BY <1>19 DEF SendClosed, OnlyPanicsLeave, Up, Leaving
  <2>2. ClearFirst'
    BY <1>19 DEF SendClosed, ClearFirst, Up, Leaving
  <2>3. NoneMissed'
    BY <1>19 DEF SendClosed, NoneMissed, Up, Leaving
  <2>4. Cleared'
    BY <1>19 DEF SendClosed, Cleared, Up, Leaving
  <2>5. Reported'
    BY <1>19 DEF SendClosed, Reported, Up, Leaving
  <2> QED
    BY <2>1, <2>2, <2>3, <2>4, <2>5
<1>20. ASSUME NEW a \in Actor, HandlerReturn(a) PROVE Warmup'
  <2>1. OnlyPanicsLeave'
    BY <1>20 DEF HandlerReturn, CountUp, OnlyPanicsLeave, Up, Leaving
  <2>2. ClearFirst'
    BY <1>20 DEF HandlerReturn, CountUp, ClearFirst, Up, Leaving
  <2>3. NoneMissed'
    BY <1>20 DEF HandlerReturn, CountUp, NoneMissed, Up, Leaving
  <2>4. Cleared'
    BY <1>20 DEF HandlerReturn, CountUp, Cleared, Up, Leaving
  <2>5. Reported'
    <3>1. \A c \in Actor : since[c] \in Nat /\ since'[c] \in Nat /\ since[c] <= since'[c]
      BY <1>20 DEF HandlerReturn, CountUp
    <3>2. results' = results /\ results \in Seq(Nat)
      BY <1>20 DEF HandlerReturn
    <3>3. ASSUME NEW i \in 1 .. Len(results)
          PROVE  i - 1 \in Actor /\ results[i] <= since'[i - 1]
      <4>1. i - 1 \in Actor /\ results[i] <= since[i - 1]
        BY DEF Reported
      <4>2. results[i] \in Nat
        BY <3>2
      <4>3. /\ since[i - 1] \in Nat /\ since'[i - 1] \in Nat
            /\ since[i - 1] <= since'[i - 1]
        BY <3>1, <4>1
      <4> QED
        BY ONLY <4>1, <4>2, <4>3
    <3> QED
      BY <3>2, <3>3 DEF Reported
  <2> QED
    BY <2>1, <2>2, <2>3, <2>4, <2>5
<1>21. ASSUME NEW a \in Actor, NEW dst \in Actor, Send(a, dst) PROVE Warmup'
  <2>a. PICK x \in Buf : queue' = [queue EXCEPT ![dst] = Append(@, x)]
    BY <1>21 DEF Send
  <2>b. x \in Signal /\ x # ClearProbe /\ x # Shutdown
    BY DEF Signal
  <2>c. \A c \in Actor : \A y : Occurs(y, queue'[c]) <=>
                              Occurs(y, queue[c]) \/ (c = dst /\ y = x)
    BY <2>a, <2>b, AppendOccurs
  <2>1. OnlyPanicsLeave'
    BY <1>21, <2>b, <2>c DEF Send, OnlyPanicsLeave, Up, Leaving
  <2>2. ClearFirst'
    BY <2>a, <2>b, AppendClearFirst DEF ClearFirst, Up, Leaving
  <2>3. NoneMissed'
    BY <1>21, <2>b, <2>c DEF Send, NoneMissed, Up, Leaving
  <2>4. Cleared'
    BY <1>21, <2>b, <2>c DEF Send, Cleared, Up, Leaving
  <2>5. Reported'
    BY <1>21, <2>b, <2>c DEF Send, Reported, Up, Leaving
  <2> QED
    BY <2>1, <2>2, <2>3, <2>4, <2>5
<1>22. CASE SeedSend
  <2>a. PICK dst \in Actor, x \in Buf : queue' = [queue EXCEPT ![dst] = Append(@, x)]
    BY <1>22, HeadSeed DEF SeedSend, Deliverable
  <2>b. x \in Signal /\ x # ClearProbe /\ x # Shutdown
    BY DEF Signal
  <2>c. \A c \in Actor : \A y : Occurs(y, queue'[c]) <=>
                              Occurs(y, queue[c]) \/ (c = dst /\ y = x)
    BY <2>a, <2>b, AppendOccurs
  <2>1. OnlyPanicsLeave'
    BY <1>22, <2>b, <2>c DEF SeedSend, OnlyPanicsLeave, Up, Leaving
  <2>2. ClearFirst'
    BY <2>a, <2>b, AppendClearFirst DEF ClearFirst, Up, Leaving
  <2>3. NoneMissed'
    BY <1>22, <2>b, <2>c DEF SeedSend, NoneMissed, Up, Leaving
  <2>4. Cleared'
    BY <1>22, <2>b, <2>c DEF SeedSend, Cleared, Up, Leaving
  <2>5. Reported'
    BY <1>22, <2>b, <2>c DEF SeedSend, Reported, Up, Leaving
  <2> QED
    BY <2>1, <2>2, <2>3, <2>4, <2>5
<1>23. ASSUME NEW a \in Actor, RecvUser(a) PROVE Warmup'
  <2>a. queue[a] # <<>> /\ queue' = [queue EXCEPT ![a] = Tail(@)]
    BY <1>23 DEF RecvUser, Ready, Received
  <2>b. /\ \A c \in Actor : \A y : c # a => (Occurs(y, queue'[c]) <=> Occurs(y, queue[c]))
        /\ \A y : Occurs(y, queue[a]) <=> y = Head(queue[a]) \/ Occurs(y, queue'[a])
    BY <2>a, TailOccurs
  <2>c. Head(queue[a]) # ClearProbe /\ Head(queue[a]) # Shutdown
    BY <1>23, <2>a DEF RecvUser, Received
  <2>1. OnlyPanicsLeave'
    BY <1>23, <2>b, <2>c DEF RecvUser, Ready, OnlyPanicsLeave, Up, Leaving
  <2>2. ClearFirst'
    BY <2>a, TailClearFirst DEF ClearFirst, Up, Leaving
  <2>3. NoneMissed'
    BY <1>23, <2>b, <2>c DEF RecvUser, Ready, NoneMissed, Up, Leaving
  <2>4. Cleared'
    BY <1>23, <2>b, <2>c DEF RecvUser, Ready, Cleared, Up, Leaving
  <2>5. Reported'
    BY <1>23, <2>b, <2>c DEF RecvUser, Ready, Reported, Up, Leaving
  <2> QED
    BY <2>1, <2>2, <2>3, <2>4, <2>5
<1>24. ASSUME NEW a \in Actor, RecvClear(a) PROVE Warmup'
  <2>a. queue[a] # <<>> /\ queue' = [queue EXCEPT ![a] = Tail(@)]
    BY <1>24 DEF RecvClear, Ready, Received
  <2>b. /\ \A c \in Actor : \A y : c # a => (Occurs(y, queue'[c]) <=> Occurs(y, queue[c]))
        /\ \A y : Occurs(y, queue[a]) <=> y = Head(queue[a]) \/ Occurs(y, queue'[a])
    BY <2>a, TailOccurs
  <2>1. OnlyPanicsLeave'
    BY <1>24, <2>b DEF RecvClear, Ready, OnlyPanicsLeave, Up, Leaving
  <2>2. ClearFirst'
    BY <2>a, TailClearFirst DEF ClearFirst, Up, Leaving
  <2>3. NoneMissed'
    BY <1>24, <2>b DEF RecvClear, Ready, NoneMissed, Up, Leaving
  <2>4. Cleared'
    BY <1>24, <2>b DEF RecvClear, Ready, Cleared, Up, Leaving
  <2>5. Reported'
    BY <1>24, <2>b DEF RecvClear, Ready, Reported, Up, Leaving
  <2> QED
    BY <2>1, <2>2, <2>3, <2>4, <2>5
<1>25. ASSUME NEW a \in Actor, Discard(a) PROVE Warmup'
  <2>a. queue[a] # <<>> /\ queue' = [queue EXCEPT ![a] = Tail(@)]
    BY <1>25 DEF Discard, Ready, Received
  <2>b. /\ \A c \in Actor : \A y : c # a => (Occurs(y, queue'[c]) <=> Occurs(y, queue[c]))
        /\ \A y : Occurs(y, queue[a]) <=> y = Head(queue[a]) \/ Occurs(y, queue'[a])
    BY <2>a, TailOccurs
  <2>1. OnlyPanicsLeave'
    BY <1>25, <2>b DEF Discard, OnlyPanicsLeave, Up, Leaving
  <2>2. ClearFirst'
    BY <2>a, TailClearFirst DEF ClearFirst, Up, Leaving
  <2>3. NoneMissed'
    BY <1>25, <2>b DEF Discard, NoneMissed, Up, Leaving
  <2>4. Cleared'
    BY <1>25, <2>b DEF Discard, NoneMissed, Cleared, Up, Leaving
  <2>5. Reported'
    BY <1>25, <2>b DEF Discard, Reported, Up, Leaving
  <2> QED
    BY <2>1, <2>2, <2>3, <2>4, <2>5
<1>26. ASSUME NEW a \in Actor, RecvBreak(a) PROVE Warmup'
  <2>1. queue[a] # <<>> /\ Head(queue[a]) = Shutdown
    <3>1. queue[a] # <<>>
      BY <1>26 DEF RecvBreak, Ready, Connected, HoldsPeers
    <3>2. Head(queue[a]) \in {Shutdown, "Err"}
      BY <1>26, <3>1 DEF RecvBreak, Received
    <3>3. Head(queue[a]) \in Signal
      BY <3>1, TailFacts
    <3> QED
      BY <3>1, <3>2, <3>3 DEF Signal
  <2>2. queue' = [queue EXCEPT ![a] = Tail(@)]
    BY <1>26, <2>1 DEF RecvBreak
  <2>3. /\ \A c \in Actor : \A y : c # a => (Occurs(y, queue'[c]) <=> Occurs(y, queue[c]))
        /\ \A y : Occurs(y, queue[a]) <=> y = Head(queue[a]) \/ Occurs(y, queue'[a])
    BY <2>1, <2>2, TailOccurs
  <2>4. ~Up
    BY <2>1, <2>3 DEF OnlyPanicsLeave
  <2>5. ClearFirst' /\ ~Occurs(ClearProbe, queue'[a])
    BY <2>1, <2>2, TailClearFirst
  <2>6. OnlyPanicsLeave'
    BY <1>26, <2>4 DEF RecvBreak, OnlyPanicsLeave, Up
  <2>7. NoneMissed'
    BY <1>26, <2>3, <2>5 DEF RecvBreak, NoneMissed, Leaving
  <2>8. Cleared'
    BY <1>26, <2>1, <2>3 DEF RecvBreak, Cleared
  <2>9. Reported'
    BY <1>26 DEF RecvBreak, Reported
  <2> QED
    BY <2>5, <2>6, <2>7, <2>8, <2>9
<1>27. CASE SendClear
  <2>1. idx \in Actor /\ Up /\ results = <<>>
    BY <1>27 DEF SendClear, Up, Lifecycle, Counted
  <2>2. /\ mpc' \in {"clear", "running"} /\ since' = [since EXCEPT ![idx] = 0]
        /\ UNCHANGED <<pc, failed, count, results>>
    BY <1>27, AdvanceTypes DEF SendClear
  <2>3. Reported'
    BY <2>1, <2>2 DEF Reported
  <2>4. CASE ~open[idx]
    <3>1. queue' = queue
      BY <1>27, <2>4 DEF SendClear, SendSignal
    <3>2. idx \in failed
      BY <2>1, <2>4 DEF Up, OnlyPanicsLeave, Leaving, Exits, OpenUntilLeft
    <3> QED
      BY <2>1, <2>2, <2>3, <3>1, <3>2
         DEF OnlyPanicsLeave, ClearFirst, NoneMissed, Cleared, Up, Leaving
  <2>5. CASE open[idx]
    <3>1. ClearProbe \in Signal /\ queue' = [queue EXCEPT ![idx] = Append(@, ClearProbe)]
      BY <1>27, <2>5 DEF SendClear, SendSignal, Signal
    <3>2. \A c \in Actor : \A y : Occurs(y, queue'[c]) <=>
                                Occurs(y, queue[c]) \/ (c = idx /\ y = ClearProbe)
      BY <2>1, <3>1, AppendOccurs
    <3>3. ClearFirst'
      BY <2>1, <3>1, AppendClearFirst DEF OnlyPanicsLeave
    <3>4. OnlyPanicsLeave'
      BY <2>1, <2>2, <3>2 DEF OnlyPanicsLeave, Up, Leaving
    <3>5. NoneMissed'
      BY <2>1, <2>2, <3>2 DEF NoneMissed, OnlyPanicsLeave, Leaving
    <3>6. Cleared'
      BY <2>1, <2>2, <3>2 DEF Cleared
    <3> QED
      BY <2>3, <3>3, <3>4, <3>5, <3>6
  <2> QED
    BY <2>4, <2>5
<1>28. CASE SendShutdown
  <2>1. idx \in Actor /\ mpc' \in {"shutdown", "join"}
    BY <1>28, AdvanceTypes DEF SendShutdown
  <2>2. OnlyPanicsLeave'
    BY <2>1 DEF OnlyPanicsLeave, Up
  <2>3. Reported'
    BY <1>28 DEF SendShutdown, Reported
  <2>4. CASE ~open[idx]
    <3>1. queue' = queue
      BY <1>28, <2>4 DEF SendShutdown, SendSignal
    <3> QED
      BY <1>28, <2>2, <2>3, <3>1
         DEF SendShutdown, ClearFirst, NoneMissed, Cleared, Leaving
  <2>5. CASE open[idx]
    <3>1. Shutdown \in Signal /\ queue' = [queue EXCEPT ![idx] = Append(@, Shutdown)]
      BY <1>28, <2>5 DEF SendShutdown, SendSignal, Signal
    <3>2. \A c \in Actor : \A y : Occurs(y, queue'[c]) <=>
                                Occurs(y, queue[c]) \/ (c = idx /\ y = Shutdown)
      BY <2>1, <3>1, AppendOccurs
    <3>3. ClearFirst'
      BY <2>1, <3>1, AppendClearFirst
    <3> QED
      BY <1>28, <2>2, <2>3, <3>2, <3>3 DEF SendShutdown, NoneMissed, Cleared, Leaving
  <2> QED
    BY <2>4, <2>5
<1>29. CASE Join
  <2>1. idx \in Actor /\ mpc' \in {"join", "returned"} /\ pc[idx] = "exited"
    BY <1>29, AdvanceTypes DEF Join
  <2>2. OnlyPanicsLeave'
    BY <2>1 DEF OnlyPanicsLeave, Up
  <2>3. ClearFirst' /\ NoneMissed' /\ Cleared'
    BY <1>29 DEF Join, ClearFirst, NoneMissed, Cleared, Leaving
  <2>4. CASE how = "drop"
    BY <1>29, <2>2, <2>3, <2>4 DEF Join, Reported
  <2>5. CASE how # "drop"
    <3>1. results' = Append(results, count[idx]) /\ Len(results) = idx /\ idx \notin failed
      BY <1>29, <2>5 DEF Join, Lifecycle, Counted
    <3>2. count[idx] <= since[idx] /\ since' = since
      BY <1>29, <2>1, <3>1 DEF Join, NoneMissed, Cleared, Leaving
    <3>3. count[idx] \in 0 .. MaxCount /\ results \in Seq(0 .. MaxCount) /\ idx \in Nat
      BY <2>1 DEF Actor
    <3>4. /\ Len(results') = idx + 1 /\ results'[idx + 1] = count[idx]
          /\ \A i \in 1 .. idx : results'[i] = results[i]
      BY <3>1, <3>3, AppendFacts
    <3>5. ASSUME NEW i \in 1 .. Len(results')
          PROVE  i - 1 \in Actor /\ results'[i] <= since'[i - 1]
      <4>1. CASE i = idx + 1
        BY <2>1, <3>2, <3>3, <3>4, <4>1
      <4>2. CASE i # idx + 1
        <5>1. i \in 1 .. Len(results) /\ results'[i] = results[i]
          BY <3>1, <3>3, <3>4, <4>2
        <5>2. i - 1 \in Actor /\ results[i] <= since[i - 1]
          BY <5>1 DEF Reported
        <5> QED
          BY <3>2, <5>1, <5>2
      <4> QED
        BY <4>1, <4>2
    <3> QED
      BY <2>2, <2>3, <3>5 DEF Reported
  <2> QED
    BY <2>4, <2>5
<1>30. CASE UNCHANGED vars
  BY <1>30 DEF vars, OnlyPanicsLeave, ClearFirst, NoneMissed, Cleared, Reported, Up, Leaving
<1> QED
  BY <1>1, <1>2, <1>3, <1>4, <1>5, <1>6, <1>7, <1>8, <1>9, <1>10, <1>11, <1>12, <1>13, <1>14, <1>15, <1>16, <1>17, <1>18, <1>19, <1>20, <1>21, <1>22, <1>23, <1>24, <1>25, <1>26, <1>27, <1>28, <1>29, <1>30
     DEF Next, MainStep, LoopStep, HandlerStep

\* What stop and run report excludes the warmup, for every number of actors,
\* of resets and of messages.
THEOREM ReportsExcludeWarmup == Spec => []ExcludesWarmup
<1>1. Init => Exits /\ Warmup
  BY InitWarmup
<1>2. IInv /\ Exits /\ Warmup /\ [Next]_vars => Exits' /\ Warmup'
  BY NextExits, NextWarmup DEF IInv, Lifecycle
<1>3. IInv /\ Warmup => ExcludesWarmup
  BY DEF IInv, TypeOK, Warmup, Reported, ExcludesWarmup
<1> QED
  BY <1>1, <1>2, <1>3, Inductive, PTL DEF Spec

-----------------------------------------------------------------------------
(* What stop and run report *)

\* A count that was joined is final, and the thread has ended.
Final == \A i \in 1 .. Len(results) :
            i - 1 \in Actor /\ pc[i - 1] = "exited" /\ results[i] = count[i - 1]

\* A loop of the main thread over the actors starts from the first one.
Rewound == mpc \in {"seed", "running"} => idx = 0

\* run sends no Shutdown before it has cleared the counts.
ClearsFirst == how = "run" /\ resets = 0 =>
                  /\ mpc \notin {"clear", "shutdown", "join", "returned"}
                  /\ \A a \in Actor : ~Occurs(Shutdown, queue[a])

MInv == IInv /\ Exits /\ Warmup /\ Final /\ Rewound /\ ClearsFirst

\* The control signals that an actor's step takes out of its own channel or
\* leaves in the others.
LEMMA ActorSignals ==
    ASSUME TypeOK, NEW a \in Actor, LoopStep(a) \/ HandlerStep(a), NEW s \in {ClearProbe, Shutdown}
    PROVE  /\ \A c \in Actor : c # a => (Occurs(s, queue'[c]) <=> Occurs(s, queue[c]))
           /\ Occurs(s, queue'[a]) => Occurs(s, queue[a])
           /\ pc[a] = "handle" \/ RecvUser(a) => (Occurs(s, queue'[a]) <=> Occurs(s, queue[a]))
<1> USE DEF actorVars
<1>1. s \notin Buf
  OBVIOUS
<1>2. CASE queue' = queue
  BY <1>2, <1>1 DEF RecvUser, TypeOK, Ready, Received
<1>3. CASE RecvUser(a)
  <2>1. queue[a] # <<>> /\ Head(queue[a]) \in Buf /\ queue' = [queue EXCEPT ![a] = Tail(@)]
    BY <1>3 DEF RecvUser, Received
  <2> QED
    BY <1>1, <2>1, TailOccurs
<1>4. CASE queue[a] # <<>> /\ queue' = [queue EXCEPT ![a] = Tail(@)] /\ pc[a] # "handle" /\ ~RecvUser(a)
  BY <1>4, TailOccurs
<1>5. ASSUME NEW dst \in Actor, Send(a, dst)
      PROVE  \A c \in Actor : Occurs(s, queue'[c]) <=> Occurs(s, queue[c])
  <2>1. PICK b \in held[a] : queue' = [queue EXCEPT ![dst] = Append(@, b)]
    BY <1>5 DEF Send
  <2>2. b \in Buf /\ b \in Signal /\ b # s
    BY <1>1, <2>1 DEF TypeOK, Signal
  <2> QED
    BY <2>1, <2>2, AppendOccurs
<1>6. CASE (RecvClear(a) \/ RecvBreak(a)) /\ queue[a] = <<>>
  <2>1. queue' = [queue EXCEPT ![a] = @]
    BY <1>6 DEF RecvClear, RecvBreak, Received
  <2>2. queue' = queue
    BY <2>1 DEF TypeOK
  <2> QED
    BY <1>2, <2>2
<1>7. CASE (RecvClear(a) \/ RecvBreak(a)) /\ queue[a] # <<>>
  <2>1. queue' = [queue EXCEPT ![a] = Tail(@)] /\ pc[a] = "recv" /\ Received(a) \notin Buf
    BY <1>7 DEF RecvClear, RecvBreak, Ready
  <2> QED
    BY <1>4, <1>7, <2>1 DEF RecvUser
<1>8. CASE Discard(a)
  BY <1>4, <1>8 DEF Discard, RecvUser, Ready
<1>9. CASE \/ UnwindInbound(a) \/ DropPeers(a) \/ DropReceiver(a) \/ DropHeld(a) \/ Exit(a)
           \/ GetMsg(a) \/ HandlerReturn(a) \/ HandlerPanic(a) \/ \E dst \in Actor : SendClosed(a, dst)
  BY <1>2, <1>9 DEF UnwindInbound, DropPeers, DropReceiver, DropHeld, Exit, GetMsg, HandlerReturn,
                   HandlerPanic, SendClosed
<1> QED
  BY <1>3, <1>5, <1>6, <1>7, <1>8, <1>9 DEF LoopStep, HandlerStep

\* What an actor's step leaves alone.
LEMMA ActorKeeps ==
    ASSUME TypeOK, NEW a \in Actor, LoopStep(a) \/ HandlerStep(a)
    PROVE  /\ UNCHANGED mainVars /\ pc[a] \in {"recv", "handle", "unwind", "exiting", "closing", "discarding"}
           /\ \A c \in Actor : c # a => pc'[c] = pc[c] /\ count'[c] = count[c]
<1> USE DEF actorVars, TypeOK
<1>1. CASE RecvUser(a) \/ RecvClear(a) \/ RecvBreak(a)
  BY <1>1 DEF RecvUser, RecvClear, RecvBreak, Ready
<1>2. CASE \/ UnwindInbound(a) \/ DropPeers(a) \/ DropReceiver(a) \/ DropHeld(a) \/ Exit(a) \/ Discard(a)
           \/ GetMsg(a) \/ \E dst \in Actor : Send(a, dst) \/ SendClosed(a, dst)
  BY <1>2 DEF UnwindInbound, DropPeers, DropReceiver, DropHeld, Exit, Discard, GetMsg, Send, SendClosed
<1>3. CASE HandlerReturn(a) \/ HandlerPanic(a)
  BY <1>3 DEF HandlerReturn, HandlerPanic
<1> QED
  BY <1>1, <1>2, <1>3 DEF LoopStep, HandlerStep

LEMMA InitPaced == Init => Final /\ Rewound /\ ClearsFirst
BY DEF Init, Final, Rewound, ClearsFirst, Occurs

LEMMA NextFinal == IInv /\ Final /\ [Next]_vars => Final'
<1> SUFFICES ASSUME IInv, Final, [Next]_vars PROVE Final'
  OBVIOUS
<1> USE DEF mainVars, actorVars
<1>1. TypeOK /\ Unborn /\ Counted
  BY DEF IInv, Lifecycle
<1>2. CASE UNCHANGED <<results, pc, count>>
  BY <1>2 DEF Final
<1>3. CASE Spawn
  <2>1. pc[idx] = "unborn" /\ pc' = [pc EXCEPT ![idx] = "recv"] /\ UNCHANGED <<results, count>>
    BY <1>1, <1>3 DEF Spawn, Unborn, Actor, TypeOK
  <2> QED
    BY <1>1, <2>1 DEF Final, TypeOK
<1>4. CASE Join
  <2>1. idx \in Actor /\ pc[idx] = "exited" /\ mpc = "join" /\ UNCHANGED <<pc, count>>
    BY <1>1, <1>4 DEF Join, TypeOK
  <2>2. CASE how = "drop"
    BY <1>2, <1>4, <2>2 DEF Join
  <2>3. CASE how # "drop"
    <3>1. results' = Append(results, count[idx]) /\ Len(results) = idx
      BY <1>1, <1>4, <2>1, <2>3 DEF Join, Counted
    <3>2. count[idx] \in 0 .. MaxCount /\ results \in Seq(0 .. MaxCount) /\ idx \in Nat
      BY <1>1, <2>1 DEF TypeOK, Actor
    <3>3. /\ Len(results') = idx + 1 /\ results'[idx + 1] = count[idx]
          /\ \A i \in 1 .. idx : results'[i] = results[i]
      BY <3>1, <3>2, AppendFacts
    <3>4. ASSUME NEW i \in 1 .. Len(results')
          PROVE  i - 1 \in Actor /\ pc'[i - 1] = "exited" /\ results'[i] = count'[i - 1]
      <4>1. CASE i = idx + 1
        BY <2>1, <3>2, <3>3, <4>1
      <4>2. CASE i # idx + 1
        <5>1. i \in 1 .. Len(results) /\ results'[i] = results[i]
          BY <3>1, <3>2, <3>3, <4>2
        <5> QED
          BY <2>1, <5>1 DEF Final
      <4> QED
        BY <4>1, <4>2
    <3> QED
      BY <3>4 DEF Final
  <2> QED
    BY <2>2, <2>3
<1>5. CASE MainStep \/ SpawnFail \/ CallerGet \/ CallerDrop
  BY <1>2, <1>3, <1>4, <1>5
     DEF MainStep, SpawnFail, CallerGet, CallerDrop, SeedSend, SeedFail, SeedDone, UnwindSeed, UnwindDone,
         ResetCount, SendClear, EndRun, SendShutdown, JoinPanic
<1>6. ASSUME NEW a \in Actor, LoopStep(a) \/ HandlerStep(a) PROVE Final'
  <2>1. /\ results' = results /\ pc[a] # "exited"
        /\ \A c \in Actor : c # a => pc'[c] = pc[c] /\ count'[c] = count[c]
    BY <1>1, <1>6, ActorKeeps
  <2> QED
    BY <2>1 DEF Final
<1> QED
  BY <1>2, <1>5, <1>6 DEF Next, vars

LEMMA NextRewound == TypeOK /\ Rewound /\ [Next]_vars => Rewound'
<1> SUFFICES ASSUME TypeOK, Rewound, [Next]_vars PROVE Rewound'
  OBVIOUS
<1> USE DEF mainVars, actorVars, Rewound
<1>1. CASE UNCHANGED mainVars
  BY <1>1
<1>2. CASE Spawn
  <2>1. mpc = "spawn" /\ mpc' \in {"spawn", "seed"} /\ (mpc' # mpc => idx' = 0)
    BY <1>2, AdvanceTypes DEF Spawn, TypeOK
  <2> QED
    BY <2>1
<1>3. CASE SendClear
  <2>1. mpc = "clear" /\ mpc' \in {"clear", "running"} /\ (mpc' # mpc => idx' = 0)
    BY <1>3, AdvanceTypes DEF SendClear, TypeOK
  <2> QED
    BY <2>1
<1>4. CASE SendShutdown \/ Join
  <2>1. mpc' \in {"shutdown", "join", "returned"}
    BY <1>4, AdvanceTypes DEF SendShutdown, Join, TypeOK
  <2> QED
    BY <2>1
<1>5. CASE SeedSend \/ SeedDone
  BY <1>5 DEF SeedSend, SeedDone
<1>6. CASE SpawnFail \/ SeedFail \/ UnwindSeed \/ UnwindDone \/ ResetCount \/ EndRun \/ JoinPanic
  BY <1>6 DEF SpawnFail, SeedFail, UnwindSeed, UnwindDone, ResetCount, EndRun, JoinPanic
<1>7. CASE CallerGet \/ CallerDrop
  BY <1>1, <1>7 DEF CallerGet, CallerDrop
<1>8. ASSUME NEW a \in Actor, LoopStep(a) \/ HandlerStep(a) PROVE Rewound'
  BY <1>1, <1>8, ActorKeeps
<1> QED
  BY <1>1, <1>2, <1>3, <1>4, <1>5, <1>6, <1>7, <1>8 DEF Next, MainStep, vars

LEMMA NextClearsFirst == TypeOK /\ OnlyPanicsLeave /\ ClearsFirst /\ [Next]_vars => ClearsFirst'
<1> SUFFICES ASSUME TypeOK, OnlyPanicsLeave, ClearsFirst, [Next]_vars,
                    how' = "run", resets' = 0
             PROVE  /\ mpc' \notin {"clear", "shutdown", "join", "returned"}
                    /\ \A a \in Actor : ~Occurs(Shutdown, queue'[a])
  BY DEF ClearsFirst
<1> USE DEF mainVars, actorVars
<1>1. CASE Spawn
  <2>1. UNCHANGED <<queue, how, resets>> /\ mpc' \in {"spawn", "seed"}
    BY <1>1, AdvanceTypes DEF Spawn, TypeOK
  <2> QED
    BY <2>1 DEF ClearsFirst
<1>2. CASE SeedSend
  <2>1. Head(seeds).buf \in Signal /\ Head(seeds).buf # Shutdown /\ Head(seeds).dst \in Actor
    BY <1>2, HeadSeed DEF SeedSend, Deliverable, Signal
  <2>2. PICK b, d : b = Head(seeds).buf /\ d = Head(seeds).dst
    OBVIOUS
  <2>3. \A c \in Actor : Occurs(Shutdown, queue'[c]) <=> Occurs(Shutdown, queue[c])
    BY <1>2, <2>1, <2>2, AppendOccurs DEF SeedSend
  <2> QED
    BY <1>2, <2>3 DEF SeedSend, ClearsFirst
<1>3. CASE SeedFail \/ SeedDone \/ UnwindSeed \/ UnwindDone \/ SpawnFail \/ CallerGet \/ CallerDrop \/ UNCHANGED vars
  BY <1>3 DEF SeedFail, SeedDone, UnwindSeed, UnwindDone, SpawnFail, CallerGet, CallerDrop, vars, ClearsFirst
<1>4. CASE ResetCount \/ EndRun
  BY <1>4 DEF ResetCount, EndRun, TypeOK
<1>5. CASE SendClear \/ SendShutdown \/ Join \/ JoinPanic
  BY <1>5 DEF SendClear, SendShutdown, Join, JoinPanic, ClearsFirst
<1>6. ASSUME NEW a \in Actor, LoopStep(a) \/ HandlerStep(a)
      PROVE  /\ mpc' \notin {"clear", "shutdown", "join", "returned"}
             /\ \A c \in Actor : ~Occurs(Shutdown, queue'[c])
  <2>1. UNCHANGED mainVars
    BY <1>6, ActorKeeps
  <2>2. \A c \in Actor : Occurs(Shutdown, queue'[c]) => Occurs(Shutdown, queue[c])
    BY <1>6, ActorSignals
  <2> QED
    BY <2>1, <2>2 DEF ClearsFirst
<1> QED
  BY <1>1, <1>2, <1>3, <1>4, <1>5, <1>6 DEF Next, MainStep

LEMMA MeasuredInductive == Spec => []MInv
<1>1. Init => MInv
  BY InitTypes, InitLifecycle, InitOwnership, InitWarmup, InitPaced DEF MInv, IInv
<1>2. MInv /\ [Next]_vars => MInv'
  <2> SUFFICES ASSUME MInv, [Next]_vars PROVE MInv'
    OBVIOUS
  <2>1. TypeOK /\ Handling /\ Lifecycle /\ Ownership /\ Exits /\ Warmup /\ Final /\ Rewound /\ ClearsFirst
    BY DEF MInv, IInv
  <2>2. IInv'
    BY <2>1, NextTypes, NextLifecycle, NextOwnership DEF IInv, Lifecycle
  <2>3. Exits' /\ Warmup'
    BY <2>1, NextExits, NextWarmup DEF IInv, Lifecycle
  <2>4. Final' /\ Rewound' /\ ClearsFirst'
    BY <2>1, NextFinal, NextRewound, NextClearsFirst DEF MInv, Warmup
  <2> QED
    BY <2>2, <2>3, <2>4 DEF MInv
<1> QED
  BY <1>1, <1>2, PTL DEF Spec

\* run still owes actor a its ClearProbe.
ToClear(a) == how = "run" /\ (resets = 0 \/ (mpc = "clear" /\ idx <= a))

Uncleared(a) == ToClear(a) \/ Occurs(ClearProbe, queue[a])

CountReport == [a \in Actor |-> IF Stopped THEN results[a + 1] ELSE 0]

LEMMA OwingIs == TypeOK => Owing = {a \in Live : Uncleared(a)}
<1> SUFFICES ASSUME TypeOK PROVE Owing = {a \in Live : Uncleared(a)}
  OBVIOUS
<1>1. \A a \in Actor : ClearProbe \in Range(queue[a]) <=> Occurs(ClearProbe, queue[a])
  <2>1. \A a \in Actor : DOMAIN queue[a] = 1 .. Len(queue[a])
    BY DEF TypeOK
  <2> QED
    BY <2>1 DEF Range, Occurs
<1> QED
  BY <1>1 DEF Owing, Live, Uncleared, ToClear

LEMMA OwingBecomes == TypeOK' => Owing' = {a \in Live' : Uncleared(a)'}
<1>1. (TypeOK => Owing = {a \in Live : Uncleared(a)})'
  BY OwingIs, PTL
<1> QED
  BY <1>1

\* A step of which the caller's promise says nothing.
LEMMA Stutter ==
    ASSUME TypeOK, TypeOK', UNCHANGED <<count, failed>>, Live' = Live,
           \A a \in Live : Uncleared(a)' <=> Uncleared(a),
           Outcome' = Outcome, CountReport' = CountReport
    PROVE  UNCHANGED Measured!mvars
<1>1. Owing' = Owing
  BY OwingIs, OwingBecomes
<1> QED
  BY <1>1 DEF Measured!mvars, CountReport

LEMMA SameReport ==
    ASSUME Stopped' <=> Stopped, Stopped => results' = results
    PROVE  CountReport' = CountReport
<1>1. CASE Stopped
  BY <1>1 DEF CountReport
<1>2. CASE ~Stopped
  BY <1>2 DEF CountReport
<1> QED
  BY <1>1, <1>2

\* The main thread sits still: so do the outcome and the report.
LEMMA MainSits ==
    ASSUME UNCHANGED mainVars
    PROVE  /\ Outcome' = Outcome /\ CountReport' = CountReport
           /\ \A a \in Actor : ToClear(a)' <=> ToClear(a)
<1>1. Stopped' <=> Stopped
  BY DEF mainVars, Stopped
<1>2. CountReport' = CountReport
  BY <1>1, SameReport DEF mainVars
<1> QED
  BY <1>1, <1>2 DEF mainVars, Outcome, ToClear

LEMMA InitMeasured == Init => Measured!Init
<1> SUFFICES ASSUME Init PROVE Measured!Init
  OBVIOUS
<1>1. Live = Actor /\ Owing \in SUBSET Actor
  BY DEF Init, Live, Owing
<1>a. Outcome = "starting"
  <2>1. mpc = "spawn"
    BY DEF Init
  <2> QED
    BY <2>1 DEF Outcome, Stopped
<1>2. CountReport = [a \in Actor |-> 0]
  BY DEF Init, CountReport, Stopped
<1> QED
  BY <1>1, <1>a, <1>2 DEF Init, Measured!Init, Measured!Zero, CountReport

\* What an actor's thread does to the promise.
LEMMA ActorMeasured ==
    ASSUME MInv, TypeOK', NEW a \in Actor, LoopStep(a) \/ HandlerStep(a)
    PROVE  [Measured!Next]_(Measured!mvars)
<1> USE DEF actorVars
<1>1. TypeOK /\ Handling /\ Warmup /\ ClearsFirst
  BY DEF MInv, IInv
<1>2. /\ UNCHANGED mainVars /\ Outcome' = Outcome /\ CountReport' = CountReport
      /\ \A c \in Actor : ToClear(c)' <=> ToClear(c)
      /\ \A c \in Actor : c # a => (Uncleared(c)' <=> Uncleared(c))
      /\ pc[a] = "handle" \/ RecvUser(a) => (Uncleared(a)' <=> Uncleared(a))
  <2>1. UNCHANGED mainVars
    BY <1>1, ActorKeeps
  <2>2. /\ \A c \in Actor : c # a => (Occurs(ClearProbe, queue'[c]) <=> Occurs(ClearProbe, queue[c]))
        /\ pc[a] = "handle" \/ RecvUser(a) =>
              (Occurs(ClearProbe, queue'[a]) <=> Occurs(ClearProbe, queue[a]))
    BY <1>1, ActorSignals
  <2> QED
    BY <2>1, <2>2, MainSits DEF Uncleared
<1>3. Live \subseteq Actor /\ Owing \subseteq Live
  BY DEF Live, Owing
<1>4. CASE RecvUser(a)
  <2>1. Live' = Live /\ UNCHANGED <<count, failed>>
    BY <1>1, <1>4 DEF RecvUser, Ready, Live, TypeOK
  <2> QED
    BY <1>1, <1>2, <1>3, <1>4, <2>1, Stutter
<1>5. CASE RecvClear(a)
  <2>1. /\ pc[a] = "recv" /\ UNCHANGED <<pc, failed>> /\ count' = [count EXCEPT ![a] = 0]
        /\ queue[a] # <<>> /\ Head(queue[a]) = ClearProbe
    BY <1>5 DEF RecvClear, Ready, Received
  <2>2. Live' = Live /\ a \in Live
    BY <2>1 DEF Live
  <2>3. Uncleared(a)
    <3>1. queue[a] \in Seq(Signal)
      BY <1>1 DEF TypeOK
    <3> QED
      BY <2>1, <3>1, OccursTail DEF Uncleared
  <2>4. a \in Owing
    BY <1>1, <2>2, <2>3, OwingIs
  <2>5. \A c : c # a => (c \in Owing' <=> c \in Owing)
    BY <1>1, <1>2, <1>3, <2>2, OwingIs, OwingBecomes
  <2>6. Owing' \in {Owing, Owing \ {a}}
    <3>1. CASE a \in Owing'
      BY <2>4, <2>5, <3>1
    <3>2. CASE a \notin Owing'
      BY <2>4, <2>5, <3>2
    <3> QED
      BY <3>1, <3>2
  <2>7. Measured!Reset(a)
    BY <1>2, <2>1, <2>2, <2>4, <2>6 DEF Measured!Reset, CountReport
  <2> QED
    BY <2>7 DEF Measured!Next
<1>6. CASE RecvBreak(a)
  <2>1. pc[a] = "recv" /\ pc' = [pc EXCEPT ![a] = "exiting"] /\ UNCHANGED <<count, failed>>
    BY <1>6 DEF RecvBreak, Ready
  <2>2. queue[a] # <<>> /\ Head(queue[a]) = Shutdown
    <3>1. Connected(a)
      BY <2>1 DEF Connected, HoldsPeers
    <3>2. queue[a] # <<>>
      BY <1>6, <3>1 DEF RecvBreak, Ready
    <3>3. Head(queue[a]) \in {Shutdown, "Err"} /\ Head(queue[a]) \in Signal
      <4>1. queue[a] \in Seq(Signal)
        BY <1>1 DEF TypeOK
      <4> QED
        BY <1>6, <3>2, <4>1, TailFacts DEF RecvBreak, Received
    <3> QED
      BY <3>2, <3>3 DEF Signal
  <2>3. Occurs(Shutdown, queue[a]) /\ ~Occurs(ClearProbe, queue[a])
    <3>1. queue[a] \in Seq(Signal)
      BY <1>1 DEF TypeOK
    <3>2. Len(queue[a]) \in Nat \ {0} /\ queue[a][1] = Shutdown
      BY <2>2, <3>1, TailFacts
    <3>3. \A j \in 1 .. Len(queue[a]) : j # 1 => queue[a][j] # ClearProbe
      BY <1>1, <3>2 DEF Warmup, ClearFirst
    <3> QED
      BY <3>2, <3>3 DEF Occurs
  <2>4. ~ToClear(a)
    <3>1. mpc # "clear"
      BY <1>1, <2>3 DEF Warmup, OnlyPanicsLeave, Up
    <3>2. ~(how = "run" /\ resets = 0)
      BY <1>1, <2>3 DEF ClearsFirst
    <3> QED
      BY <3>1, <3>2 DEF ToClear
  <2>5. Live' = Live \ {a} /\ a \in Live
    BY <1>1, <2>1 DEF Live, TypeOK
  <2>6. a \notin Owing
    BY <1>1, <2>3, <2>4, OwingIs DEF Uncleared
  <2>7. Owing' = Owing
    BY <1>1, <1>2, <1>3, <2>5, <2>6, OwingIs, OwingBecomes
  <2>8. Measured!Stop(a)
    BY <1>2, <2>1, <2>5, <2>6, <2>7 DEF Measured!Stop, CountReport
  <2> QED
    BY <2>8 DEF Measured!Next
<1>7. CASE UnwindInbound(a) \/ DropPeers(a) \/ DropReceiver(a) \/ Discard(a) \/ Exit(a)
  <2>1. /\ UNCHANGED <<count, failed>> /\ pc[a] \in {"unwind", "exiting", "closing", "discarding"}
        /\ \/ pc' = pc
           \/ \E p \in {"exiting", "closing", "discarding", "exited"} : pc' = [pc EXCEPT ![a] = p]
    BY <1>7 DEF UnwindInbound, DropPeers, DropReceiver, Discard, Exit
  <2>2. Live' = Live /\ a \notin Live
    BY <1>1, <2>1 DEF Live, TypeOK
  <2> QED
    BY <1>1, <1>2, <1>3, <2>1, <2>2, Stutter
<1>8. CASE pc[a] # "handle" /\ DropHeld(a)
  <2>1. UNCHANGED <<count, failed, pc, queue>>
    BY <1>8 DEF DropHeld
  <2>2. Live' = Live /\ \A c \in Actor : Uncleared(c)' <=> Uncleared(c)
    BY <1>2, <2>1 DEF Live, Uncleared
  <2> QED
    BY <1>1, <1>2, <1>3, <2>1, <2>2, Stutter
<1>9. CASE \/ GetMsg(a) \/ (pc[a] = "handle" /\ DropHeld(a))
           \/ \E dst \in Actor : Send(a, dst) \/ SendClosed(a, dst)
  <2>1. UNCHANGED <<count, failed, pc>> /\ pc[a] = "handle"
    BY <1>9 DEF GetMsg, DropHeld, Send, SendClosed
  <2>2. Live' = Live
    BY <2>1 DEF Live
  <2> QED
    BY <1>1, <1>2, <1>3, <2>1, <2>2, Stutter
<1>10. CASE HandlerReturn(a)
  <2>1. /\ pc[a] = "handle" /\ pc' = [pc EXCEPT ![a] = "recv"] /\ failed' = failed
        /\ count' = [count EXCEPT ![a] = CountUp(@)]
    BY <1>10 DEF HandlerReturn
  <2>2. Live' = Live /\ a \in Live
    BY <1>1, <2>1 DEF Live, TypeOK
  <2>3. Owing' = Owing
    BY <1>1, <1>2, <1>3, <2>1, <2>2, OwingIs, OwingBecomes
  <2>4. Measured!Work(a)
    BY <1>2, <2>1, <2>2, <2>3 DEF Measured!Work, CountUp, CountReport
  <2> QED
    BY <2>4 DEF Measured!Next
<1>11. CASE HandlerPanic(a)
  <2>1. /\ pc[a] = "handle" /\ pc' = [pc EXCEPT ![a] = "unwind"] /\ failed' = failed \cup {a}
        /\ count' = count
    BY <1>11 DEF HandlerPanic
  <2>2. Live' = Live \ {a} /\ a \in Live
    BY <1>1, <2>1 DEF Live, TypeOK
  <2>3. Owing' = Owing \ {a}
    BY <1>1, <1>2, <1>3, <2>2, OwingIs, OwingBecomes
  <2>4. Measured!Fail(a)
    BY <1>2, <2>1, <2>2, <2>3 DEF Measured!Fail, CountReport
  <2> QED
    BY <2>4 DEF Measured!Next
<1> QED
  BY <1>4, <1>5, <1>6, <1>7, <1>8, <1>9, <1>10, <1>11 DEF LoopStep, HandlerStep

LEMMA NextMeasured == MInv /\ MInv' /\ [Next]_vars => [Measured!Next]_(Measured!mvars)
<1> SUFFICES ASSUME MInv, MInv', [Next]_vars PROVE [Measured!Next]_(Measured!mvars)
  OBVIOUS
<1> USE DEF actorVars
<1>1. /\ TypeOK /\ TypeOK' /\ Lifecycle /\ Exits /\ Warmup /\ Final /\ Final'
      /\ Rewound /\ Lifecycle' /\ ClearsFirst
  BY DEF MInv, IInv
<1>2. Live \subseteq Actor /\ Owing \subseteq Live
  BY DEF Live, Owing
<1>3. ASSUME NEW a \in Actor, LoopStep(a) \/ HandlerStep(a) PROVE [Measured!Next]_(Measured!mvars)
  BY <1>1, <1>3, ActorMeasured
<1>4. ASSUME UNCHANGED <<pc, queue>> PROVE Live' = Live /\ \A a \in Actor : Occurs(ClearProbe, queue'[a]) <=> Occurs(ClearProbe, queue[a])
  BY <1>4 DEF Live
<1>5. CASE CallerGet \/ CallerDrop \/ UNCHANGED vars
  <2>1. UNCHANGED mainVars /\ UNCHANGED <<pc, queue, count, failed>>
    BY <1>5 DEF CallerGet, CallerDrop, vars, mainVars
  <2>2. \A a \in Actor : Uncleared(a)' <=> Uncleared(a)
    BY <1>4, <2>1, MainSits DEF Uncleared
  <2> QED
    BY <1>1, <1>2, <1>4, <2>1, <2>2, MainSits, Stutter
<1> USE DEF mainVars
<1>6. CASE Spawn
  <2>1. /\ mpc = "spawn" /\ mpc' \in {"spawn", "seed"} /\ pc[idx] = "unborn" /\ idx \in Actor
        /\ pc' = [pc EXCEPT ![idx] = "recv"] /\ UNCHANGED <<queue, count, failed, results, how, resets>>
    BY <1>1, <1>6, AdvanceTypes DEF Spawn, TypeOK, Lifecycle, Unborn, Actor
  <2>2. Live' = Live
    BY <1>1, <2>1 DEF Live, TypeOK
  <2>3. \A a \in Actor : Uncleared(a)' <=> Uncleared(a)
    BY <2>1 DEF Uncleared, ToClear
  <2>4. Outcome' = Outcome /\ CountReport' = CountReport
    BY <2>1, SameReport DEF Outcome, Stopped
  <2> QED
    BY <1>1, <1>2, <2>1, <2>2, <2>3, <2>4, Stutter
<1>7. CASE SpawnFail \/ SeedFail \/ UnwindSeed
  <2>1. /\ mpc \in {"spawn", "seed", "unwind"} /\ mpc' = "unwind"
        /\ UNCHANGED <<pc, queue, count, failed, results, how, resets>>
    BY <1>7 DEF SpawnFail, SeedFail, UnwindSeed
  <2>2. \A a \in Actor : Uncleared(a)' <=> Uncleared(a)
    BY <1>4, <2>1 DEF Uncleared, ToClear
  <2>3. Outcome' = Outcome /\ CountReport' = CountReport
    BY <2>1, SameReport DEF Outcome, Stopped
  <2> QED
    BY <1>1, <1>2, <1>4, <2>1, <2>2, <2>3, Stutter
<1>8. CASE SeedSend
  <2>1. Head(seeds).buf \in Signal /\ Head(seeds).buf # ClearProbe /\ Head(seeds).dst \in Actor
    BY <1>1, <1>8, HeadSeed DEF SeedSend, Deliverable, Signal
  <2>2. PICK b, d : b = Head(seeds).buf /\ d = Head(seeds).dst
    OBVIOUS
  <2>3. \A c \in Actor : Occurs(ClearProbe, queue'[c]) <=> Occurs(ClearProbe, queue[c])
    BY <1>1, <1>8, <2>1, <2>2, AppendOccurs DEF SeedSend
  <2>4. mpc = "seed" /\ mpc' = "seed" /\ UNCHANGED <<pc, count, failed, results, how, resets>>
    BY <1>8 DEF SeedSend
  <2>5. Live' = Live /\ \A a \in Actor : Uncleared(a)' <=> Uncleared(a)
    BY <2>3, <2>4 DEF Live, Uncleared, ToClear
  <2>6. Outcome' = Outcome /\ CountReport' = CountReport
    BY <2>4, SameReport DEF Outcome, Stopped
  <2> QED
    BY <1>1, <1>2, <2>4, <2>5, <2>6, Stutter
<1>9. CASE SeedDone
  <2>1. mpc = "seed" /\ mpc' = "running" /\ UNCHANGED <<pc, queue, count, failed, results, how, resets>>
    BY <1>9 DEF SeedDone
  <2>2. \A a \in Actor : Uncleared(a)' <=> Uncleared(a)
    BY <1>4, <2>1 DEF Uncleared, ToClear
  <2>3. Owing' = Owing
    BY <1>1, <1>2, <1>4, <2>1, <2>2, OwingIs, OwingBecomes
  <2>4. Outcome = "starting" /\ Outcome' = "running" /\ CountReport' = CountReport
    BY <2>1, SameReport DEF Outcome, Stopped
  <2>5. Measured!Begin
    BY <1>4, <2>1, <2>3, <2>4 DEF Measured!Begin, CountReport
  <2> QED
    BY <2>5 DEF Measured!Next
<1>10. CASE UnwindDone \/ JoinPanic
  <2>1. /\ mpc' = "panicked" /\ UNCHANGED <<pc, queue, count, failed, results, how, resets, idx>>
        /\ \/ mpc = "unwind"
           \/ mpc = "join" /\ failed # {}
    BY <1>10 DEF UnwindDone, JoinPanic
  <2>2. \A a \in Actor : Uncleared(a)' <=> Uncleared(a)
    BY <1>4, <2>1 DEF Uncleared, ToClear
  <2>3. Owing' = Owing
    BY <1>1, <1>2, <1>4, <2>1, <2>2, OwingIs, OwingBecomes
  <2>4. /\ Outcome = "starting" \/ (Outcome = "running" /\ failed # {})
        /\ Outcome' = "aborted" /\ CountReport' = CountReport
    BY <2>1, SameReport DEF Outcome, Stopped
  <2>5. Measured!Abort
    BY <1>4, <2>1, <2>3, <2>4 DEF Measured!Abort, CountReport
  <2> QED
    BY <2>5 DEF Measured!Next
<1>11. CASE ResetCount
  <2>1. /\ mpc = "running" /\ mpc' = "clear" /\ UNCHANGED <<pc, queue, count, failed, results, how, idx>>
        /\ resets' = resets + 1 /\ idx = 0 /\ resets \in Nat
        /\ how = "run" => resets = 0
    BY <1>1, <1>11 DEF ResetCount, Rewound, TypeOK
  <2>2. \A a \in Actor : Uncleared(a)' <=> Uncleared(a)
    <3>1. \A a \in Actor : 0 <= a
      BY DEF Actor
    <3>2. \A a \in Actor : ToClear(a)' <=> ToClear(a)
      BY <2>1, <3>1 DEF ToClear
    <3> QED
      BY <1>4, <2>1, <3>2 DEF Uncleared
  <2>3. Outcome' = Outcome /\ CountReport' = CountReport
    BY <2>1, SameReport DEF Outcome, Stopped
  <2> QED
    BY <1>1, <1>2, <1>4, <2>1, <2>2, <2>3, Stutter
<1>12. CASE EndRun
  <2>1. /\ mpc = "running" /\ mpc' = "shutdown" /\ UNCHANGED <<pc, queue, count, failed, results, resets>>
        /\ \/ how = "run" /\ how' = "run" /\ resets = 1
           \/ how # "run" /\ how' # "run"
    BY <1>12 DEF EndRun
  <2>2. \A a \in Actor : Uncleared(a)' <=> Uncleared(a)
    BY <1>4, <2>1 DEF Uncleared, ToClear
  <2>3. Outcome' = Outcome /\ CountReport' = CountReport
    BY <2>1, SameReport DEF Outcome, Stopped
  <2> QED
    BY <1>1, <1>2, <1>4, <2>1, <2>2, <2>3, Stutter
<1>13. CASE SendShutdown
  <2>1. /\ mpc = "shutdown" /\ mpc' \in {"shutdown", "join"} /\ idx \in Actor
        /\ UNCHANGED <<pc, count, failed, results, how, resets>> /\ SendSignal(idx, Shutdown)
    BY <1>1, <1>13, AdvanceTypes DEF SendShutdown, TypeOK
  <2>2. \A c \in Actor : Occurs(ClearProbe, queue'[c]) <=> Occurs(ClearProbe, queue[c])
    BY <1>1, <2>1, AppendOccurs DEF SendSignal, Signal
  <2>3. Live' = Live /\ \A a \in Actor : Uncleared(a)' <=> Uncleared(a)
    BY <2>1, <2>2 DEF Live, Uncleared, ToClear
  <2>4. Outcome' = Outcome /\ CountReport' = CountReport
    BY <2>1, SameReport DEF Outcome, Stopped
  <2> QED
    BY <1>1, <1>2, <2>1, <2>3, <2>4, Stutter
<1>14. CASE SendClear
  <2>1. /\ mpc = "clear" /\ idx \in Actor /\ (resets # 0 \/ how # "run")
        /\ UNCHANGED <<pc, open, count, failed, results, how, resets>> /\ SendSignal(idx, ClearProbe)
        /\ \/ mpc' = "running" /\ idx + 1 = N
           \/ mpc' = "clear" /\ idx' = idx + 1
    BY <1>1, <1>14, AdvanceTypes DEF SendClear, TypeOK, ClearsFirst
  <2>2. \A c \in Actor : Occurs(ClearProbe, queue'[c]) <=>
                         Occurs(ClearProbe, queue[c]) \/ (c = idx /\ open[idx])
    BY <1>1, <2>1, AppendOccurs DEF SendSignal, Signal
  <2>3. Live' = Live /\ \A c \in Live : open[c]
    BY <1>1, <2>1 DEF Live, Exits, OpenUntilLeft
  <2>4. Outcome = "running" /\ Outcome' = "running" /\ CountReport' = CountReport
    BY <2>1, SameReport DEF Outcome, Stopped
  <2>5. PICK i \in Actor : i = idx
    BY <2>1
  <2>6. \A c \in Actor : c # i => (Uncleared(c)' <=> Uncleared(c))
    <3>1. \A c \in Actor : c \in Int /\ c < N
      BY DEF Actor
    <3>2. \A c \in Actor : c # i => (ToClear(c)' <=> ToClear(c))
      BY <2>1, <2>5, <3>1 DEF ToClear
    <3> QED
      BY <2>2, <2>5, <3>2 DEF Uncleared
  <2>7. i \in Live => Uncleared(i)'
    BY <2>2, <2>3, <2>5 DEF Uncleared
  <2>8. CASE i \in Live /\ ~Uncleared(i)
    <3>1. Owing' = Owing \cup {i}
      BY <1>1, <1>2, <2>3, <2>6, <2>7, <2>8, OwingIs, OwingBecomes
    <3>2. Measured!AskReset(i)
      BY <2>1, <2>3, <2>4, <2>8, <3>1 DEF Measured!AskReset, CountReport
    <3> QED
      BY <3>2 DEF Measured!Next
  <2>9. CASE i \notin Live \/ Uncleared(i)
    <3>1. \A c \in Live : Uncleared(c)' <=> Uncleared(c)
      BY <1>2, <2>6, <2>7, <2>9
    <3> QED
      BY <1>1, <2>1, <2>3, <2>4, <3>1, Stutter
  <2> QED
    BY <2>8, <2>9
<1>15. CASE Join
  <2>1. /\ mpc = "join" /\ mpc' \in {"join", "returned"} /\ idx \in Actor
        /\ UNCHANGED <<pc, queue, count, failed, how, resets>>
    BY <1>1, <1>15, AdvanceTypes DEF Join, TypeOK
  <2>2. \A a \in Actor : Uncleared(a)' <=> Uncleared(a)
    BY <1>4, <2>1 DEF Uncleared, ToClear
  <2>3. CASE mpc' = "join" \/ how = "drop"
    <3>1. Outcome' = Outcome /\ CountReport' = CountReport
      BY <2>1, <2>3, SameReport DEF Outcome, Stopped
    <3> QED
      BY <1>1, <1>2, <1>4, <2>1, <2>2, <3>1, Stutter
  <2>4. CASE mpc' = "returned" /\ how # "drop"
    <3>1. /\ \A a \in Actor : pc[a] = "exited"
          /\ Len(results') = N /\ failed = {}
      BY <1>1, <2>1, <2>4 DEF Lifecycle, Joined, Counted
    <3>2. Live = {}
      BY <3>1 DEF Live
    <3>3. \A a \in Actor : results'[a + 1] = count[a]
      <4>1. \A a \in Actor : a + 1 \in 1 .. N /\ (a + 1) - 1 = a
        BY DEF Actor
      <4> QED
        BY <1>1, <2>1, <3>1, <4>1 DEF Final
    <3>4. Stopped' /\ Outcome = "running" /\ Outcome' = "reported"
      BY <2>1, <2>4 DEF Outcome, Stopped
    <3>5. CountReport' = count
      <4>1. CountReport' = [a \in Actor |-> results'[a + 1]]
        BY <3>4 DEF CountReport
      <4>2. count = [a \in Actor |-> count[a]]
        BY <1>1 DEF TypeOK
      <4> QED
        BY <3>3, <4>1, <4>2
    <3>6. Owing' = Owing
      BY <1>1, <1>2, <1>4, <2>1, <2>2, OwingIs, OwingBecomes
    <3>7. Measured!Report
      BY <1>4, <2>1, <3>1, <3>2, <3>4, <3>5, <3>6 DEF Measured!Report, CountReport
    <3> QED
      BY <3>7 DEF Measured!Next
  <2> QED
    BY <2>1, <2>3, <2>4
<1> QED
  BY <1>3, <1>5, <1>6, <1>7, <1>8, <1>9, <1>10, <1>11, <1>12, <1>13, <1>14, <1>15 DEF Next, MainStep

\* The counts that stop and run return are those of Measurement, for every
\* number of actors, of resets and of messages, whatever the handlers do: each
\* counts from its own ClearProbe, none is returned while a thread runs, nor
\* if one has panicked.
THEOREM CountsAreMeasured == Spec => CountsMeasured
<1>1. MInv /\ MInv' /\ [Next]_vars => [Measured!Next]_(Measured!mvars)
  BY NextMeasured
<1> QED
  BY <1>1, InitMeasured, MeasuredInductive, PTL DEF Spec, CountsMeasured, Measured!Spec

=============================================================================
