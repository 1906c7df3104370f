----------------------- MODULE MultiThreadRuntime_proofs -----------------------
(***************************************************************************)
(* Proofs about MultiThreadRuntime: its types, and that what run returns   *)
(* is what the actors did after their ClearProbe (Measurement), for every  *)
(* number of actors, of seeds and of messages.                             *)
(*                                                                         *)
(* The invariant says how far main's loops have come with the threads, the *)
(* signals and the results.  It makes a thread that leaves its loop on     *)
(* Shutdown one that owes no reset, and the results of run the counts of   *)
(* threads that have ended for good.                                       *)
(***************************************************************************)
EXTENDS Goal2, FiniteSetTheorems, TLAPS

Queued(s, a) == s \in Range(queue[a])

\* The threads that main's first loop has not come to are those to be born;
\* the next loop begins at the first actor.
Born == /\ mpc # "panicked" =>
              \A a \in Actor : pc[a] = "unborn" <=> mpc = "spawn" /\ a >= idx
        /\ mpc = "seed" => idx = 0

\* While main is up only a thread that has ended has dropped its receiver.
OpenUntilExited ==
    mpc # "panicked" => \A a \in Actor : ~open[a] => pc[a] = "exited"

\* Main has still to send signal s to actor a.
ClearToSend(a) == mpc \in {"spawn", "seed"} \/ (mpc = "clear" /\ idx <= a)
ShutdownToSend(a) == \/ mpc \in {"spawn", "seed", "clear"}
                     \/ mpc = "shutdown" /\ idx <= a

Unsent == \A a \in Actor : /\ ClearToSend(a) => ~Queued("ClearProbe", a)
                           /\ ShutdownToSend(a) => ~Queued("Shutdown", a)

\* No ClearProbe is queued behind a Shutdown.
ClearFirst == \A a \in Actor : \A i, j \in 1 .. Len(queue[a]) :
                 i < j /\ queue[a][i] = "Shutdown" => queue[a][j] # "ClearProbe"

\* The joined actors have ended well, and their results are final.
Joined(a) == /\ pc[a] = "exited" /\ a \notin failed
             /\ results[a + 1] = [count |-> count[a], samples |-> samples[a]]
JoinedInOrder ==
    /\ mpc = "join" => Len(results) = idx /\ \A a \in Actor : a < idx => Joined(a)
    /\ mpc = "returned" => Len(results) = N /\ \A a \in Actor : Joined(a)
    /\ mpc \notin {"join", "returned", "panicked"} => results = <<>>

IInv == TypeOK /\ Born /\ OpenUntilExited /\ Unsent /\ ClearFirst /\ JoinedInOrder

-----------------------------------------------------------------------------
(* Lemmas about the channels and the loops *)

USE NAssumption, BoundsAssumption, SeedDstAssumption

\* What a sequence contains after an append, and before a tail.
LEMMA RangeAppend ==
    ASSUME NEW S, NEW q \in Seq(S), NEW x \in S
    PROVE  Range(Append(q, x)) = Range(q) \cup {x}
<1>1. /\ Len(Append(q, x)) = Len(q) + 1 /\ Len(q) \in Nat
      /\ DOMAIN q = 1 .. Len(q) /\ DOMAIN Append(q, x) = 1 .. Len(q) + 1
      /\ \A i \in 1 .. Len(q) : Append(q, x)[i] = q[i]
      /\ Append(q, x)[Len(q) + 1] = x
  OBVIOUS
<1>2. ASSUME NEW y \in Range(q) PROVE y \in Range(Append(q, x))
  BY <1>1 DEF Range
<1>3. x \in Range(Append(q, x))
  BY <1>1 DEF Range
<1>4. ASSUME NEW y \in Range(Append(q, x)) PROVE y \in Range(q) \cup {x}
  BY <1>1 DEF Range
<1> QED
  BY <1>2, <1>3, <1>4

LEMMA RangeTail ==
    ASSUME NEW S, NEW q \in Seq(S), q # <<>>
    PROVE  Range(q) = {Head(q)} \cup Range(Tail(q))
<1>1. /\ Len(q) \in Nat \ {0} /\ Len(Tail(q)) = Len(q) - 1
      /\ DOMAIN q = 1 .. Len(q) /\ DOMAIN Tail(q) = 1 .. Len(q) - 1
      /\ \A i \in 1 .. Len(q) - 1 : Tail(q)[i] = q[i + 1]
      /\ Head(q) = q[1]
  OBVIOUS
<1>2. Head(q) \in Range(q)
  BY <1>1 DEF Range
<1>3. ASSUME NEW y \in Range(Tail(q)) PROVE y \in Range(q)
  <2>1. PICK i \in 1 .. Len(q) - 1 : y = q[i + 1]
    BY <1>1, <1>3 DEF Range
  <2>2. i + 1 \in 1 .. Len(q)
    BY <1>1
  <2> QED
    BY <1>1, <2>1, <2>2 DEF Range
<1>4. ASSUME NEW y \in Range(q), y # Head(q) PROVE y \in Range(Tail(q))
  <2>1. PICK i \in 1 .. Len(q) : y = q[i]
    BY <1>1, <1>4 DEF Range
  <2>2. i - 1 \in 1 .. Len(q) - 1 /\ (i - 1) + 1 = i
    BY <1>1, <1>4, <2>1
  <2>3. Tail(q)[i - 1] = y
    BY <1>1, <2>1, <2>2
  <2> QED
    BY <1>1, <2>2, <2>3 DEF Range
<1> QED
  BY <1>2, <1>3, <1>4

\* A send adds its signal to one open channel and keeps all the others.
LEMMA EnqueueFacts ==
    ASSUME TypeOK, NEW a \in Actor, NEW s \in Signal, Enqueue(a, s)
    PROVE  /\ queue' \in [Actor -> Seq(Signal)]
           /\ \A c \in Actor, y \in Signal :
                 Queued(y, c)' <=> Queued(y, c) \/ (c = a /\ y = s /\ open[a])
<1>1. /\ queue' = [queue EXCEPT ![a] = IF open[a] THEN Append(@, s) ELSE @]
      /\ queue \in [Actor -> Seq(Signal)]
  BY DEF Enqueue, TypeOK
<1>2. queue' \in [Actor -> Seq(Signal)]
  BY <1>1
<1>3. Range(Append(queue[a], s)) = Range(queue[a]) \cup {s}
  BY <1>1, RangeAppend
<1> QED
  BY <1>1, <1>2, <1>3 DEF Queued

\* A receive takes its signal out of one channel.
LEMMA RecvFacts ==
    ASSUME TypeOK, NEW a \in Actor, NEW s, NEW to, Recv(a, s, to)
    PROVE  /\ queue' \in [Actor -> Seq(Signal)] /\ Queued(s, a)
           /\ \A c \in Actor, y \in Signal :
                 /\ Queued(y, c)' => Queued(y, c)
                 /\ Queued(y, c) => Queued(y, c)' \/ (c = a /\ y = s)
<1>1. /\ queue' = [queue EXCEPT ![a] = Tail(@)] /\ queue[a] # <<>> /\ Head(queue[a]) = s
      /\ queue \in [Actor -> Seq(Signal)]
  BY DEF Recv, TypeOK
<1>2. queue' \in [Actor -> Seq(Signal)]
  BY <1>1
<1>3. Range(queue[a]) = {s} \cup Range(Tail(queue[a]))
  BY <1>1, RangeTail
<1> QED
  BY <1>1, <1>2, <1>3 DEF Queued

LEMMA EnqueueClearFirst ==
    ASSUME TypeOK, ClearFirst, NEW a \in Actor, NEW s \in Signal, Enqueue(a, s),
           s = "ClearProbe" => ~Queued("Shutdown", a)
    PROVE  ClearFirst'
<1>1. /\ \A c \in Actor : c # a => queue'[c] = queue[c]
      /\ queue'[a] = IF open[a] THEN Append(queue[a], s) ELSE queue[a]
      /\ queue[a] \in Seq(Signal)
  BY DEF Enqueue, TypeOK
<1>2. CASE ~open[a]
  BY <1>1, <1>2 DEF ClearFirst
<1>3. CASE open[a]
  <2>1. /\ Len(queue'[a]) = Len(queue[a]) + 1 /\ Len(queue[a]) \in Nat
        /\ \A i \in 1 .. Len(queue[a]) : queue'[a][i] = queue[a][i]
        /\ queue'[a][Len(queue[a]) + 1] = s
    BY <1>1, <1>3
  <2>2. ASSUME NEW i \in 1 .. Len(queue'[a]), NEW j \in 1 .. Len(queue'[a]),
               i < j, queue'[a][i] = "Shutdown"
        PROVE  queue'[a][j] # "ClearProbe"
    <3>1. i \in 1 .. Len(queue[a]) /\ queue[a][i] = "Shutdown"
      BY <2>1, <2>2
    <3>2. Queued("Shutdown", a)
      BY <1>1, <3>1 DEF Queued, Range
    <3>3. CASE j = Len(queue[a]) + 1
      BY <2>1, <3>2, <3>3
    <3>4. CASE j # Len(queue[a]) + 1
      BY <2>1, <2>2, <3>1, <3>4 DEF ClearFirst
    <3> QED
      BY <3>3, <3>4
  <2> QED
    BY <1>1, <2>2 DEF ClearFirst
<1> QED
  BY <1>2, <1>3

LEMMA RecvClearFirst ==
    ASSUME TypeOK, ClearFirst, NEW a \in Actor, NEW s, NEW to, Recv(a, s, to)
    PROVE  ClearFirst' /\ (s = "Shutdown" => ~Queued("ClearProbe", a)')
<1>1. \A c \in Actor : c # a => queue'[c] = queue[c]
  BY DEF Recv, TypeOK
<1>2. /\ queue'[a] = Tail(queue[a]) /\ queue[a] \in Seq(Signal) /\ queue[a] # <<>>
      /\ Head(queue[a]) = s
  BY DEF Recv, TypeOK
<1> DEFINE n == Len(queue[a]) - 1
<1>3. /\ Len(queue'[a]) = n /\ n \in Nat /\ Len(queue[a]) = n + 1
      /\ \A i \in 1 .. n : queue'[a][i] = queue[a][i + 1]
      /\ s = queue[a][1] /\ DOMAIN queue'[a] = 1 .. n
  BY <1>2
<1> HIDE DEF n
<1>4. ASSUME NEW i \in 1 .. n, NEW j \in 1 .. n, i < j, queue'[a][i] = "Shutdown"
      PROVE  queue'[a][j] # "ClearProbe"
  <2>1. i + 1 \in 1 .. n + 1 /\ j + 1 \in 1 .. n + 1 /\ i + 1 < j + 1
    BY <1>3, <1>4
  <2>2. queue[a][i + 1] = "Shutdown" /\ queue'[a][j] = queue[a][j + 1]
    BY <1>3, <1>4
  <2> QED
    BY <1>3, <2>1, <2>2 DEF ClearFirst
<1>5. ASSUME s = "Shutdown", NEW j \in 1 .. n
      PROVE  queue'[a][j] # "ClearProbe"
  <2>1. /\ 1 \in 1 .. n + 1 /\ j + 1 \in 1 .. n + 1 /\ 1 < j + 1
        /\ queue'[a][j] = queue[a][j + 1]
    BY <1>3
  <2> QED
    BY <1>3, <1>5, <2>1 DEF ClearFirst
<1>6. ClearFirst'
  <2>1. \A i, j \in 1 .. Len(queue'[a]) :
           i < j /\ queue'[a][i] = "Shutdown" => queue'[a][j] # "ClearProbe"
    BY <1>3, <1>4
  <2>2. ASSUME NEW c \in Actor, c # a
        PROVE  \A i, j \in 1 .. Len(queue'[c]) :
                  i < j /\ queue'[c][i] = "Shutdown" => queue'[c][j] # "ClearProbe"
    <3>1. queue'[c] = queue[c]
      BY <1>1, <2>2
    <3> QED
      BY <3>1 DEF ClearFirst
  <2> QED
    BY <2>1, <2>2 DEF ClearFirst
<1>7. s = "Shutdown" => ~Queued("ClearProbe", a)'
  BY <1>3, <1>5 DEF Queued, Range
<1> QED
  BY <1>6, <1>7

\* Where a turn of a loop over the actors leads.
LEMMA AdvanceFacts ==
    ASSUME TypeOK, NEW next, Advance(next)
    PROVE  /\ idx' \in Actor /\ 0 \in Actor
           /\ \/ /\ mpc' = next /\ idx' = 0
                 /\ \A a \in Actor : a <= idx
              \/ mpc' = mpc /\ idx' = idx + 1
<1>1. idx \in 0 .. N - 1 /\ N \in Nat \ {0}
  BY DEF TypeOK, Actor
<1>2. CASE idx + 1 = N
  BY <1>1, <1>2 DEF Advance, Actor
<1>3. CASE idx + 1 # N
  BY <1>1, <1>3 DEF Advance, Actor
<1> QED
  BY <1>2, <1>3

-----------------------------------------------------------------------------
(* Types *)

LEMMA InitTypes == Init => TypeOK
<1> SUFFICES ASSUME Init PROVE TypeOK
  OBVIOUS
<1>1. seeds \in Seq(SeedDst)
  <2>1. PICK k \in 0 .. MaxSeeds : seeds \in [1 .. k -> SeedDst]
    BY DEF Init
  <2> QED
    BY <2>1
<1>2. 0 \in Actor /\ 0 \in 0 .. MaxCount
  BY DEF Actor
<1> QED
  BY <1>1, <1>2 DEF Init, TypeOK

LEMMA CountUpTypes == \A n \in 0 .. MaxCount : CountUp(n) \in 0 .. MaxCount
BY DEF CountUp

LEMMA NextTypes == TypeOK /\ [Next]_vars => TypeOK'
<1> SUFFICES ASSUME TypeOK, [Next]_vars PROVE TypeOK'
  OBVIOUS
<1> USE DEF mainVars, threadVars
<1>1. CASE Spawn
  <2>1. idx' \in Actor /\ mpc' \in {"spawn", "seed"}
    BY <1>1, AdvanceFacts DEF Spawn
  <2> QED
    BY <1>1, <2>1 DEF Spawn, TypeOK
<1>2. CASE SpawnFail
  <2>1. open' \in [Actor -> BOOLEAN]
    BY <1>2 DEF SpawnFail, TypeOK
  <2> QED
    BY <1>2, <2>1 DEF SpawnFail, TypeOK
<1>3. CASE SeedSend
  <2>1. /\ Head(seeds) \in Actor /\ Enqueue(Head(seeds), "User") /\ "User" \in Signal
        /\ seeds' = Tail(seeds) /\ seeds # <<>> /\ seeds \in Seq(SeedDst)
    BY <1>3 DEF SeedSend, Deliverable, Signal, TypeOK
  <2>2. queue' \in [Actor -> Seq(Signal)]
    BY <2>1, EnqueueFacts
  <2>3. seeds' \in Seq(SeedDst)
    BY <2>1
  <2> QED
    BY <1>3, <2>2, <2>3 DEF SeedSend, TypeOK
<1>4. CASE SeedFail
  BY <1>4 DEF SeedFail, TypeOK
<1>5. CASE SeedDone
  BY <1>5 DEF SeedDone, TypeOK
<1>6. CASE SendClear
  <2>1. idx' \in Actor /\ mpc' \in {"clear", "shutdown"}
    BY <1>6, AdvanceFacts DEF SendClear, Broadcast
  <2>2. idx \in Actor /\ "ClearProbe" \in Signal
    BY DEF TypeOK, Signal
  <2>3. queue' \in [Actor -> Seq(Signal)]
    BY <1>6, <2>2, EnqueueFacts DEF SendClear, Broadcast
  <2> QED
    BY <1>6, <2>1, <2>3 DEF SendClear, Broadcast, TypeOK
<1>7. CASE SendShutdown
  <2>1. idx' \in Actor /\ mpc' \in {"shutdown", "join"}
    BY <1>7, AdvanceFacts DEF SendShutdown, Broadcast
  <2>2. idx \in Actor /\ "Shutdown" \in Signal
    BY DEF TypeOK, Signal
  <2>3. queue' \in [Actor -> Seq(Signal)]
    BY <1>7, <2>2, EnqueueFacts DEF SendShutdown, Broadcast
  <2> QED
    BY <1>7, <2>1, <2>3 DEF SendShutdown, Broadcast, TypeOK
<1>8. CASE Join
  <2>1. idx' \in Actor /\ mpc' \in {"join", "returned"}
    BY <1>8, AdvanceFacts DEF Join
  <2>2. results' \in Seq([count : 0 .. MaxCount, samples : 0 .. MaxCount])
    BY <1>8 DEF Join, TypeOK
  <2> QED
    BY <1>8, <2>1, <2>2 DEF Join, TypeOK
<1>9. CASE JoinPanic
  BY <1>9 DEF JoinPanic, TypeOK
<1>10. ASSUME NEW a \in Actor, Start(a) PROVE TypeOK'
  BY <1>10 DEF Start, TypeOK
<1>11. ASSUME NEW a \in Actor, RecvUser(a) PROVE TypeOK'
  <2>1. queue' \in [Actor -> Seq(Signal)]
    BY <1>11, RecvFacts DEF RecvUser
  <2> QED
    BY <1>11, <2>1 DEF RecvUser, Recv, TypeOK
<1>12. ASSUME NEW a \in Actor, RecvClear(a) PROVE TypeOK'
  <2>1. queue' \in [Actor -> Seq(Signal)]
    BY <1>12, RecvFacts DEF RecvClear
  <2> QED
    BY <1>12, <2>1 DEF RecvClear, Recv, TypeOK
<1>13. ASSUME NEW a \in Actor, RecvShutdown(a) PROVE TypeOK'
  <2>1. queue' \in [Actor -> Seq(Signal)]
    BY <1>13, RecvFacts DEF RecvShutdown
  <2> QED
    BY <1>13, <2>1 DEF RecvShutdown, Recv, TypeOK
<1>14. ASSUME NEW a \in Actor, Exit(a) PROVE TypeOK'
  <2>1. <<>> \in Seq(Signal)
    OBVIOUS
  <2> QED
    BY <1>14, <2>1 DEF Exit, TypeOK
<1>15. ASSUME NEW a \in Actor, Return(a) PROVE TypeOK'
  <2>1. /\ count' \in [Actor -> 0 .. MaxCount]
        /\ samples' \in [Actor -> 0 .. MaxCount]
    BY <1>15, CountUpTypes DEF Return, TypeOK
  <2> QED
    BY <1>15, <2>1 DEF Return, TypeOK
<1>16. ASSUME NEW a \in Actor, Panic(a) PROVE TypeOK'
  BY <1>16 DEF Panic, TypeOK
<1>17. ASSUME NEW a \in Actor, NEW dst \in Actor, Send(a, dst) PROVE TypeOK'
  <2>1. "User" \in Signal
    BY DEF Signal
  <2>2. queue' \in [Actor -> Seq(Signal)]
    BY <1>17, <2>1, EnqueueFacts DEF Send
  <2> QED
    BY <1>17, <2>2 DEF Send, TypeOK
<1>18. CASE UNCHANGED vars
  BY <1>18 DEF vars, TypeOK
<1> QED
  BY <1>1, <1>2, <1>3, <1>4, <1>5, <1>6, <1>7, <1>8, <1>9, <1>10, <1>11, <1>12,
     <1>13, <1>14, <1>15, <1>16, <1>17, <1>18
     DEF Next, MainStep, LoopStep, HandlerStep

\* Every state of the runtime is well typed.
THEOREM TypeCorrect == Spec => []TypeOK
BY InitTypes, NextTypes, PTL DEF Spec

-----------------------------------------------------------------------------
(* The inductive invariant *)

LEMMA InitInv == Init => IInv
<1> SUFFICES ASSUME Init PROVE IInv
  OBVIOUS
<1>1. \A a \in Actor : ~Queued("ClearProbe", a) /\ ~Queued("Shutdown", a) /\ a >= 0
  BY DEF Init, Queued, Range, Actor
<1> QED
  BY <1>1, InitTypes DEF Init, IInv, Born, OpenUntilExited, Unsent, ClearFirst, JoinedInOrder

\* A step that keeps the channels keeps what is in them.
LEMMA SameQueues ==
    ASSUME queue' = queue
    PROVE  /\ ClearFirst => ClearFirst'
           /\ \A y, c : Queued(y, c)' <=> Queued(y, c)
BY DEF ClearFirst, Queued

LEMMA AppendFacts ==
    ASSUME NEW S, NEW q \in Seq(S), NEW x \in S
    PROVE  /\ Len(Append(q, x)) = Len(q) + 1 /\ Append(q, x)[Len(q) + 1] = x
           /\ \A i \in 1 .. Len(q) : Append(q, x)[i] = q[i]
OBVIOUS

LEMMA NextInv == IInv /\ [Next]_vars => IInv'
<1> SUFFICES ASSUME IInv, [Next]_vars PROVE IInv'
  OBVIOUS
<1> USE DEF mainVars, threadVars
<1>1. TypeOK /\ TypeOK' /\ Born /\ OpenUntilExited /\ Unsent /\ ClearFirst /\ JoinedInOrder
  BY NextTypes DEF IInv
<1>2. "User" \in Signal /\ "ClearProbe" \in Signal /\ "Shutdown" \in Signal
  BY DEF Signal
<1>3. CASE Spawn
  <2>1. ClearFirst' /\ \A y, c : Queued(y, c)' <=> Queued(y, c)
    BY <1>3, <1>1, SameQueues DEF Spawn
  <2>2. /\ mpc = "spawn" /\ idx \in Actor /\ idx' \in Actor /\ pc' = [pc EXCEPT ![idx] = "start"]
        /\ \/ mpc' = "seed" /\ idx' = 0 /\ \A c \in Actor : c <= idx
           \/ mpc' = "spawn" /\ idx' = idx + 1
    BY <1>3, <1>1, AdvanceFacts DEF Spawn, TypeOK
  <2>3. \A c \in Actor : pc[c] = "unborn" <=> c >= idx
    BY <1>1, <2>2 DEF Born
  <2>4. \A c \in Actor : pc'[c] = IF c = idx THEN "start" ELSE pc[c]
    BY <1>1, <2>2 DEF TypeOK
  <2>5. \A c \in Actor : pc'[c] = "unborn" <=> c >= idx + 1
    BY <2>2, <2>3, <2>4 DEF Actor
  <2>6. Born'
    BY <2>2, <2>5 DEF Born, Actor
  <2>7. OpenUntilExited'
    BY <1>3, <1>1, <2>2 DEF Spawn, TypeOK, Born, OpenUntilExited, Actor
  <2>8. Unsent'
    BY <1>1, <2>1, <2>2 DEF Unsent, ClearToSend, ShutdownToSend
  <2>9. JoinedInOrder'
    BY <1>3, <1>1, <2>2 DEF Spawn, JoinedInOrder
  <2> QED
    BY <1>1, <2>1, <2>2, <2>3, <2>4, <2>5, <2>6, <2>7, <2>8, <2>9 DEF IInv
<1>4. CASE SpawnFail
  <2>1. ClearFirst' /\ \A y, c : Queued(y, c)' <=> Queued(y, c)
    BY <1>4, <1>1, SameQueues DEF SpawnFail
  <2>2. Born' /\ OpenUntilExited' /\ JoinedInOrder'
    BY <1>4 DEF SpawnFail, Born, OpenUntilExited, JoinedInOrder
  <2>3. Unsent'
    BY <1>4, <1>1, <2>1 DEF SpawnFail, Unsent, ClearToSend, ShutdownToSend
  <2> QED
    BY <1>1, <2>1, <2>2, <2>3 DEF IInv
<1>5. CASE SeedSend
  <2>1. /\ Head(seeds) \in Actor /\ Enqueue(Head(seeds), "User")
        /\ mpc = "seed" /\ UNCHANGED <<mpc, idx, results, pc, open, count, samples, failed>>
    BY <1>5 DEF SeedSend, Deliverable
  <2>2. \A c \in Actor, y \in Signal : y # "User" => (Queued(y, c)' <=> Queued(y, c))
    BY <1>1, <1>2, <2>1, EnqueueFacts
  <2>3. ClearFirst'
    BY <1>1, <1>2, <2>1, EnqueueClearFirst
  <2>4. Born' /\ OpenUntilExited'
    BY <1>1, <2>1 DEF Born, OpenUntilExited
  <2>5. Unsent'
    BY <1>1, <1>2, <2>1, <2>2 DEF Unsent, ClearToSend, ShutdownToSend
  <2>6. JoinedInOrder'
    BY <1>1, <2>1 DEF JoinedInOrder
  <2> QED
    BY <1>1, <2>1, <2>2, <2>3, <2>4, <2>5, <2>6 DEF IInv
<1>6. CASE SeedFail
  <2>1. ClearFirst' /\ \A y, c : Queued(y, c)' <=> Queued(y, c)
    BY <1>6, <1>1, SameQueues DEF SeedFail
  <2>2. Born' /\ OpenUntilExited' /\ JoinedInOrder'
    BY <1>6 DEF SeedFail, Born, OpenUntilExited, JoinedInOrder
  <2>3. Unsent'
    BY <1>6, <1>1, <2>1 DEF SeedFail, Unsent, ClearToSend, ShutdownToSend
  <2> QED
    BY <1>1, <2>1, <2>2, <2>3 DEF IInv
<1>7. CASE SeedDone
  <2>1. ClearFirst' /\ \A y, c : Queued(y, c)' <=> Queued(y, c)
    BY <1>7, <1>1, SameQueues DEF SeedDone
  <2>2. Born' /\ OpenUntilExited' /\ JoinedInOrder'
    BY <1>7, <1>1 DEF SeedDone, Born, OpenUntilExited, JoinedInOrder
  <2>3. Unsent'
    BY <1>7, <1>1, <2>1 DEF SeedDone, Unsent, ClearToSend, ShutdownToSend
  <2> QED
    BY <1>1, <2>1, <2>2, <2>3 DEF IInv
<1>8. CASE SendClear
  <2>1. /\ mpc = "clear" /\ idx \in Actor /\ idx' \in Actor /\ Enqueue(idx, "ClearProbe")
        /\ UNCHANGED <<results, pc, open, count, samples, failed>>
        /\ \/ mpc' = "shutdown" /\ idx' = 0 /\ \A c \in Actor : c <= idx
           \/ mpc' = "clear" /\ idx' = idx + 1
    BY <1>8, <1>1, AdvanceFacts DEF SendClear, Broadcast, TypeOK
  <2>2. \A c \in Actor, y \in Signal :
          Queued(y, c)' <=> Queued(y, c) \/ (c = idx /\ y = "ClearProbe" /\ open[idx])
    BY <1>1, <1>2, <2>1, EnqueueFacts
  <2>3. ClearFirst'
    BY <1>1, <1>2, <2>1, EnqueueClearFirst DEF Unsent, ShutdownToSend
  <2>4. Born' /\ OpenUntilExited'
    BY <1>1, <2>1 DEF Born, OpenUntilExited
  <2>5. Unsent'
    BY <1>1, <1>2, <2>1, <2>2 DEF Unsent, ClearToSend, ShutdownToSend, Actor
  <2>6. JoinedInOrder'
    BY <1>1, <2>1 DEF JoinedInOrder, Actor
  <2> QED
    BY <1>1, <2>1, <2>2, <2>3, <2>4, <2>5, <2>6 DEF IInv
<1>9. CASE SendShutdown
  <2>1. /\ mpc = "shutdown" /\ idx \in Actor /\ idx' \in Actor /\ Enqueue(idx, "Shutdown")
        /\ UNCHANGED <<results, pc, open, count, samples, failed>>
        /\ \/ mpc' = "join" /\ idx' = 0 /\ \A c \in Actor : c <= idx
           \/ mpc' = "shutdown" /\ idx' = idx + 1
    BY <1>9, <1>1, AdvanceFacts DEF SendShutdown, Broadcast, TypeOK
  <2>2. \A c \in Actor, y \in Signal :
          Queued(y, c)' <=> Queued(y, c) \/ (c = idx /\ y = "Shutdown" /\ open[idx])
    BY <1>1, <1>2, <2>1, EnqueueFacts
  <2>3. ClearFirst'
    BY <1>1, <1>2, <2>1, EnqueueClearFirst
  <2>4. Born' /\ OpenUntilExited'
    BY <1>1, <2>1 DEF Born, OpenUntilExited
  <2>5. Unsent'
    BY <1>1, <1>2, <2>1, <2>2 DEF Unsent, ClearToSend, ShutdownToSend, Actor
  <2>6. JoinedInOrder'
    BY <1>1, <2>1 DEF JoinedInOrder, Actor
  <2> QED
    BY <1>1, <2>1, <2>2, <2>3, <2>4, <2>5, <2>6 DEF IInv
<1>10. CASE Join
  <2> DEFINE last == [count |-> count[idx], samples |-> samples[idx]]
  <2>1. ClearFirst' /\ \A y, c : Queued(y, c)' <=> Queued(y, c)
    BY <1>10, <1>1, SameQueues DEF Join
  <2>2. /\ mpc = "join" /\ idx \in Actor /\ idx' \in Actor
        /\ pc[idx] = "exited" /\ idx \notin failed
        /\ results' = Append(results, last)
        /\ UNCHANGED <<pc, open, count, samples, failed>>
        /\ \/ mpc' = "returned" /\ \A c \in Actor : c <= idx
           \/ mpc' = "join" /\ idx' = idx + 1
    BY <1>10, <1>1, AdvanceFacts DEF Join, TypeOK
  <2>3. Born' /\ OpenUntilExited'
    BY <1>1, <2>2 DEF Born, OpenUntilExited
  <2>4. Unsent'
    BY <1>1, <2>1, <2>2 DEF Unsent, ClearToSend, ShutdownToSend
  <2>5. Len(results) = idx /\ \A c \in Actor : c < idx => Joined(c)
    BY <1>1, <2>2 DEF JoinedInOrder
  <2>6. last \in [count : 0 .. MaxCount, samples : 0 .. MaxCount]
    BY <1>1, <2>2 DEF TypeOK
  <2>11. results \in Seq([count : 0 .. MaxCount, samples : 0 .. MaxCount])
    BY <1>1 DEF TypeOK
  <2> HIDE DEF last
  <2>7. /\ Len(results') = idx + 1 /\ results'[idx + 1] = last
        /\ \A i \in 1 .. idx : results'[i] = results[i]
    BY <2>2, <2>5, <2>6, <2>11, AppendFacts
  <2>8. ASSUME NEW c \in Actor, c <= idx PROVE Joined(c)'
    <3>1. CASE c = idx
      BY <2>2, <2>7, <3>1 DEF Joined, last
    <3>2. CASE c # idx
      <4>1. c < idx /\ c + 1 \in 1 .. idx
        BY <2>2, <2>8, <3>2 DEF Actor
      <4> QED
        BY <2>2, <2>5, <2>7, <4>1 DEF Joined
    <3> QED
      BY <3>1, <3>2
  <2>9. mpc' = "returned" => idx + 1 = N
    BY <2>2 DEF Actor
  <2>10. JoinedInOrder'
    BY <2>2, <2>7, <2>8, <2>9 DEF JoinedInOrder, Actor
  <2> QED
    BY <1>1, <2>1, <2>3, <2>4, <2>10 DEF IInv
<1>11. CASE JoinPanic
  <2>1. ClearFirst' /\ \A y, c : Queued(y, c)' <=> Queued(y, c)
    BY <1>11, <1>1, SameQueues DEF JoinPanic
  <2>2. Born' /\ OpenUntilExited' /\ JoinedInOrder'
    BY <1>11 DEF JoinPanic, Born, OpenUntilExited, JoinedInOrder
  <2>3. Unsent'
    BY <1>11, <1>1, <2>1 DEF JoinPanic, Unsent, ClearToSend, ShutdownToSend
  <2> QED
    BY <1>1, <2>1, <2>2, <2>3 DEF IInv
<1>12. ASSUME NEW a \in Actor, Start(a) PROVE IInv'
  <2>1. ClearFirst' /\ \A y, c : Queued(y, c)' <=> Queued(y, c)
    BY <1>12, <1>1, SameQueues DEF Start
  <2>2. Born'
    BY <1>12, <1>1 DEF Start, TypeOK, Born
  <2>3. OpenUntilExited'
    BY <1>12, <1>1 DEF Start, TypeOK, OpenUntilExited
  <2>4. Unsent'
    BY <1>12, <1>1, <2>1 DEF Start, TypeOK, Unsent, ClearToSend, ShutdownToSend
  <2>5. JoinedInOrder'
    BY <1>12, <1>1 DEF Start, TypeOK, JoinedInOrder, Joined
  <2> QED
    BY <1>1, <2>1, <2>2, <2>3, <2>4, <2>5 DEF IInv
<1>13. ASSUME NEW a \in Actor, RecvUser(a) PROVE IInv'
  <2>1. Recv(a, "User", "handle")
    BY <1>13 DEF RecvUser
  <2>2. \A c \in Actor, y \in Signal : Queued(y, c)' => Queued(y, c)
    BY <1>1, <2>1, RecvFacts
  <2>3. ClearFirst'
    BY <1>1, <2>1, RecvClearFirst
  <2>4. Born' /\ OpenUntilExited'
    BY <1>13, <1>1 DEF RecvUser, Recv, TypeOK, Born, OpenUntilExited
  <2>5. Unsent'
    BY <1>13, <1>1, <1>2, <2>2 DEF RecvUser, Unsent, ClearToSend, ShutdownToSend
  <2>6. JoinedInOrder'
    BY <1>13, <1>1 DEF RecvUser, Recv, TypeOK, JoinedInOrder, Joined
  <2> QED
    BY <1>1, <2>1, <2>2, <2>3, <2>4, <2>5, <2>6 DEF IInv
<1>14. ASSUME NEW a \in Actor, RecvClear(a) PROVE IInv'
  <2>1. Recv(a, "ClearProbe", "recv")
    BY <1>14 DEF RecvClear
  <2>2. \A c \in Actor, y \in Signal : Queued(y, c)' => Queued(y, c)
    BY <1>1, <2>1, RecvFacts
  <2>3. ClearFirst'
    BY <1>1, <2>1, RecvClearFirst
  <2>4. Born' /\ OpenUntilExited'
    BY <1>14, <1>1 DEF RecvClear, Recv, TypeOK, Born, OpenUntilExited
  <2>5. Unsent'
    BY <1>14, <1>1, <1>2, <2>2 DEF RecvClear, Unsent, ClearToSend, ShutdownToSend
  <2>6. JoinedInOrder'
    BY <1>14, <1>1 DEF RecvClear, Recv, TypeOK, JoinedInOrder, Joined
  <2> QED
    BY <1>1, <2>1, <2>2, <2>3, <2>4, <2>5, <2>6 DEF IInv
<1>15. ASSUME NEW a \in Actor, RecvShutdown(a) PROVE IInv'
  <2>1. Recv(a, "Shutdown", "exit")
    BY <1>15 DEF RecvShutdown
  <2>2. \A c \in Actor, y \in Signal : Queued(y, c)' => Queued(y, c)
    BY <1>1, <2>1, RecvFacts
  <2>3. ClearFirst'
    BY <1>1, <2>1, RecvClearFirst
  <2>4. Born' /\ OpenUntilExited'
    BY <1>15, <1>1 DEF RecvShutdown, Recv, TypeOK, Born, OpenUntilExited
  <2>5. Unsent'
    BY <1>15, <1>1, <1>2, <2>2 DEF RecvShutdown, Unsent, ClearToSend, ShutdownToSend
  <2>6. JoinedInOrder'
    BY <1>15, <1>1 DEF RecvShutdown, Recv, TypeOK, JoinedInOrder, Joined
  <2> QED
    BY <1>1, <2>1, <2>2, <2>3, <2>4, <2>5, <2>6 DEF IInv
<1>16. ASSUME NEW a \in Actor, Exit(a) PROVE IInv'
  <2>1. /\ queue' = [queue EXCEPT ![a] = <<>>]
        /\ UNCHANGED mainVars
    BY <1>16 DEF Exit
  <2>2. \A c \in Actor, y \in Signal : Queued(y, c)' => Queued(y, c)
    BY <1>1, <2>1 DEF TypeOK, Queued, Range
  <2>3. ClearFirst'
    BY <1>1, <2>1 DEF TypeOK, ClearFirst
  <2>4. Born' /\ OpenUntilExited'
    BY <1>16, <1>1 DEF Exit, TypeOK, Born, OpenUntilExited
  <2>5. Unsent'
    BY <1>1, <1>2, <2>1, <2>2 DEF Unsent, ClearToSend, ShutdownToSend
  <2>6. JoinedInOrder'
    BY <1>16, <1>1 DEF Exit, TypeOK, JoinedInOrder, Joined
  <2> QED
    BY <1>1, <2>1, <2>2, <2>3, <2>4, <2>5, <2>6 DEF IInv
<1>17. ASSUME NEW a \in Actor, Return(a) PROVE IInv'
  <2>1. ClearFirst' /\ \A y, c : Queued(y, c)' <=> Queued(y, c)
    BY <1>17, <1>1, SameQueues DEF Return
  <2>2. Born'
    BY <1>17, <1>1 DEF Return, TypeOK, Born
  <2>3. OpenUntilExited'
    BY <1>17, <1>1 DEF Return, TypeOK, OpenUntilExited
  <2>4. Unsent'
    BY <1>17, <1>1, <2>1 DEF Return, TypeOK, Unsent, ClearToSend, ShutdownToSend
  <2>5. JoinedInOrder'
    BY <1>17, <1>1 DEF Return, TypeOK, JoinedInOrder, Joined
  <2> QED
    BY <1>1, <2>1, <2>2, <2>3, <2>4, <2>5 DEF IInv
<1>18. ASSUME NEW a \in Actor, Panic(a) PROVE IInv'
  <2>1. ClearFirst' /\ \A y, c : Queued(y, c)' <=> Queued(y, c)
    BY <1>18, <1>1, SameQueues DEF Panic
  <2>2. Born'
    BY <1>18, <1>1 DEF Panic, TypeOK, Born
  <2>3. OpenUntilExited'
    BY <1>18, <1>1 DEF Panic, TypeOK, OpenUntilExited
  <2>4. Unsent'
    BY <1>18, <1>1, <2>1 DEF Panic, TypeOK, Unsent, ClearToSend, ShutdownToSend
  <2>5. JoinedInOrder'
    BY <1>18, <1>1 DEF Panic, TypeOK, JoinedInOrder, Joined
  <2> QED
    BY <1>1, <2>1, <2>2, <2>3, <2>4, <2>5 DEF IInv
<1>19. ASSUME NEW a \in Actor, NEW dst \in Actor, Send(a, dst) PROVE IInv'
  <2>1. Enqueue(dst, "User") /\ UNCHANGED <<mainVars, pc, open, count, samples, failed>>
    BY <1>19 DEF Send
  <2>2. \A c \in Actor, y \in Signal : y # "User" => (Queued(y, c)' <=> Queued(y, c))
    BY <1>1, <1>2, <2>1, EnqueueFacts
  <2>3. ClearFirst'
    BY <1>1, <1>2, <2>1, EnqueueClearFirst
  <2>4. Born' /\ OpenUntilExited'
    BY <1>1, <2>1 DEF Born, OpenUntilExited
  <2>5. Unsent'
    BY <1>1, <1>2, <2>1, <2>2 DEF Unsent, ClearToSend, ShutdownToSend
  <2>6. JoinedInOrder'
    BY <1>1, <2>1 DEF JoinedInOrder, Joined
  <2> QED
    BY <1>1, <2>1, <2>2, <2>3, <2>4, <2>5, <2>6 DEF IInv
<1>20. CASE UNCHANGED vars
  <2>1. ClearFirst' /\ \A y, c : Queued(y, c)' <=> Queued(y, c)
    BY <1>20, <1>1, SameQueues DEF vars
  <2>2. Born'
    BY <1>20, <1>1 DEF vars, TypeOK, Born
  <2>3. OpenUntilExited'
    BY <1>20, <1>1 DEF vars, TypeOK, OpenUntilExited
  <2>4. Unsent'
    BY <1>20, <1>1, <2>1 DEF vars, TypeOK, Unsent, ClearToSend, ShutdownToSend
  <2>5. JoinedInOrder'
    BY <1>20, <1>1 DEF vars, TypeOK, JoinedInOrder, Joined
  <2> QED
    BY <1>1, <2>1, <2>2, <2>3, <2>4, <2>5 DEF IInv
<1> QED
  BY <1>3, <1>4, <1>5, <1>6, <1>7, <1>8, <1>9, <1>10, <1>11, <1>12, <1>13, <1>14, <1>15, <1>16, <1>17, <1>18, <1>19, <1>20
     DEF Next, MainStep, LoopStep, HandlerStep

LEMMA InvAlways == Spec => []IInv
BY InitInv, NextInv, PTL DEF Spec

-----------------------------------------------------------------------------
(* What run promises *)

CountReport == Reported([a \in Actor |-> results[a + 1].count])
ProbeReport == Reported([a \in Actor |-> results[a + 1].samples])

\* A reset is owed while the ClearProbe is to be sent or waits.
LEMMA OwingIs == Owing = {a \in Live : ClearToSend(a) \/ Queued("ClearProbe", a)}
BY DEF Owing, ClearToSend, Queued

LEMMA SameReport ==
    ASSUME mpc' = "returned" <=> mpc = "returned", mpc = "returned" => results' = results
    PROVE  CountReport' = CountReport /\ ProbeReport' = ProbeReport
<1>1. CASE mpc = "returned"
  BY <1>1 DEF CountReport, ProbeReport, Reported
<1>2. CASE mpc # "returned"
  BY <1>2 DEF CountReport, ProbeReport, Reported
<1> QED
  BY <1>1, <1>2

\* A step of which the caller's promise says nothing.
LEMMA Stutter ==
    ASSUME UNCHANGED <<count, samples, failed>>,
           Live' = Live, Owing' = Owing, Outcome' = Outcome,
           CountReport' = CountReport, ProbeReport' = ProbeReport
    PROVE  UNCHANGED Counts!mvars /\ UNCHANGED Probes!mvars
BY DEF Counts!mvars, Probes!mvars, CountReport, ProbeReport

LEMMA InitMeasured == Init => Counts!Init /\ Probes!Init
<1> SUFFICES ASSUME Init PROVE Counts!Init /\ Probes!Init
  OBVIOUS
<1>1. Live = Actor /\ Owing \in SUBSET Actor /\ Outcome = "starting"
  BY DEF Init, Live, Owing, Outcome
<1>2. CountReport = [a \in Actor |-> 0] /\ ProbeReport = [a \in Actor |-> 0]
  BY DEF Init, CountReport, ProbeReport, Reported
<1> QED
  BY <1>1, <1>2 DEF Init, Counts!Init, Probes!Init, Counts!Zero, Probes!Zero,
                    CountReport, ProbeReport

Measured == [Counts!Next]_(Counts!mvars) /\ [Probes!Next]_(Probes!mvars)

LEMMA NextMeasured == IInv /\ [Next]_vars => Measured
<1> SUFFICES ASSUME IInv, [Next]_vars PROVE Measured
  OBVIOUS
<1> USE DEF mainVars, threadVars
<1>1. TypeOK /\ Born /\ OpenUntilExited /\ Unsent /\ ClearFirst /\ JoinedInOrder
  BY DEF IInv
<1>2. "User" \in Signal /\ "ClearProbe" \in Signal /\ "Shutdown" \in Signal
  BY DEF Signal
<1>3. Live \subseteq Actor /\ Owing \subseteq Live
  BY DEF Live, Owing
<1>4. CASE Spawn
  <2>1. mpc = "spawn" /\ mpc' \in {"spawn", "seed"} /\ pc[idx] = "unborn"
    <3>1. mpc = "spawn" /\ mpc' \in {"spawn", "seed"}
      BY <1>1, <1>4, AdvanceFacts DEF Spawn
    <3>2. idx \in Actor /\ idx >= idx
      BY <1>1 DEF TypeOK, Actor
    <3> QED
      BY <1>1, <3>1, <3>2 DEF Born
  <2>2. Live' = Live
    BY <1>1, <1>4, <2>1 DEF Spawn, Live, TypeOK
  <2>3. Owing' = Owing /\ Outcome' = Outcome
    BY <2>1, <2>2 DEF Owing, Outcome
  <2> QED
    BY <1>4, <2>1, <2>2, <2>3, SameReport, Stutter DEF Spawn, Measured
<1>5. CASE SpawnFail
  <2>1. Live' = Live /\ Owing' \subseteq Owing
    BY <1>5 DEF SpawnFail, Live, Owing
  <2>2. Outcome = "starting" /\ Outcome' = "aborted"
    BY <1>5 DEF SpawnFail, Outcome
  <2>3. CountReport' = CountReport /\ ProbeReport' = ProbeReport
    BY <1>5, SameReport DEF SpawnFail
  <2>4. Counts!Abort /\ Probes!Abort
    BY <1>5, <2>1, <2>2, <2>3 DEF SpawnFail, Counts!Abort, Probes!Abort, CountReport, ProbeReport
  <2> QED
    BY <2>4 DEF Measured, Counts!Next, Probes!Next
<1>6. CASE SeedSend
  <2>1. Live' = Live /\ mpc = "seed" /\ mpc' = "seed"
    BY <1>6 DEF SeedSend, Live
  <2>2. Owing' = Owing /\ Outcome' = Outcome
    BY <2>1 DEF Owing, Outcome
  <2> QED
    BY <1>6, <2>1, <2>2, SameReport, Stutter DEF SeedSend, Measured
<1>7. CASE SeedFail
  <2>1. Live' = Live /\ Owing' \subseteq Owing
    BY <1>7 DEF SeedFail, Live, Owing
  <2>2. Outcome = "starting" /\ Outcome' = "aborted"
    BY <1>7 DEF SeedFail, Outcome
  <2>3. CountReport' = CountReport /\ ProbeReport' = ProbeReport
    BY <1>7, SameReport DEF SeedFail
  <2>4. Counts!Abort /\ Probes!Abort
    BY <1>7, <2>1, <2>2, <2>3 DEF SeedFail, Counts!Abort, Probes!Abort, CountReport, ProbeReport
  <2> QED
    BY <2>4 DEF Measured, Counts!Next, Probes!Next
<1>8. CASE SeedDone
  <2>1. Live' = Live /\ idx = 0
    BY <1>1, <1>8 DEF SeedDone, Live, Born
  <2>2. Owing' = Owing
    BY <1>8, <2>1 DEF SeedDone, Owing, Live, Actor
  <2>3. Outcome = "starting" /\ Outcome' = "running"
    BY <1>8 DEF SeedDone, Outcome
  <2>4. CountReport' = CountReport /\ ProbeReport' = ProbeReport
    BY <1>8, SameReport DEF SeedDone
  <2>5. Counts!Begin /\ Probes!Begin
    BY <1>8, <2>1, <2>2, <2>3, <2>4 DEF SeedDone, Counts!Begin, Probes!Begin, CountReport, ProbeReport
  <2> QED
    BY <2>5 DEF Measured, Counts!Next, Probes!Next
<1>9. CASE SendClear
  <2>1. /\ mpc = "clear" /\ idx \in Actor /\ Enqueue(idx, "ClearProbe")
        /\ UNCHANGED <<results, pc, open, count, samples, failed>>
        /\ \/ mpc' = "shutdown" /\ \A c \in Actor : c <= idx
           \/ mpc' = "clear" /\ idx' = idx + 1
    BY <1>1, <1>9, AdvanceFacts DEF SendClear, Broadcast, TypeOK
  <2>2. \A c \in Actor : Queued("ClearProbe", c)' <=>
                         Queued("ClearProbe", c) \/ (c = idx /\ open[idx])
    BY <1>1, <1>2, <2>1, EnqueueFacts
  <2>3. Live' = Live /\ \A c \in Live : open[c]
    BY <1>1, <2>1 DEF Live, OpenUntilExited
  <2>4. \A c \in Actor : ClearToSend(c)' <=> ClearToSend(c) /\ c # idx
    BY <2>1 DEF ClearToSend, Actor
  <2>5. ClearToSend(idx)
    BY <2>1 DEF ClearToSend, Actor
  <2>6. Owing' = {c \in Live' : ClearToSend(c)' \/ Queued("ClearProbe", c)'}
    BY DEF Owing, ClearToSend, Queued
  <2>7. Owing' = Owing
    BY <1>3, <2>2, <2>3, <2>4, <2>5, <2>6, OwingIs
  <2>8. Outcome' = Outcome
    BY <2>1 DEF Outcome
  <2>9. CountReport' = CountReport /\ ProbeReport' = ProbeReport
    BY <2>1, SameReport
  <2> QED
    BY <2>1, <2>3, <2>7, <2>8, <2>9, Stutter DEF Measured
<1>10. CASE SendShutdown
  <2>1. /\ mpc = "shutdown" /\ idx \in Actor /\ Enqueue(idx, "Shutdown")
        /\ UNCHANGED <<results, pc, open, count, samples, failed>>
        /\ mpc' \in {"shutdown", "join"}
    BY <1>1, <1>10, AdvanceFacts DEF SendShutdown, Broadcast, TypeOK
  <2>2. \A c \in Actor : Queued("ClearProbe", c)' <=> Queued("ClearProbe", c)
    BY <1>1, <1>2, <2>1, EnqueueFacts
  <2>3. Live' = Live
    BY <2>1 DEF Live
  <2>4. \A c \in Actor : ~ClearToSend(c) /\ ~ClearToSend(c)'
    BY <2>1 DEF ClearToSend
  <2>5. Owing' = {c \in Live' : ClearToSend(c)' \/ Queued("ClearProbe", c)'}
    BY DEF Owing, ClearToSend, Queued
  <2>6. Owing' = Owing
    BY <1>3, <2>2, <2>3, <2>4, <2>5, OwingIs
  <2>7. Outcome' = Outcome
    BY <2>1 DEF Outcome
  <2>8. CountReport' = CountReport /\ ProbeReport' = ProbeReport
    BY <2>1, SameReport
  <2> QED
    BY <2>1, <2>3, <2>6, <2>7, <2>8, Stutter DEF Measured
<1>11. CASE Join
  <2>1. /\ mpc = "join" /\ idx \in Actor /\ queue' = queue
        /\ UNCHANGED <<pc, open, count, samples, failed>>
        /\ \/ mpc' = "returned" /\ \A c \in Actor : c <= idx
           \/ mpc' = "join" /\ idx' = idx + 1
    BY <1>1, <1>11, AdvanceFacts DEF Join, TypeOK
  <2>2. Live' = Live
    BY <2>1 DEF Live
  <2>3. Owing' = Owing
    BY <2>1, <2>2 DEF Owing
  <2>4. CASE mpc' = "join"
    <3>1. Outcome' = Outcome
      BY <2>1, <2>4 DEF Outcome
    <3>2. CountReport' = CountReport /\ ProbeReport' = ProbeReport
      BY <2>1, <2>4, SameReport
    <3> QED
      BY <2>1, <2>2, <2>3, <3>1, <3>2, Stutter DEF Measured
  <2>5. CASE mpc' = "returned"
    <3>1. JoinedInOrder'
      BY <1>1, NextInv DEF IInv
    <3>2. \A c \in Actor : /\ pc[c] = "exited" /\ c \notin failed
                           /\ results'[c + 1] = [count |-> count[c], samples |-> samples[c]]
      BY <2>1, <2>5, <3>1 DEF JoinedInOrder, Joined
    <3>3. Live = {} /\ failed = {}
      BY <1>1, <3>2 DEF Live, TypeOK
    <3>4. CountReport' = count /\ ProbeReport' = samples
      <4>1. ASSUME NEW c \in Actor
            PROVE  results'[c + 1].count = count[c] /\ results'[c + 1].samples = samples[c]
        <5>1. results'[c + 1] = [count |-> count[c], samples |-> samples[c]]
          BY <3>2
        <5> QED
          BY ONLY <5>1
      <4>2. /\ CountReport' = [c \in Actor |-> results'[c + 1].count]
            /\ ProbeReport' = [c \in Actor |-> results'[c + 1].samples]
        BY <2>5 DEF CountReport, ProbeReport, Reported
      <4>3. /\ count = [c \in Actor |-> count[c]]
            /\ samples = [c \in Actor |-> samples[c]]
        BY <1>1 DEF TypeOK
      <4> QED
        BY <4>1, <4>2, <4>3
    <3>5. Outcome = "running" /\ Outcome' = "reported"
      BY <2>1, <2>5 DEF Outcome
    <3>6. Counts!Report /\ Probes!Report
      BY <2>1, <2>2, <2>3, <3>3, <3>4, <3>5
         DEF Counts!Report, Probes!Report, CountReport, ProbeReport
    <3> QED
      BY <3>6 DEF Measured, Counts!Next, Probes!Next
  <2> QED
    BY <2>1, <2>4, <2>5
<1>12. CASE JoinPanic
  <2>1. Live' = Live /\ Owing' \subseteq Owing
    BY <1>12 DEF JoinPanic, Live, Owing
  <2>2. Outcome = "running" /\ Outcome' = "aborted" /\ failed # {}
    BY <1>12 DEF JoinPanic, Outcome
  <2>3. CountReport' = CountReport /\ ProbeReport' = ProbeReport
    BY <1>12, SameReport DEF JoinPanic
  <2>4. Counts!Abort /\ Probes!Abort
    BY <1>12, <2>1, <2>2, <2>3 DEF JoinPanic, Counts!Abort, Probes!Abort, CountReport, ProbeReport
  <2> QED
    BY <2>4 DEF Measured, Counts!Next, Probes!Next
<1>13. ASSUME NEW a \in Actor, Start(a) PROVE Measured
  <2>1. Live' = Live
    BY <1>1, <1>13 DEF Start, Live, TypeOK
  <2>2. Owing' = Owing /\ Outcome' = Outcome
    BY <1>13, <2>1 DEF Start, Owing, Outcome
  <2>3. CountReport' = CountReport /\ ProbeReport' = ProbeReport
    BY <1>13, SameReport DEF Start
  <2> QED
    BY <1>13, <2>1, <2>2, <2>3, Stutter DEF Start, Measured
<1>14. ASSUME NEW a \in Actor, RecvUser(a) PROVE Measured
  <2>1. /\ Recv(a, "User", "handle") /\ UNCHANGED <<mainVars, open, count, samples, failed>>
    BY <1>14 DEF RecvUser
  <2>2. \A c \in Actor : Queued("ClearProbe", c)' <=> Queued("ClearProbe", c)
    BY <1>1, <1>2, <2>1, RecvFacts
  <2>3. Live' = Live
    BY <1>1, <2>1 DEF Recv, Live, TypeOK
  <2>4. Owing' = {c \in Live' : ClearToSend(c)' \/ Queued("ClearProbe", c)'}
    BY DEF Owing, ClearToSend, Queued
  <2>5. Owing' = Owing
    BY <1>3, <2>1, <2>2, <2>3, <2>4, OwingIs DEF ClearToSend
  <2>6. Outcome' = Outcome
    BY <2>1 DEF Outcome
  <2>7. CountReport' = CountReport /\ ProbeReport' = ProbeReport
    BY <2>1, SameReport
  <2> QED
    BY <2>1, <2>3, <2>5, <2>6, <2>7, Stutter DEF Measured
<1>15. ASSUME NEW a \in Actor, RecvClear(a) PROVE Measured
  <2>1. /\ Recv(a, "ClearProbe", "recv") /\ UNCHANGED <<mainVars, open, failed>>
        /\ count' = [count EXCEPT ![a] = 0] /\ samples' = [samples EXCEPT ![a] = 0]
    BY <1>15 DEF RecvClear
  <2>2. /\ Queued("ClearProbe", a)
        /\ \A c \in Actor : c # a => (Queued("ClearProbe", c)' <=> Queued("ClearProbe", c))
    BY <1>1, <1>2, <2>1, RecvFacts
  <2>3. Live' = Live /\ a \in Live
    BY <1>1, <2>1 DEF Recv, Live, TypeOK
  <2>4. Owing' = {c \in Live' : ClearToSend(c)' \/ Queued("ClearProbe", c)'}
    BY DEF Owing, ClearToSend, Queued
  <2>5. ~ClearToSend(a)
    BY <1>1, <2>2 DEF Unsent
  <2>6. a \in Owing /\ Owing' \in {Owing, Owing \ {a}}
    <3>1. \A c \in Actor : ClearToSend(c)' <=> ClearToSend(c)
      BY <2>1 DEF ClearToSend
    <3>2. \A c : c # a => (c \in Owing' <=> c \in Owing)
      BY <1>3, <2>2, <2>3, <2>4, <3>1, OwingIs
    <3>3. a \in Owing
      BY <2>2, <2>3, OwingIs
    <3>4. CASE a \in Owing'
      BY <3>2, <3>3, <3>4
    <3>5. CASE a \notin Owing'
      BY <3>2, <3>3, <3>5
    <3> QED
      BY <3>3, <3>4, <3>5
  <2>7. Outcome' = Outcome
    BY <2>1 DEF Outcome
  <2>8. CountReport' = CountReport /\ ProbeReport' = ProbeReport
    BY <2>1, SameReport
  <2>9. Counts!Reset(a) /\ Probes!Reset(a)
    BY <2>1, <2>3, <2>6, <2>7, <2>8 DEF Counts!Reset, Probes!Reset, CountReport, ProbeReport
  <2> QED
    BY <2>9 DEF Measured, Counts!Next, Probes!Next
<1>16. ASSUME NEW a \in Actor, RecvShutdown(a) PROVE Measured
  <2>1. Recv(a, "Shutdown", "exit") /\ UNCHANGED <<mainVars, open, count, samples, failed>>
    BY <1>16 DEF RecvShutdown
  <2>2. /\ Queued("Shutdown", a)
        /\ \A c \in Actor : Queued("ClearProbe", c)' <=> Queued("ClearProbe", c)
    BY <1>1, <1>2, <2>1, RecvFacts
  <2>3. ~Queued("ClearProbe", a)
    BY <1>1, <2>1, <2>2, RecvClearFirst
  <2>4. Live' = Live \ {a} /\ a \in Live
    BY <1>1, <2>1 DEF Recv, Live, TypeOK
  <2>5. ~ClearToSend(a)
    BY <1>1, <2>2 DEF Unsent, ClearToSend, ShutdownToSend
  <2>6. a \notin Owing
    BY <2>3, <2>5, OwingIs
  <2>7. Owing' = {c \in Live' : ClearToSend(c)' \/ Queued("ClearProbe", c)'}
    BY DEF Owing, ClearToSend, Queued
  <2>8. \A c \in Actor : ClearToSend(c)' <=> ClearToSend(c)
    BY <2>1 DEF ClearToSend
  <2>9. Owing' = Owing
    BY <1>3, <2>2, <2>4, <2>6, <2>7, <2>8, OwingIs
  <2>10. Outcome' = Outcome
    BY <2>1 DEF Outcome
  <2>11. CountReport' = CountReport /\ ProbeReport' = ProbeReport
    BY <2>1, SameReport
  <2>12. Counts!Stop(a) /\ Probes!Stop(a)
    BY <2>1, <2>4, <2>6, <2>9, <2>10, <2>11 DEF Counts!Stop, Probes!Stop, CountReport, ProbeReport
  <2> QED
    BY <2>12 DEF Measured, Counts!Next, Probes!Next
<1>17. ASSUME NEW a \in Actor, Exit(a) PROVE Measured
  <2>1. /\ pc[a] = "exit" /\ queue' = [queue EXCEPT ![a] = <<>>]
        /\ pc' = [pc EXCEPT ![a] = "exited"] /\ UNCHANGED <<mainVars, count, samples, failed>>
    BY <1>17 DEF Exit
  <2>2. Live' = Live /\ a \notin Live
    BY <1>1, <2>1 DEF Live, TypeOK
  <2>3. \A c \in Live : queue'[c] = queue[c]
    BY <1>1, <1>3, <2>1, <2>2 DEF TypeOK
  <2>4. Owing' = Owing /\ Outcome' = Outcome
    BY <2>1, <2>2, <2>3 DEF Owing, Outcome
  <2>5. CountReport' = CountReport /\ ProbeReport' = ProbeReport
    BY <2>1, SameReport
  <2> QED
    BY <2>1, <2>2, <2>4, <2>5, Stutter DEF Measured
<1>18. ASSUME NEW a \in Actor, Return(a) PROVE Measured
  <2>1. Live' = Live /\ a \in Live
    BY <1>1, <1>18 DEF Return, Live, TypeOK
  <2>2. Owing' = Owing /\ Outcome' = Outcome
    BY <1>18, <2>1 DEF Return, Owing, Outcome
  <2>3. CountReport' = CountReport /\ ProbeReport' = ProbeReport
    BY <1>18, SameReport DEF Return
  <2>4. Counts!Work(a) /\ Probes!Work(a)
    BY <1>18, <2>1, <2>2, <2>3
       DEF Return, CountUp, Counts!Work, Probes!Work, CountReport, ProbeReport
  <2> QED
    BY <2>4 DEF Measured, Counts!Next, Probes!Next
<1>19. ASSUME NEW a \in Actor, Panic(a) PROVE Measured
  <2>1. Live' = Live \ {a} /\ a \in Live
    BY <1>1, <1>19 DEF Panic, Live, TypeOK
  <2>2. Owing' = Owing \ {a} /\ Outcome' = Outcome
    BY <1>19, <2>1 DEF Panic, Owing, Outcome
  <2>3. CountReport' = CountReport /\ ProbeReport' = ProbeReport
    BY <1>19, SameReport DEF Panic
  <2>4. Counts!Fail(a) /\ Probes!Fail(a)
    BY <1>19, <2>1, <2>2, <2>3 DEF Panic, Counts!Fail, Probes!Fail, CountReport, ProbeReport
  <2> QED
    BY <2>4 DEF Measured, Counts!Next, Probes!Next
<1>20. ASSUME NEW a \in Actor, NEW dst \in Actor, Send(a, dst) PROVE Measured
  <2>1. Enqueue(dst, "User") /\ UNCHANGED <<mainVars, pc, open, count, samples, failed>>
    BY <1>20 DEF Send
  <2>2. \A c \in Actor : Queued("ClearProbe", c)' <=> Queued("ClearProbe", c)
    BY <1>1, <1>2, <2>1, EnqueueFacts
  <2>3. Live' = Live
    BY <2>1 DEF Live
  <2>4. Owing' = {c \in Live' : ClearToSend(c)' \/ Queued("ClearProbe", c)'}
    BY DEF Owing, ClearToSend, Queued
  <2>5. Owing' = Owing
    BY <1>3, <2>1, <2>2, <2>3, <2>4, OwingIs DEF ClearToSend
  <2>6. Outcome' = Outcome
    BY <2>1 DEF Outcome
  <2>7. CountReport' = CountReport /\ ProbeReport' = ProbeReport
    BY <2>1, SameReport
  <2> QED
    BY <2>1, <2>3, <2>5, <2>6, <2>7, Stutter DEF Measured
<1>21. CASE UNCHANGED vars
  <2>1. Live' = Live /\ Owing' = Owing /\ Outcome' = Outcome
    BY <1>21 DEF vars, Live, Owing, Outcome
  <2>2. CountReport' = CountReport /\ ProbeReport' = ProbeReport
    BY <1>21, SameReport DEF vars
  <2> QED
    BY <1>21, <2>1, <2>2, Stutter DEF vars, Measured
<1> QED
  BY <1>4, <1>5, <1>6, <1>7, <1>8, <1>9, <1>10, <1>11, <1>12, <1>13, <1>14, <1>15,
     <1>16, <1>17, <1>18, <1>19, <1>20, <1>21 DEF Next, MainStep, LoopStep, HandlerStep

\* run reports for every actor the messages it handled after its own
\* ClearProbe, and reports only if no thread failed: the message counts
\* implement Measurement for every number of actors and of seeds.
THEOREM CountsAreMeasured == Spec => CountsMeasured
BY InitMeasured, NextMeasured, InvAlways, PTL DEF Spec, CountsMeasured, Counts!Spec, Measured

\* The same for the records in the actors' probes.
THEOREM ProbesAreMeasured == Spec => ProbesMeasured
BY InitMeasured, NextMeasured, InvAlways, PTL DEF Spec, ProbesMeasured, Probes!Spec, Measured

-----------------------------------------------------------------------------
(* goal2: the one message between two actors *)

USE PeerAssumption

\* At place i of actor a is a message whose answer is still to come: in the
\* channel, or (place 0) under way in the handler.
InChannel(a, i) == i \in DOMAIN queue[a] /\ queue[a][i] = "User"
Owes(a) == pc[a] = "handle" /\ a \notin replied
At(a, i) == InChannel(a, i) \/ (i = 0 /\ Owes(a))

NoneAt == \A a \in Actor, i \in Nat : ~At(a, i)
OneAt == \A a, b \in Actor, i, j \in Nat : At(a, i) /\ At(b, j) => a = b /\ i = j
AllOpen == \A a \in Actor : open[a]
Carried == OneAt /\ (AllOpen => \E a \in Actor, i \in Nat : At(a, i))

\* The seed is still to be sent and every thread runs, or it is on its way.
Flight ==
    goal2 => /\ replied \subseteq {a \in Actor : pc[a] = "handle"}
             /\ \/ /\ seeds = <<0>> /\ mpc \in {"spawn", "seed"} /\ NoneAt
                   /\ \A a \in Actor : pc[a] \notin {"exit", "exited"}
                \/ seeds = <<>> /\ mpc # "spawn" /\ Carried

GInv == IInv /\ Flight

LEMMA InFlightIs ==
    ASSUME TypeOK
    PROVE  \A x : x \in InFlight <=> \E a \in Actor, i \in Nat : x = <<a, i>> /\ At(a, i)
<1>1. ASSUME NEW a \in Actor, NEW i \in DOMAIN queue[a] PROVE i \in Nat
  BY <1>1 DEF TypeOK
<1>2. ASSUME NEW x \in InFlight PROVE \E a \in Actor, i \in Nat : x = <<a, i>> /\ At(a, i)
  BY <1>1, <1>2 DEF InFlight, At, InChannel, Owes
<1>3. ASSUME NEW a \in Actor, NEW i \in Nat, At(a, i) PROVE <<a, i>> \in InFlight
  BY <1>3 DEF InFlight, At, InChannel, Owes
<1> QED
  BY <1>2, <1>3

\* A step that leaves all messages where they are.
LEMMA SameAt ==
    ASSUME \A a \in Actor, i \in Nat : At(a, i)' <=> At(a, i), UNCHANGED open
    PROVE  (NoneAt => NoneAt') /\ (Carried => Carried')
BY DEF NoneAt, Carried, OneAt, AllOpen

LEMMA SameChannels == ASSUME UNCHANGED queue PROVE \A a, i : InChannel(a, i)' <=> InChannel(a, i)
BY DEF InChannel

\* A step that takes the first signal of a channel: what is behind it moves up.
LEMMA ShiftAt ==
    ASSUME NEW a \in Actor, ~At(a, 0), \A i \in Nat : At(a, i)' <=> At(a, i + 1),
           \A c \in Actor, i \in Nat : c # a => (At(c, i)' <=> At(c, i)), UNCHANGED open
    PROVE  (NoneAt => NoneAt') /\ (Carried => Carried')
<1>1. NoneAt => NoneAt'
  BY DEF NoneAt
<1>2. ASSUME OneAt PROVE OneAt'
  <2> SUFFICES ASSUME NEW b \in Actor, NEW c \in Actor, NEW i \in Nat, NEW j \in Nat,
                      At(b, i)', At(c, j)'
               PROVE  b = c /\ i = j
    BY DEF OneAt
  <2>1. i + 1 \in Nat /\ j + 1 \in Nat /\ i + 1 # 0 /\ j + 1 # 0
    OBVIOUS
  <2>2. CASE b = a /\ c = a
    <3>1. At(a, i + 1) /\ At(a, j + 1)
      BY <2>2
    <3>2. i + 1 = j + 1
      BY <1>2, <2>1, <3>1 DEF OneAt
    <3> QED
      BY <2>2, <3>2
  <2>3. CASE b = a /\ c # a
    BY <1>2, <2>1, <2>3 DEF OneAt
  <2>4. CASE b # a /\ c = a
    BY <1>2, <2>1, <2>4 DEF OneAt
  <2>5. CASE b # a /\ c # a
    BY <1>2, <2>5 DEF OneAt
  <2> QED
    BY <2>2, <2>3, <2>4, <2>5
<1>3. ASSUME NEW c \in Actor, NEW i \in Nat, At(c, i)
      PROVE  \E d \in Actor, j \in Nat : At(d, j)'
  <2>1. CASE c # a
    BY <1>3, <2>1
  <2>2. CASE c = a
    <3>1. i - 1 \in Nat /\ (i - 1) + 1 = i
      BY <1>3, <2>2
    <3>2. At(a, i - 1)'
      BY <1>3, <2>2, <3>1
    <3> QED
      BY <3>1, <3>2
  <2> QED
    BY <2>1, <2>2
<1> QED
  BY <1>1, <1>2, <1>3 DEF Carried, AllOpen

LEMMA EnqueueAt ==
    ASSUME TypeOK, NEW a \in Actor, NEW s \in Signal, Enqueue(a, s)
    PROVE  /\ Len(queue[a]) + 1 \in Nat
           /\ \A c \in Actor, i \in Nat :
                InChannel(c, i)' <=>
                  InChannel(c, i) \/ (c = a /\ i = Len(queue[a]) + 1 /\ s = "User" /\ open[a])
<1>1. /\ \A c \in Actor : c # a => queue'[c] = queue[c]
      /\ queue'[a] = IF open[a] THEN Append(queue[a], s) ELSE queue[a]
      /\ queue[a] \in Seq(Signal)
  BY DEF Enqueue, TypeOK
<1> DEFINE q == queue[a]
           n == Len(q)
           r == Append(q, s)
<1>2. /\ n \in Nat /\ DOMAIN q = 1 .. n /\ DOMAIN r = 1 .. n + 1
      /\ \A i \in 1 .. n : r[i] = q[i]
      /\ r[n + 1] = s
  BY <1>1
<1>3. queue'[a] = IF open[a] THEN r ELSE q
  BY <1>1
<1>4. ASSUME NEW i \in Nat
      PROVE  InChannel(a, i)' <=> InChannel(a, i) \/ (i = n + 1 /\ s = "User" /\ open[a])
  <2>1. InChannel(a, i) <=> i \in DOMAIN q /\ q[i] = "User"
    BY DEF InChannel
  <2>2. InChannel(a, i)' <=> i \in DOMAIN queue'[a] /\ queue'[a][i] = "User"
    BY DEF InChannel
  <2> HIDE DEF q, n, r
  <2>3. CASE ~ open[a]
    BY <1>3, <2>1, <2>2, <2>3
  <2>4. CASE open[a]
    <3>1. queue'[a] = r
      BY <1>3, <2>4
    <3>2. CASE i \in 1 .. n
      BY <1>2, <2>1, <2>2, <3>1, <3>2
    <3>3. CASE i \notin 1 .. n
      BY <1>2, <2>1, <2>2, <2>4, <3>1, <3>3
    <3> QED
      BY <3>2, <3>3
  <2> QED
    BY <2>3, <2>4
<1>5. ASSUME NEW c \in Actor, NEW i \in Nat, c # a PROVE InChannel(c, i)' <=> InChannel(c, i)
  BY <1>1, <1>5 DEF InChannel
<1> QED
  BY <1>2, <1>4, <1>5

\* A signal that is not a message changes nothing.
LEMMA SignalAt ==
    ASSUME TypeOK, NEW a \in Actor, NEW s \in Signal, s # "User", Enqueue(a, s),
           UNCHANGED <<pc, open, replied>>
    PROVE  (NoneAt => NoneAt') /\ (Carried => Carried')
<1>1. \A c \in Actor, i \in Nat : At(c, i)' <=> At(c, i)
  BY EnqueueAt DEF At, Owes
<1> QED
  BY <1>1, SameAt

LEMMA RecvAt ==
    ASSUME TypeOK, NEW a \in Actor, NEW s, NEW to, Recv(a, s, to), to = "handle" <=> s = "User",
           a \notin replied, UNCHANGED <<open, replied>>
    PROVE  (NoneAt => NoneAt') /\ (Carried => Carried')
<1>1. /\ \A c \in Actor : c # a => queue'[c] = queue[c] /\ pc'[c] = pc[c]
      /\ queue'[a] = Tail(queue[a]) /\ queue[a] \in Seq(Signal) /\ queue[a] # <<>>
      /\ Head(queue[a]) = s /\ pc[a] = "recv" /\ pc'[a] = to
  BY DEF Recv, TypeOK
<1> DEFINE q == queue[a]
           n == Len(q) - 1
           t == Tail(q)
<1>2. /\ n \in Nat /\ DOMAIN q = 1 .. n + 1 /\ DOMAIN t = 1 .. n
      /\ \A i \in 1 .. n : t[i] = q[i + 1]
      /\ q[1] = s
  BY <1>1
<1>3. queue'[a] = t /\ queue[a] = q
  BY <1>1
<1> HIDE DEF q, n, t
<1>4. ASSUME NEW i \in Nat PROVE At(a, i)' <=> At(a, i + 1)
  <2>1. At(a, i + 1) <=> i + 1 \in 1 .. n + 1 /\ q[i + 1] = "User"
    BY <1>2, <1>3 DEF At, InChannel
  <2>2. At(a, i)' <=> \/ i \in 1 .. n /\ t[i] = "User"
                      \/ i = 0 /\ to = "handle"
    BY <1>1, <1>2, <1>3 DEF At, InChannel, Owes
  <2>3. CASE i = 0
    BY <1>2, <2>1, <2>2, <2>3
  <2>4. CASE i # 0
    BY <1>2, <2>1, <2>2, <2>4
  <2> QED
    BY <2>3, <2>4
<1>5. ~At(a, 0)
  BY <1>1, <1>2, <1>3 DEF At, InChannel, Owes
<1>6. ASSUME NEW c \in Actor, NEW i \in Nat, c # a PROVE At(c, i)' <=> At(c, i)
  BY <1>1, <1>6 DEF At, InChannel, Owes
<1> QED
  BY <1>4, <1>5, <1>6, ShiftAt

\* goal2 only does what the runtime lets any actors and any caller do.
LEMMA GoalIsRuntime == [GNext]_gvars => [Next]_vars
<1> SUFFICES ASSUME [GNext]_gvars PROVE [Next]_vars
  OBVIOUS
<1>1. ASSUME NEW a \in Actor, PingPong(a) PROVE Next
  <2>1. peer_id[a] \in Actor
    OBVIOUS
  <2>2. HandlerStep(a)
    BY <1>1, <2>1 DEF PingPong, Reply, GReturn, HandlerStep
  <2> QED
    BY <2>2 DEF Next
<1>2. ASSUME NEW a \in Actor, GLoop(a) \/ AnyHandler(a) PROVE Next
  BY <1>2 DEF GLoop, AnyHandler, Next
<1> QED
  BY <1>1, <1>2 DEF GNext, GMain, Calibrate, Next, gvars

LEMMA InitFlight == GInit => Flight
<1> SUFFICES ASSUME GInit, goal2 PROVE Flight
  BY DEF Flight
<1>1. NoneAt
  BY DEF GInit, Init, NoneAt, At, InChannel, Owes
<1> QED
  BY <1>1 DEF GInit, Init, Flight

\* The seed makes one message of none.
LEMMA SeedAt ==
    ASSUME TypeOK, NoneAt, NEW a \in Actor, open[a], Enqueue(a, "User"),
           UNCHANGED <<pc, open, replied>>
    PROVE  Carried'
<1> DEFINE n == Len(queue[a]) + 1
<1>1. n \in Nat /\ "User" \in Signal
  BY EnqueueAt DEF Signal
<1>2. \A c \in Actor, i \in Nat : At(c, i)' <=> c = a /\ i = n
  BY <1>1, EnqueueAt DEF NoneAt, At, Owes
<1> HIDE DEF n
<1> QED
  BY <1>1, <1>2 DEF Carried, OneAt

\* A reply is the message that it answers, one hop on; it is lost if the
\* peer has stopped.
LEMMA ReplyAt ==
    ASSUME TypeOK, Carried, NEW a \in Actor, Reply(a)
    PROVE  Carried'
<1> DEFINE dst == peer_id[a]
<1>1. /\ a \notin replied /\ replied' = replied \cup {a} /\ pc[a] = "handle" /\ dst \in Actor
      /\ Enqueue(dst, "User") /\ UNCHANGED <<pc, open>>
  BY DEF Reply, Send
<1>2. "User" \in Signal
  BY DEF Signal
<1> HIDE DEF dst
<1>3. PICK n \in Nat : n = Len(queue[dst]) + 1
  BY <1>1, <1>2, EnqueueAt
<1>4. \A c \in Actor, i \in Nat :
        InChannel(c, i)' <=> InChannel(c, i) \/ (c = dst /\ i = n /\ open[dst])
  BY <1>1, <1>2, <1>3, EnqueueAt
<1>5. At(a, 0) /\ 0 \in Nat
  BY <1>1 DEF At, Owes
<1>6. \A c \in Actor, i \in Nat : At(c, i) => c = a /\ i = 0
  BY <1>5 DEF Carried, OneAt
<1>7. ASSUME NEW c \in Actor, NEW i \in Nat, At(c, i)'
      PROVE  c = dst /\ i = n /\ open[dst]
  <2>1. CASE InChannel(c, i)'
    <3>1. CASE InChannel(c, i)
      <4>1. c = a /\ i = 0
        BY <1>6, <3>1 DEF At
      <4>2. 0 \notin DOMAIN queue[a]
        BY DEF TypeOK
      <4> QED
        BY <3>1, <4>1, <4>2 DEF InChannel
    <3> QED
      BY <1>4, <2>1, <3>1
  <2>2. CASE i = 0 /\ Owes(c)'
    <3>1. Owes(c) /\ c # a
      BY <1>1, <2>2 DEF Owes
    <3> QED
      BY <1>6, <2>2, <3>1 DEF At
  <2> QED
    BY <1>7, <2>1, <2>2 DEF At
<1>8. open[dst] => At(dst, n)'
  BY <1>1, <1>3, <1>4 DEF At
<1> QED
  BY <1>1, <1>3, <1>7, <1>8 DEF Carried, OneAt, AllOpen

LEMMA NextFlight ==
    ASSUME IInv, Flight, [GNext]_gvars
    PROVE  Flight'
<1> SUFFICES ASSUME goal2' PROVE Flight'
  BY DEF Flight
<1> USE DEF mainVars, threadVars
<1> DEFINE Started == /\ seeds = <<0>> /\ mpc \in {"spawn", "seed"} /\ NoneAt
                      /\ \A a \in Actor : pc[a] \notin {"exit", "exited"}
           Running == seeds = <<>> /\ mpc # "spawn" /\ Carried
           Replied == replied \subseteq {a \in Actor : pc[a] = "handle"}
           Kept == Replied /\ (Started \/ Running)
<1>1. TypeOK /\ Born /\ OpenUntilExited /\ Unsent
  BY DEF IInv
<1>2. goal2
  BY DEF GNext, Calibrate, GMain, GLoop, PingPong, Reply, GReturn, AnyHandler, gvars
<1>3. Replied /\ (Started \/ Running)
  BY <1>2 DEF Flight
<1>4. /\ "User" \in Signal /\ "ClearProbe" \in Signal /\ "Shutdown" \in Signal
      /\ "ClearProbe" # "User" /\ "Shutdown" # "User"
  BY DEF Signal
<1>5. SUFFICES Kept'
  BY DEF Flight
<1> HIDE DEF Started, Running, Replied
\* Steps that move no message.
<1>6. ASSUME UNCHANGED <<pc, open, queue, replied>>
      PROVE  (NoneAt => NoneAt') /\ (Carried => Carried') /\ Replied'
  <2>1. \A a \in Actor, i \in Nat : At(a, i)' <=> At(a, i)
    BY <1>6 DEF At, InChannel, Owes
  <2> QED
    BY <1>3, <1>6, <2>1, SameAt DEF Replied
<1>7. CASE UNCHANGED <<seeds, mpc, pc, open, queue, replied>>
  BY <1>3, <1>6, <1>7 DEF Started, Running
<1>8. CASE GMain
  <2>1. UNCHANGED replied
    BY <1>8 DEF GMain
  <2>2. CASE Spawn
    <3>1. /\ idx \in Actor /\ pc' = [pc EXCEPT ![idx] = "start"] /\ mpc = "spawn"
          /\ mpc' \in {"spawn", "seed"} /\ UNCHANGED <<seeds, open, queue>>
      BY <1>1, <2>2, AdvanceFacts DEF Spawn, TypeOK
    <3>2. pc[idx] = "unborn" /\ pc \in [Actor -> {"unborn", "start", "recv", "handle", "exit", "exited"}]
      BY <1>1, <3>1 DEF Born, TypeOK, Actor
    <3>3. \A a \in Actor, i \in Nat : At(a, i)' <=> At(a, i)
      BY <2>1, <3>1, <3>2 DEF At, InChannel, Owes
    <3>4. Replied'
      BY <1>3, <2>1, <3>1, <3>2 DEF Replied
    <3>5. Started'
      BY <1>3, <3>1, <3>2, <3>3, SameAt DEF Started, Running
    <3> QED
      BY <3>4, <3>5
  <2>3. CASE SeedSend
    <3>1. Started /\ Head(seeds) = 0 /\ seeds' = <<>>
      <4>1. Started /\ seeds = <<0>> /\ seeds' = Tail(seeds)
        BY <1>3, <2>3 DEF SeedSend, Started, Running
      <4>2. Head(<<0>>) = 0 /\ Tail(<<0>>) = <<>>
        OBVIOUS
      <4> QED
        BY <4>1, <4>2
    <3>2. /\ 0 \in Actor /\ open[0] /\ Enqueue(0, "User") /\ mpc' = "seed"
          /\ UNCHANGED <<pc, open>>
      BY <2>3, <3>1 DEF SeedSend, Deliverable
    <3>3. Carried'
      BY <1>1, <2>1, <3>1, <3>2, SeedAt DEF Started
    <3>4. Replied'
      BY <1>3, <2>1, <3>2 DEF Replied
    <3> QED
      BY <3>1, <3>2, <3>3, <3>4 DEF Running
  <2>4. CASE SeedFail
    <3>1. Started /\ Head(seeds) = 0 /\ mpc = "seed"
      BY <1>3, <2>4 DEF SeedFail, Started, Running
    <3>2. 0 \in Actor
      BY DEF Actor
    <3>3. open[0]
      BY <1>1, <3>1, <3>2 DEF OpenUntilExited, Started, TypeOK
    <3> QED
      BY <2>4, <3>1, <3>2, <3>3 DEF SeedFail, Deliverable
  <2>5. CASE SeedDone
    BY <1>3, <1>6, <2>1, <2>5 DEF SeedDone, Started, Running
  <2>6. CASE SendClear
    <3>1. Running /\ mpc' # "spawn" /\ UNCHANGED <<seeds, pc, open>>
      BY <1>1, <1>3, <2>6, AdvanceFacts DEF SendClear, Broadcast, Started
    <3>2. idx \in Actor /\ Enqueue(idx, "ClearProbe")
      BY <1>1, <2>6 DEF SendClear, Broadcast, TypeOK
    <3>3. Carried'
      BY <1>1, <1>4, <2>1, <3>1, <3>2, SignalAt DEF Running
    <3> QED
      BY <1>3, <2>1, <3>1, <3>3 DEF Running, Replied
  <2>7. CASE SendShutdown
    <3>1. Running /\ mpc' # "spawn" /\ UNCHANGED <<seeds, pc, open>>
      BY <1>1, <1>3, <2>7, AdvanceFacts DEF SendShutdown, Broadcast, Started
    <3>2. idx \in Actor /\ Enqueue(idx, "Shutdown")
      BY <1>1, <2>7 DEF SendShutdown, Broadcast, TypeOK
    <3>3. Carried'
      BY <1>1, <1>4, <2>1, <3>1, <3>2, SignalAt DEF Running
    <3> QED
      BY <1>3, <2>1, <3>1, <3>3 DEF Running, Replied
  <2>8. CASE Join \/ JoinPanic
    <3>1. mpc = "join" /\ mpc' # "spawn" /\ UNCHANGED <<seeds, pc, open, queue>>
      BY <1>1, <2>8, AdvanceFacts DEF Join, JoinPanic
    <3> QED
      BY <1>3, <1>6, <2>1, <3>1 DEF Started, Running
  <2> QED
    BY <1>8, <2>2, <2>3, <2>4, <2>5, <2>6, <2>7, <2>8 DEF GMain, MainStep
<1>9. ASSUME NEW a \in Actor, GLoop(a) PROVE Kept'
  <2>1. UNCHANGED <<seeds, mpc, replied>>
    BY <1>9 DEF GLoop, LoopStep, Start, RecvUser, RecvClear, RecvShutdown, Recv, Exit
  <2>2. pc \in [Actor -> {"unborn", "start", "recv", "handle", "exit", "exited"}]
    BY <1>1 DEF TypeOK
  <2>3. CASE Start(a)
    <3>1. \A c \in Actor, i \in Nat : At(c, i)' <=> At(c, i)
      BY <2>1, <2>2, <2>3 DEF Start, At, InChannel, Owes
    <3>2. UNCHANGED open /\ pc[a] = "start" /\ pc' = [pc EXCEPT ![a] = "recv"]
      BY <2>3 DEF Start
    <3> QED
      BY <1>3, <2>1, <2>2, <3>1, <3>2, SameAt DEF Started, Running, Replied
  <2>4. ASSUME NEW s, NEW to, Recv(a, s, to), to = "handle" <=> s = "User", UNCHANGED open,
               to = "exit" => Running, to # "exited"
        PROVE  Kept'
    <3>1. pc[a] = "recv" /\ pc' = [pc EXCEPT ![a] = to]
      BY <2>4 DEF Recv
    <3>2. a \notin replied
      BY <1>3, <3>1 DEF Replied
    <3>3. (NoneAt => NoneAt') /\ (Carried => Carried')
      BY <1>1, <2>1, <2>4, <3>2, RecvAt
    <3>4. Replied'
      BY <1>3, <2>1, <2>2, <3>1, <3>2 DEF Replied
    <3>5. Started /\ to # "exit" => Started'
      BY <2>1, <2>2, <2>4, <3>1, <3>3 DEF Started
    <3>6. Running => Running'
      BY <2>1, <3>3 DEF Running
    <3> QED
      BY <1>3, <2>4, <3>4, <3>5, <3>6
  <2>5. CASE RecvUser(a) \/ RecvClear(a)
    BY <2>4, <2>5 DEF RecvUser, RecvClear
  <2>6. CASE RecvShutdown(a)
    <3>1. Recv(a, "Shutdown", "exit") /\ UNCHANGED open
      BY <2>6 DEF RecvShutdown
    <3>2. Queued("Shutdown", a)
      BY <1>1, <3>1, RecvFacts
    <3>3. Running
      BY <1>1, <1>3, <3>2 DEF Unsent, ShutdownToSend, Started
    <3> QED
      BY <2>4, <3>1, <3>3
  <2>7. CASE Exit(a)
    <3>1. /\ pc[a] = "exit" /\ open' = [open EXCEPT ![a] = FALSE]
          /\ queue' = [queue EXCEPT ![a] = <<>>] /\ pc' = [pc EXCEPT ![a] = "exited"]
      BY <2>7 DEF Exit
    <3>2. Running
      BY <1>3, <3>1 DEF Started
    <3>3. ASSUME NEW c \in Actor, NEW i \in Nat, At(c, i)' PROVE At(c, i)
      <4>1. CASE c = a
        BY <1>1, <2>2, <3>1, <3>3, <4>1 DEF At, InChannel, Owes, TypeOK
      <4>2. CASE c # a
        BY <1>1, <2>1, <2>2, <3>1, <3>3, <4>2 DEF At, InChannel, Owes, TypeOK
      <4> QED
        BY <4>1, <4>2
    <3>4. ~AllOpen'
      BY <1>1, <3>1 DEF AllOpen, TypeOK
    <3>5. Carried'
      BY <3>2, <3>3, <3>4 DEF Running, Carried, OneAt
    <3>6. Replied'
      BY <1>3, <2>1, <2>2, <3>1 DEF Replied
    <3> QED
      BY <2>1, <3>2, <3>5, <3>6 DEF Running
  <2> QED
    BY <1>9, <2>3, <2>5, <2>6, <2>7 DEF GLoop, LoopStep
<1>10. ASSUME NEW a \in Actor, Reply(a) PROVE Kept'
  <2>1. /\ pc[a] = "handle" /\ replied' = replied \cup {a} /\ a \notin replied
        /\ UNCHANGED <<seeds, mpc, pc>>
    BY <1>10 DEF Reply, Send
  <2>2. Running
    <3>1. At(a, 0) /\ 0 \in Nat
      BY <2>1 DEF At, Owes
    <3> QED
      BY <1>3, <3>1 DEF Started, NoneAt
  <2>3. Carried'
    BY <1>1, <1>10, <2>2, ReplyAt DEF Running
  <2>4. Replied'
    BY <1>3, <2>1 DEF Replied
  <2> QED
    BY <2>1, <2>2, <2>3, <2>4 DEF Running
<1>11. ASSUME NEW a \in Actor, GReturn(a) PROVE Kept'
  <2>1. /\ pc[a] = "handle" /\ replied' = replied \ {a} /\ a \in replied
        /\ pc' = [pc EXCEPT ![a] = "recv"] /\ UNCHANGED <<seeds, mpc, open, queue>>
        /\ pc \in [Actor -> {"unborn", "start", "recv", "handle", "exit", "exited"}]
    BY <1>1, <1>11 DEF GReturn, Return, TypeOK
  <2>2. \A c \in Actor, i \in Nat : At(c, i)' <=> At(c, i)
    BY <2>1 DEF At, InChannel, Owes
  <2>3. Replied'
    BY <1>3, <2>1 DEF Replied
  <2>4. (Started => Started') /\ (Running => Running')
    BY <2>1, <2>2, SameAt DEF Started, Running
  <2> QED
    BY <1>3, <2>3, <2>4
<1>12. CASE Calibrate \/ UNCHANGED gvars
  BY <1>7, <1>12 DEF Calibrate, gvars, vars
<1> QED
  BY <1>2, <1>7, <1>8, <1>9, <1>10, <1>11, <1>12 DEF GNext, PingPong, AnyHandler

LEMMA GInvAlways == GSpec => []GInv
<1>1. GInit => GInv
  BY InitInv, InitFlight DEF GInit, GInv
<1>2. GInv /\ [GNext]_gvars => GInv'
  BY GoalIsRuntime, NextInv, NextFlight DEF GInv
<1> QED
  BY <1>1, <1>2, PTL DEF GSpec

\* From the time the seed is sent, two PingPongActors (or any number of
\* them) never have more than one message between them, and exactly one as
\* long as neither has stopped.
THEOREM OneMessageInFlight == GSpec => []OneInFlight
<1>1. GInv => OneInFlight
  <2> SUFFICES ASSUME GInv, goal2, mpc \notin {"spawn", "seed"}
               PROVE  /\ Cardinality(InFlight) <= 1
                      /\ (\A a \in Actor : open[a]) => Cardinality(InFlight) = 1
    BY DEF OneInFlight
  <2>1. TypeOK /\ Carried
    BY DEF GInv, IInv, Flight
  <2>2. \A x : x \in InFlight <=> \E a \in Actor, i \in Nat : x = <<a, i>> /\ At(a, i)
    BY <2>1, InFlightIs
  <2>3. CASE InFlight = {}
    <3>1. Cardinality(InFlight) = 0
      BY <2>3, FS_EmptySet
    <3>2. ~ \A a \in Actor : open[a]
      BY <2>1, <2>2, <2>3 DEF Carried, AllOpen
    <3> QED
      BY <3>1, <3>2
  <2>4. CASE InFlight # {}
    <3>1. PICK a \in Actor, i \in Nat : At(a, i) /\ <<a, i>> \in InFlight
      BY <2>2, <2>4
    <3>2. InFlight = {<<a, i>>}
      BY <2>1, <2>2, <3>1 DEF Carried, OneAt
    <3>3. Cardinality(InFlight) = 1
      BY <3>2, FS_Singleton
    <3> QED
      BY <3>3
  <2> QED
    BY <2>3, <2>4
<1> QED
  BY <1>1, GInvAlways, PTL

=============================================================================
