---------------------------- MODULE GoalZC_proofs ----------------------------
(***************************************************************************)
(* Proofs about GoalZC, for every number of actors, every pool and every   *)
(* number of initial messages: the exchanges are conserved, and a pool of  *)
(* one buffer per exchange and one per actor never starves a handler.      *)
(*                                                                         *)
(* A reply replaces the message it answers among the pending ones, so      *)
(* their number stays what it was; beside the pending messages an actor    *)
(* owns at most one buffer, the reply it has drawn or the message that it  *)
(* has replied to.                                                         *)
(***************************************************************************)
EXTENDS GoalZC, RuntimeZC_warmup, FiniteSetTheorems

\* Actor a is handling a message that it has not replied to.
Owes(a) == pc[a] = "handle" /\ a \notin replied

\* The message in buffer b still has its reply before it.
Waits(b) == \/ SeedOccurs(b)
            \/ \E a \in Actor : Occurs(b, queue[a])
            \/ \E a \in Actor : inbound[a] = b /\ Owes(a)

\* An actor draws one reply, and only while it owes it.
OneReply == /\ caller = {}
            /\ \A a \in Actor : /\ a \in replied => pc[a] = "handle"
                                /\ held[a] # {} => Owes(a) /\ \E b \in Buf : held[a] = {b}

Conserved == /\ exchanges \in Nat /\ Cardinality(Pending) <= exchanges
             /\ Up /\ failed = {} => Cardinality(Pending) = exchanges

GInv == IInv /\ Exits /\ Warmup /\ OneReply /\ Conserved

-----------------------------------------------------------------------------

USE BufAssumption, PeerAssumption, NAssumption, BoundsAssumption, SignalsDistinct

LEMMA GoalIsRuntime == [GNext]_gvars => [Next]_vars
<1> SUFFICES ASSUME [GNext]_gvars PROVE [Next]_vars
  OBVIOUS
<1>1. ASSUME NEW a \in Actor, PingPong(a) PROVE Next
  <2>1. peer_id[a] \in Actor
    OBVIOUS
  <2>2. HandlerStep(a)
    BY <1>1, <2>1 DEF PingPong, Fetch, FetchPanic, Reply, Return, HandlerStep
  <2> QED
    BY <2>2 DEF Next
<1>2. ASSUME NEW a \in Actor, LoopStep(a) PROVE Next
  BY <1>2 DEF Next
<1> QED
  BY <1>1, <1>2 DEF GNext, Done, Next, gvars

LEMMA SeqFacts ==
    ASSUME NEW S, NEW q \in Seq(S)
    PROVE  DOMAIN q = 1 .. Len(q) /\ \A i \in DOMAIN q : q[i] \in S
OBVIOUS

\* The pending messages, each by its buffer.
LEMMA PendingIs == TypeOK /\ Handling => Pending = {b \in Buf : Waits(b)}
<1> SUFFICES ASSUME TypeOK, Handling PROVE Pending = {b \in Buf : Waits(b)}
  OBVIOUS
<1>1. ASSUME NEW b PROVE b \in SeedBufs <=> b \in Buf /\ SeedOccurs(b)
  <2>1. seeds \in Seq([dst : Nat, buf : Buf])
    BY DEF TypeOK
  <2>2. DOMAIN seeds = 1 .. Len(seeds) /\ \A i \in DOMAIN seeds : seeds[i] \in [dst : Nat, buf : Buf]
    BY <2>1, SeqFacts
  <2>3. \A i \in DOMAIN seeds : seeds[i].buf \in Buf
    BY <2>2
  <2> QED
    BY <2>2, <2>3 DEF SeedBufs, SeedOccurs
<1>2. ASSUME NEW b, NEW a \in Actor PROVE b \in QueuedBufs(a) <=> b \in Buf /\ Occurs(b, queue[a])
  <2>1. DOMAIN queue[a] = 1 .. Len(queue[a])
    BY DEF TypeOK
  <2> QED
    BY <2>1 DEF QueuedBufs, Occurs, Range
<1>3. ASSUME NEW a \in Actor, Owes(a) PROVE inbound[a] \in Buf
  BY <1>3 DEF Handling, Owes
<1>4. ASSUME NEW b \in Pending PROVE b \in Buf /\ Waits(b)
  <2>1. CASE b \in SeedBufs
    BY <1>1, <2>1 DEF Waits
  <2>2. CASE b \in UNION {QueuedBufs(a) : a \in Actor}
    BY <1>2, <2>2 DEF Waits
  <2>3. CASE \E a \in Actor : b = inbound[a] /\ Owes(a)
    BY <1>3, <2>3 DEF Waits
  <2> QED
    BY <1>4, <2>1, <2>2, <2>3 DEF Pending, Owes
<1>5. ASSUME NEW b \in Buf, Waits(b) PROVE b \in Pending
  BY <1>1, <1>2, <1>5 DEF Waits, Pending, Owes
<1> QED
  BY <1>4, <1>5

\* The same after a step.
LEMMA PendingBecomes == TypeOK' /\ Handling' => Pending' = {b \in Buf : Waits(b)'}
<1>1. (TypeOK /\ Handling => Pending = {b \in Buf : Waits(b)})'
  BY PendingIs, PTL
<1> QED
  BY <1>1

LEMMA PendingFinite ==
    TypeOK /\ Handling => IsFiniteSet(Pending) /\ Cardinality(Pending) \in Nat /\ Pending \subseteq Buf
<1> SUFFICES ASSUME TypeOK, Handling
             PROVE  IsFiniteSet(Pending) /\ Cardinality(Pending) \in Nat /\ Pending \subseteq Buf
  OBVIOUS
<1>1. Pending \in SUBSET Buf
  BY PendingIs
<1>2. IsFiniteSet(Pending)
  BY <1>1, FS_Subset
<1> QED
  BY <1>1, <1>2, FS_CardinalityType

\* The run is up and no thread has failed only if it was so before.
LEMMA UpBefore ==
    ASSUME TypeOK, [Next]_vars, Up', failed' = {}
    PROVE  Up /\ failed = {}
BY DEF TypeOK, Next, MainStep, LoopStep, HandlerStep, vars, mainVars, actorVars, Up, Spawn, SpawnFail,
       SeedSend, SeedFail, SeedDone, UnwindSeed, UnwindDone, ResetCount, SendClear, EndRun,
       SendShutdown, Join, JoinPanic, CallerGet, CallerDrop, RecvUser, RecvClear, RecvBreak,
       GetMsg, Send, SendClosed, DropHeld, HandlerReturn, HandlerPanic, UnwindInbound, DropPeers,
       DropReceiver, Discard, Exit, Advance

\* While the run is up a closed channel or a thread on its way out betrays a
\* failed thread.
LEMMA UpAlive ==
    ASSUME Exits, Warmup, Up, failed = {}, NEW a \in Actor
    PROVE  open[a] /\ ~Leaving(a)
BY DEF Exits, OpenUntilLeft, Warmup, OnlyPanicsLeave, Up, Leaving, TypeOK

-----------------------------------------------------------------------------
(* One reply per message *)

LEMMA InitOneReply == GInit => OneReply
BY DEF GInit, Init, OneReply

LEMMA NextOneReply == TypeOK /\ Unborn /\ OneReply /\ [GNext]_gvars => OneReply'
<1> SUFFICES ASSUME TypeOK, Unborn, OneReply, [GNext]_gvars PROVE OneReply'
  OBVIOUS
<1> USE DEF TypeOK, mainVars, actorVars, OneReply, Owes
<1>1. ASSUME UNCHANGED <<caller, pc, held, replied>> PROVE OneReply'
  BY <1>1
<1>2. CASE MainStep /\ UNCHANGED <<replied, exchanges>>
  <2>1. CASE Spawn
    <3>1. pc[idx] = "unborn" /\ pc' = [pc EXCEPT ![idx] = "recv"] /\ UNCHANGED <<caller, held>>
      BY <2>1 DEF Spawn, Unborn, Actor
    <3> QED
      BY <1>2, <3>1
  <2>2. CASE ~Spawn
    <3>1. UNCHANGED <<caller, pc, held>>
      BY <1>2, <2>2 DEF MainStep, SeedSend, SeedFail, SeedDone, UnwindSeed, UnwindDone, ResetCount,
            SendClear, EndRun, SendShutdown, Join, JoinPanic
    <3> QED
      BY <1>1, <1>2, <3>1
  <2> QED
    BY <2>1, <2>2
<1>3. ASSUME NEW a \in Actor, LoopStep(a), UNCHANGED <<replied, exchanges>> PROVE OneReply'
  <2>1. CASE UNCHANGED <<caller, held>> /\ pc[a] # "handle"
                /\ (pc' = pc \/ \E p : pc' = [pc EXCEPT ![a] = p])
    <3>1. a \notin replied /\ held[a] = {}
      BY <2>1
    <3>2. \A c \in Actor : c # a => pc'[c] = pc[c]
      BY <2>1
    <3> QED
      BY <1>3, <2>1, <3>1, <3>2
  <2>2. CASE RecvUser(a) \/ RecvClear(a) \/ RecvBreak(a)
    BY <2>1, <2>2 DEF RecvUser, RecvClear, RecvBreak, Ready
  <2>3. CASE UnwindInbound(a) \/ DropPeers(a) \/ DropReceiver(a) \/ Discard(a) \/ Exit(a)
    BY <2>1, <2>3 DEF UnwindInbound, DropPeers, DropReceiver, Discard, Exit
  <2>4. CASE pc[a] # "handle" /\ DropHeld(a)
    BY <1>3, <2>4 DEF DropHeld
  <2> QED
    BY <1>3, <2>2, <2>3, <2>4 DEF LoopStep
<1>4. ASSUME NEW a \in Actor, Fetch(a) PROVE OneReply'
  <2>1. PICK b \in free : /\ pc[a] = "handle" /\ UNCHANGED <<pc, caller, replied>>
                          /\ held' = [held EXCEPT ![a] = @ \cup {b}]
                          /\ a \notin replied /\ held[a] = {}
    BY <1>4 DEF Fetch, GetMsg
  <2>2. held'[a] = {b} /\ b \in Buf
    BY <2>1
  <2>3. \A c \in Actor : c # a => held'[c] = held[c]
    BY <2>1
  <2> QED
    BY <2>1, <2>2, <2>3
<1>5. ASSUME NEW a \in Actor, FetchPanic(a) PROVE OneReply'
  BY <1>5 DEF FetchPanic, HandlerPanic
<1>6. ASSUME NEW a \in Actor, Reply(a) PROVE OneReply'
  <2>1. PICK b \in held[a] : /\ pc[a] = "handle" /\ UNCHANGED <<pc, caller>>
                             /\ held' = [held EXCEPT ![a] = @ \ {b}]
                             /\ replied' = replied \cup {a}
    BY <1>6 DEF Reply, Send, SendClosed
  <2>2. held'[a] = {}
    BY <2>1
  <2> QED
    BY <2>1, <2>2
<1>7. ASSUME NEW a \in Actor, Return(a) PROVE OneReply'
  BY <1>7 DEF Return, HandlerReturn
<1>8. CASE UNCHANGED gvars
  BY <1>1, <1>8 DEF gvars, vars
<1> QED
  BY <1>2, <1>3, <1>4, <1>5, <1>6, <1>7, <1>8 DEF GNext, PingPong, Done

-----------------------------------------------------------------------------
(* The number of pending messages *)

\* A step that adds no pending message, and takes none while the run is up.
LEMMA KeepPending ==
    ASSUME TypeOK, Handling, TypeOK', Handling', Conserved, exchanges' = exchanges,
           \A b \in Buf : Waits(b)' => Waits(b),
           Up' /\ failed' = {} =>
              Up /\ failed = {} /\ \A b \in Buf : Waits(b) => Waits(b)'
    PROVE  Conserved'
<1>1. Pending = {b \in Buf : Waits(b)}
  BY PendingIs
<1>2. Pending' = {b \in Buf : Waits(b)'}
  BY PendingBecomes
<1>3. (TypeOK /\ Handling => IsFiniteSet(Pending) /\ Cardinality(Pending) \in Nat /\ Pending \subseteq Buf)'
  BY PendingFinite, PTL
<1>4. /\ IsFiniteSet(Pending) /\ Cardinality(Pending) \in Nat
      /\ Cardinality(Pending') \in Nat
  BY <1>3, PendingFinite
<1>5. Pending' \in SUBSET Pending
  BY <1>1, <1>2
<1>6. Cardinality(Pending') <= Cardinality(Pending)
  BY <1>4, <1>5, FS_Subset
<1>7. ASSUME Up', failed' = {} PROVE Cardinality(Pending') = exchanges'
  <2>1. Pending' = Pending
    BY <1>1, <1>2, <1>7
  <2> QED
    BY <1>7, <2>1 DEF Conserved
<1> QED
  BY <1>4, <1>6, <1>7 DEF Conserved

\* A step that leaves the messages where they are and every actor as much in
\* debt as it was.
LEMMA SameWaits ==
    ASSUME UNCHANGED <<seeds, queue, inbound>>,
           \A a \in Actor : Owes(a)' <=> Owes(a)
    PROVE  \A b \in Buf : Waits(b)' <=> Waits(b)
BY DEF Waits, SeedOccurs

\* A step that sends the same control signal, or takes one.
LEMMA SignalWaits ==
    ASSUME UNCHANGED <<seeds, inbound>>,
           \A a \in Actor : Owes(a)' <=> Owes(a),
           \A b \in Buf, a \in Actor : Occurs(b, queue'[a]) <=> Occurs(b, queue[a])
    PROVE  \A b \in Buf : Waits(b)' <=> Waits(b)
BY DEF Waits, SeedOccurs

LEMMA SignalKeeps ==
    ASSUME TypeOK, NEW a \in Actor, NEW s \in {ClearProbe, Shutdown}, SendSignal(a, s)
    PROVE  \A b \in Buf, c \in Actor : Occurs(b, queue'[c]) <=> Occurs(b, queue[c])
<1>1. s \in Signal /\ s \notin Buf
  BY DEF Signal
<1>2. CASE open[a]
  BY <1>1, <1>2, QueueAppend DEF SendSignal
<1>3. CASE ~open[a]
  BY <1>3 DEF SendSignal
<1> QED
  BY <1>2, <1>3

\* What the main thread does to the pending messages.
LEMMA MainWaits ==
    ASSUME TypeOK, Unborn, Ownership, OneReply, MainStep, replied' = replied
    PROVE  /\ \A b \in Buf : Waits(b)' => Waits(b)
           /\ Up' => \A b \in Buf : Waits(b) => Waits(b)'
<1> USE DEF mainVars, actorVars
<1>1. ASSUME pc' = pc PROVE \A a \in Actor : Owes(a)' <=> Owes(a)
  BY <1>1 DEF Owes
<1>2. CASE Spawn
  <2>1. pc[idx] = "unborn" /\ pc' = [pc EXCEPT ![idx] = "recv"]
    BY <1>2 DEF Spawn, Unborn, Actor, TypeOK
  <2>2. \A a \in Actor : Owes(a)' <=> Owes(a)
    BY <2>1 DEF Owes, TypeOK
  <2> QED
    BY <1>2, <2>2, SameWaits DEF Spawn
<1>3. CASE SeedSend
  <2> DEFINE b == Head(seeds).buf
             d == Head(seeds).dst
  <2>1. b \in Buf /\ b \in Signal /\ d \in Actor
    BY <1>3, HeadSeed DEF SeedSend, Deliverable, Signal
  <2>2. queue' = [queue EXCEPT ![d] = Append(@, b)]
    BY <1>3 DEF SeedSend
  <2>3. \A c \in Actor : \A y : Occurs(y, queue'[c]) <=> Occurs(y, queue[c]) \/ (c = d /\ y = b)
    <3> HIDE DEF b, d
    <3> QED
      BY <2>1, <2>2, QueueAppend
  <2>4. \A x : SeedOccurs(x) <=> x = b \/ SeedOccurs(x)'
    BY <1>3, SeedTail DEF SeedSend, Ownership
  <2>5. \A a \in Actor : Owes(a)' <=> Owes(a)
    BY <1>1, <1>3 DEF SeedSend
  <2>6. inbound' = inbound
    BY <1>3 DEF SeedSend
  <2>7. ASSUME NEW x \in Buf PROVE Waits(x)' <=> Waits(x)
    <3> HIDE DEF b, d
    <3>1. (\E c \in Actor : Occurs(x, queue'[c])) <=> (\E c \in Actor : Occurs(x, queue[c])) \/ x = b
      BY <2>1, <2>3
    <3>2. (\E c \in Actor : inbound'[c] = x /\ Owes(c)') <=> (\E c \in Actor : inbound[c] = x /\ Owes(c))
      BY <2>5, <2>6
    <3> QED
      BY <2>4, <3>1, <3>2 DEF Waits
  <2> QED
    BY <2>7
<1>4. CASE UnwindSeed
  <2>1. \A x : SeedOccurs(x)' => SeedOccurs(x)
    BY <1>4, SeedTail DEF UnwindSeed, Ownership
  <2>2. \A a \in Actor : Owes(a)' <=> Owes(a)
    BY <1>1, <1>4 DEF UnwindSeed
  <2> QED
    BY <1>4, <2>1, <2>2 DEF UnwindSeed, Up, Waits
<1>5. CASE SendClear \/ SendShutdown
  <2>1. idx \in Actor /\ UNCHANGED <<pc, seeds, inbound>>
    BY <1>5 DEF SendClear, SendShutdown, TypeOK
  <2>2. SendSignal(idx, ClearProbe) \/ SendSignal(idx, Shutdown)
    BY <1>5 DEF SendClear, SendShutdown
  <2>3. \A b \in Buf, c \in Actor : Occurs(b, queue'[c]) <=> Occurs(b, queue[c])
    BY <2>1, <2>2, SignalKeeps
  <2> QED
    BY <1>1, <2>1, <2>3, SignalWaits
<1>6. CASE \/ SeedFail \/ SeedDone \/ UnwindDone \/ ResetCount \/ EndRun \/ Join \/ JoinPanic
  <2>1. UNCHANGED <<pc, seeds, queue, inbound>>
    BY <1>6 DEF SeedFail, SeedDone, UnwindDone, ResetCount, EndRun, Join, JoinPanic
  <2> QED
    BY <1>1, <2>1, SameWaits
<1> QED
  BY <1>2, <1>3, <1>4, <1>5, <1>6 DEF MainStep

\* What the runtime does to them in an actor's thread: only the drop of a
\* receiver, on the way out, loses messages.
LEMMA LoopWaits ==
    ASSUME TypeOK, Handling, Ownership, OneReply, NEW a \in Actor, LoopStep(a), replied' = replied
    PROVE  /\ \A b \in Buf : Waits(b)' => Waits(b)
           /\ ~Leaving(a) => \A b \in Buf : Waits(b) => Waits(b)'
<1> USE DEF mainVars, actorVars
<1>1. CASE RecvUser(a)
  <2>a. queue[a] # <<>> /\ Received(a) = Head(queue[a]) /\ Head(queue[a]) \in Buf
    BY <1>1 DEF RecvUser, Received
  <2>b. pc[a] = "recv" /\ a \notin replied
    BY <1>1 DEF RecvUser, Ready, OneReply
  <2>1. /\ queue[a] # <<>> /\ Head(queue[a]) \in Buf /\ pc[a] = "recv" /\ a \notin replied
        /\ queue' = [queue EXCEPT ![a] = Tail(@)]
        /\ inbound' = [inbound EXCEPT ![a] = Head(queue[a])]
        /\ pc' = [pc EXCEPT ![a] = "handle"]
        /\ UNCHANGED seeds
    BY <1>1, <2>a, <2>b DEF RecvUser
  <2>2. /\ \A c \in Actor : \A y : c # a => (Occurs(y, queue'[c]) <=> Occurs(y, queue[c]))
        /\ \A y : Occurs(y, queue[a]) <=> y = Head(queue[a]) \/ Occurs(y, queue'[a])
    BY <2>1, QueueTail DEF Ownership
  <2>3. inbound'[a] = Head(queue[a]) /\ Owes(a)' /\ ~Owes(a)
    BY <2>1 DEF Owes, TypeOK
  <2>4. \A c \in Actor : c # a => inbound'[c] = inbound[c] /\ (Owes(c)' <=> Owes(c))
    BY <2>1 DEF Owes, TypeOK
  <2>5. \A b : SeedOccurs(b)' <=> SeedOccurs(b)
    BY <2>1 DEF SeedOccurs
  <2> QED
    BY <2>2, <2>3, <2>4, <2>5 DEF Waits
<1>2. CASE RecvClear(a) \/ RecvBreak(a)
  <2>a. UNCHANGED <<seeds, inbound>> /\ pc[a] = "recv"
    BY <1>2 DEF RecvClear, RecvBreak, Ready
  <2>b. pc' = pc \/ pc' = [pc EXCEPT ![a] = "exiting"]
    BY <1>2 DEF RecvClear, RecvBreak
  <2>c. ASSUME queue[a] = <<>> PROVE queue' = queue
    <3>1. RecvBreak(a)
      BY <1>2, <2>c DEF RecvClear, Received
    <3>2. queue' = [queue EXCEPT ![a] = @]
      BY <2>c, <3>1 DEF RecvBreak
    <3> QED
      BY <3>2 DEF TypeOK
  <2>d. ASSUME queue[a] # <<>>
        PROVE  Head(queue[a]) \notin Buf /\ queue' = [queue EXCEPT ![a] = Tail(@)]
    <3>1. Head(queue[a]) \in {ClearProbe, Shutdown, "Err"}
      BY <1>2, <2>d DEF RecvClear, RecvBreak, Received
    <3>2. queue' = [queue EXCEPT ![a] = Tail(@)]
      BY <1>2, <2>d DEF RecvClear, RecvBreak
    <3> QED
      BY <3>1, <3>2
  <2>1. /\ UNCHANGED <<seeds, inbound>> /\ pc[a] = "recv"
        /\ pc' = pc \/ pc' = [pc EXCEPT ![a] = "exiting"]
        /\ \/ UNCHANGED queue
           \/ /\ queue[a] # <<>> /\ Head(queue[a]) \notin Buf
              /\ queue' = [queue EXCEPT ![a] = Tail(@)]
    BY <2>a, <2>b, <2>c, <2>d
  <2>2. \A c \in Actor : Owes(c)' <=> Owes(c)
    BY <2>1 DEF Owes, TypeOK
  <2>3. \A b \in Buf, c \in Actor : Occurs(b, queue'[c]) <=> Occurs(b, queue[c])
    BY <2>1, QueueTail DEF Ownership
  <2> QED
    BY <2>1, <2>2, <2>3, SignalWaits
<1>3. CASE UnwindInbound(a)
  <2>1. /\ pc[a] = "unwind" /\ pc' = [pc EXCEPT ![a] = "exiting"]
        /\ inbound' = [inbound EXCEPT ![a] = NoBuf] /\ UNCHANGED <<seeds, queue>>
    BY <1>3 DEF UnwindInbound
  <2>2. ~Owes(a) /\ ~Owes(a)'
    BY <2>1 DEF Owes, TypeOK
  <2>3. \A c \in Actor : c # a => inbound'[c] = inbound[c] /\ (Owes(c)' <=> Owes(c))
    BY <2>1 DEF Owes, TypeOK
  <2> QED
    BY <2>1, <2>2, <2>3 DEF Waits, SeedOccurs
<1>4. CASE DropPeers(a) \/ DropReceiver(a) \/ Exit(a)
  <2>1. /\ UNCHANGED <<seeds, queue, inbound>>
        /\ pc[a] # "handle" /\ \E p \in ActorPC \ {"handle"} : pc' = [pc EXCEPT ![a] = p]
    BY <1>4 DEF DropPeers, DropReceiver, Exit, ActorPC
  <2>2. \A c \in Actor : Owes(c)' <=> Owes(c)
    BY <2>1 DEF Owes, TypeOK
  <2> QED
    BY <2>1, <2>2, SameWaits
<1>5. CASE Discard(a)
  <2>1. /\ pc[a] = "discarding" /\ queue[a] # <<>> /\ UNCHANGED <<seeds, inbound, pc>>
        /\ queue' = [queue EXCEPT ![a] = Tail(@)]
    BY <1>5 DEF Discard
  <2>2. \A c \in Actor : \A y : Occurs(y, queue'[c]) => Occurs(y, queue[c])
    BY <2>1, QueueTail DEF Ownership
  <2> QED
    BY <2>1, <2>2 DEF Waits, SeedOccurs, Owes, Leaving
<1>6. CASE pc[a] # "handle" /\ DropHeld(a)
  BY <1>6, SameWaits DEF DropHeld, Owes
<1> QED
  BY <1>1, <1>2, <1>3, <1>4, <1>5, <1>6 DEF LoopStep

\* The reply takes the place of the message it answers.
LEMMA ReplySwaps ==
    ASSUME TypeOK, Handling, Ownership, OneReply, TypeOK', Handling', Conserved,
           NEW a \in Actor, NEW dst \in Actor, Send(a, dst),
           replied' = replied \cup {a}, exchanges' = exchanges
    PROVE  Conserved'
<1> USE DEF mainVars
<1>1. PICK b \in held[a] : /\ pc[a] = "handle"
                           /\ queue' = [queue EXCEPT ![dst] = Append(@, b)]
                           /\ UNCHANGED <<seeds, inbound, pc, mpc, failed>>
  BY DEF Send
<1>2. PICK i : i = inbound[a]
  OBVIOUS
<1>3. b \in Buf /\ b \in Signal /\ i \in Buf /\ Owes(a)
  BY <1>1, <1>2 DEF TypeOK, Handling, OneReply, Signal
<1>4. OnlyAt(b, "held", a) /\ OnlyAt(i, "inbound", a)
  BY <1>1, <1>2, <1>3, Exclusive
<1>5. \A c \in Actor : Owes(c)' <=> Owes(c) /\ c # a
  BY <1>1 DEF Owes
<1>6. \A c \in Actor : \A y : Occurs(y, queue'[c]) <=> Occurs(y, queue[c]) \/ (c = dst /\ y = b)
  BY <1>1, <1>3, QueueAppend
<1>7. ASSUME NEW x \in Buf PROVE Waits(x)' <=> x = b \/ (Waits(x) /\ x # i)
  <2>1. SeedOccurs(x)' <=> SeedOccurs(x) /\ x # i
    BY <1>1, <1>4 DEF SeedOccurs, OnlyAt
  <2>2. (\E c \in Actor : Occurs(x, queue'[c])) <=> x = b \/ \E c \in Actor : Occurs(x, queue[c]) /\ x # i
    <3>1. \A c \in Actor : ~Occurs(i, queue[c])
      BY <1>4 DEF OnlyAt
    <3> QED
      BY <1>6, <3>1
  <2>3. (\E c \in Actor : inbound'[c] = x /\ Owes(c)')
           <=> \E c \in Actor : inbound[c] = x /\ Owes(c) /\ x # i
    <3>1. \A c \in Actor : inbound[c] = i <=> c = a
      BY <1>4 DEF OnlyAt
    <3> QED
      BY <1>1, <1>5, <3>1
  <2> QED
    BY <2>1, <2>2, <2>3 DEF Waits
<1>8. Waits(i) /\ ~Waits(b) /\ i # b
  <2>1. Waits(i) /\ i # b
    BY <1>2, <1>3, <1>4 DEF Waits, OnlyAt
  <2>2. ~Waits(b)
    BY <1>4 DEF Waits, OnlyAt
  <2> QED
    BY <2>1, <2>2
<1>9. Pending = {x \in Buf : Waits(x)}
  BY PendingIs
<1>10. Pending' = {x \in Buf : Waits(x)'}
  BY PendingBecomes
<1>11. Pending' = (Pending \ {i}) \cup {b} /\ i \in Pending /\ b \notin Pending \ {i}
  BY <1>3, <1>7, <1>8, <1>9, <1>10
<1>12. IsFiniteSet(Pending) /\ Cardinality(Pending) \in Nat
  BY PendingFinite
<1>13. IsFiniteSet(Pending \ {i}) /\ Cardinality(Pending \ {i}) = Cardinality(Pending) - 1
  BY <1>11, <1>12, FS_RemoveElement
<1>14. Cardinality(Pending') = (Cardinality(Pending) - 1) + 1
  BY <1>11, <1>13, FS_AddElement
<1>15. Cardinality(Pending') = Cardinality(Pending)
  BY <1>12, <1>14
<1> QED
  BY <1>1, <1>15 DEF Conserved, Up

LEMMA NextConserved ==
    GInv /\ [GNext]_gvars => Conserved'
<1> SUFFICES ASSUME GInv, [GNext]_gvars PROVE Conserved'
  OBVIOUS
<1> USE DEF mainVars, actorVars
<1>1. TypeOK /\ Handling /\ Unborn /\ Ownership /\ Exits /\ Warmup /\ OneReply /\ Conserved
  BY DEF GInv, IInv, Lifecycle
<1>2. [Next]_vars
  BY GoalIsRuntime
<1>3. TypeOK' /\ Handling'
  BY <1>1, <1>2, NextTypes
<1>4. Up' /\ failed' = {} => Up /\ failed = {}
  BY <1>1, <1>2, UpBefore
<1>5. ASSUME NEW a \in Actor, Up', failed' = {} PROVE open[a] /\ ~Leaving(a)
  BY <1>1, <1>4, <1>5, UpAlive
<1>6. ASSUME exchanges' = exchanges, \A b \in Buf : Waits(b)' => Waits(b),
             Up' /\ failed' = {} => \A b \in Buf : Waits(b) => Waits(b)'
      PROVE  Conserved'
  BY <1>1, <1>3, <1>4, <1>6, KeepPending
<1>7. CASE MainStep /\ UNCHANGED <<replied, exchanges>>
  BY <1>1, <1>6, <1>7, MainWaits
<1>8. ASSUME NEW a \in Actor, LoopStep(a), UNCHANGED <<replied, exchanges>> PROVE Conserved'
  BY <1>1, <1>5, <1>6, <1>8, LoopWaits
<1>9. ASSUME NEW a \in Actor, Fetch(a) PROVE Conserved'
  <2>1. UNCHANGED <<seeds, queue, inbound, pc, replied, exchanges>>
    BY <1>9 DEF Fetch, GetMsg
  <2> QED
    BY <1>6, <2>1, SameWaits DEF Owes
<1>10. ASSUME NEW a \in Actor, FetchPanic(a) PROVE Conserved'
  <2>1. /\ UNCHANGED <<seeds, queue, inbound, replied, exchanges>> /\ failed' # {}
        /\ pc' = [pc EXCEPT ![a] = "unwind"]
    BY <1>10 DEF FetchPanic, HandlerPanic
  <2>2. \A c \in Actor : Owes(c)' => Owes(c)
    BY <1>1, <2>1 DEF Owes, TypeOK
  <2>3. \A b \in Buf : Waits(b)' => Waits(b)
    BY <2>1, <2>2 DEF Waits, SeedOccurs
  <2> QED
    BY <1>6, <2>1, <2>3
<1>11. ASSUME NEW a \in Actor, Reply(a) PROVE Conserved'
  <2>1. peer_id[a] \in Actor /\ replied' = replied \cup {a} /\ exchanges' = exchanges
    BY <1>11 DEF Reply
  <2>2. PICK d \in Actor : d = peer_id[a]
    BY <2>1
  <2>3. CASE Send(a, d)
    BY <1>1, <1>3, <2>1, <2>3, ReplySwaps
  <2>4. CASE SendClosed(a, d)
    <3>1. ~open[d] /\ UNCHANGED <<seeds, queue, inbound, pc>>
      BY <2>4 DEF SendClosed
    <3>2. \A c \in Actor : Owes(c)' => Owes(c)
      BY <2>1, <3>1 DEF Owes
    <3>3. \A b \in Buf : Waits(b)' => Waits(b)
      BY <3>1, <3>2 DEF Waits, SeedOccurs
    <3>4. ~(Up' /\ failed' = {})
      BY <1>5, <3>1
    <3> QED
      BY <1>6, <2>1, <3>3, <3>4
  <2> QED
    BY <1>11, <2>2, <2>3, <2>4 DEF Reply
<1>12. ASSUME NEW a \in Actor, Return(a) PROVE Conserved'
  <2>1. /\ UNCHANGED <<seeds, queue, exchanges>> /\ a \in replied /\ pc[a] = "handle"
        /\ inbound' = [inbound EXCEPT ![a] = NoBuf] /\ pc' = [pc EXCEPT ![a] = "recv"]
        /\ replied' = replied \ {a}
    BY <1>12 DEF Return, HandlerReturn
  <2>2. ~Owes(a) /\ ~Owes(a)'
    BY <1>1, <2>1 DEF Owes, TypeOK
  <2>3. \A c \in Actor : c # a => inbound'[c] = inbound[c] /\ (Owes(c)' <=> Owes(c))
    BY <1>1, <2>1 DEF Owes, TypeOK
  <2>4. \A b \in Buf : Waits(b)' <=> Waits(b)
    BY <2>1, <2>2, <2>3 DEF Waits, SeedOccurs
  <2> QED
    BY <1>6, <2>1, <2>4
<1>13. CASE UNCHANGED gvars
  BY <1>6, <1>13, SameWaits DEF gvars, vars, Owes
<1> QED
  BY <1>7, <1>8, <1>9, <1>10, <1>11, <1>12, <1>13 DEF GNext, PingPong, Done

LEMMA InitConserved == GInit => Conserved
<1> SUFFICES ASSUME GInit PROVE Conserved
  OBVIOUS
<1>1. PICK k \in 0 .. MaxSeeds : seeds \in [1 .. k -> [dst : SeedDst, buf : Buf]]
  BY DEF GInit, Init
<1>2. TypeOK /\ Handling
  BY InitTypes DEF GInit
<1>3. k \in Nat /\ Len(seeds) = k /\ DOMAIN seeds = 1 .. k
  BY <1>1, <1>2 DEF TypeOK
<1>4. Pending = SeedBufs
  <2>1. \A a \in Actor : QueuedBufs(a) = {} /\ pc[a] # "handle"
    BY DEF GInit, Init, QueuedBufs, Range
  <2> QED
    BY <2>1 DEF Pending
<1>5. Cardinality(SeedBufs) = k
  <2> DEFINE f == [i \in 1 .. k |-> seeds[i].buf]
  <2>1. f \in [1 .. k -> SeedBufs] /\ \A b \in SeedBufs : \E i \in 1 .. k : f[i] = b
    BY <1>3 DEF SeedBufs
  <2>2. \A i, j \in 1 .. k : f[i] = f[j] => i = j
    BY <1>3 DEF GInit, Init
  <2>3. f \in Bijection(1 .. k, SeedBufs)
    <3> HIDE DEF f
    <3> QED
      BY <2>1, <2>2 DEF Bijection, Injection, Surjection, IsInjective
  <2>4. ExistsBijection(1 .. k, SeedBufs)
    BY <2>3 DEF ExistsBijection
  <2> QED
    BY <1>3, <2>4, FS_CountingElements
<1> QED
  BY <1>3, <1>4, <1>5 DEF GInit, Conserved

\* A goalzc run is a run of RuntimeZC, and keeps the count of its exchanges.
THEOREM GoalInductive == GSpec => []GInv
<1>1. GInit => GInv
  BY InitTypes, InitLifecycle, InitOwnership, InitWarmup, InitOneReply, InitConserved DEF GInv, IInv, GInit
<1>2. GInv /\ [GNext]_gvars => GInv'
  <2> SUFFICES ASSUME GInv, [GNext]_gvars PROVE GInv'
    OBVIOUS
  <2>1. [Next]_vars
    BY GoalIsRuntime
  <2>2. IInv'
    BY <2>1, NextTypes, NextLifecycle, NextOwnership DEF GInv, IInv, Lifecycle
  <2>3. Exits' /\ Warmup'
    BY <2>1, NextExits, NextWarmup DEF GInv, IInv, Lifecycle
  <2>4. OneReply'
    BY NextOneReply DEF GInv, IInv, Lifecycle
  <2>5. Conserved'
    BY NextConserved
  <2> QED
    BY <2>2, <2>3, <2>4, <2>5 DEF GInv
<1> QED
  BY <1>1, <1>2, PTL DEF GSpec

\* No exchange multiplies, and none dies while the actors are up, with any
\* number of actors and of exchanges between any peers.
THEOREM ExchangesAreConserved == GSpec => []ExchangesConserved
<1>1. GInv => ExchangesConserved
  BY DEF GInv, Conserved, ExchangesConserved, Up
<1> QED
  BY <1>1, GoalInductive, PTL

-----------------------------------------------------------------------------
(* The size of the pool *)

\* The buffer that actor a keeps out beside its pending message: the reply it
\* has drawn, or the message it has replied to or leaves behind in a panic.
Keeps(a, b) == b \in held[a] \/ (inbound[a] = b /\ ~Owes(a))

Rest == (Buf \ free) \ Pending

LEMMA RestIsKept ==
    ASSUME TypeOK, Handling, Ownership, OneReply, NEW b \in Rest
    PROVE  \E a \in Actor : Keeps(a, b)
<1>1. b \in Buf /\ b \notin free /\ ~Waits(b)
  BY PendingIs DEF Rest
<1>2. PICK K \in Kind, a \in Actor : OnlyAt(b, K, a)
  BY <1>1 DEF Ownership, Owned
<1> QED
  BY <1>1, <1>2 DEF OnlyAt, Kind, Waits, Keeps, OneReply

LEMMA KeepsOne ==
    ASSUME OneReply, NEW a \in Actor, NEW b, NEW c, Keeps(a, b), Keeps(a, c)
    PROVE  b = c
<1>1. CASE held[a] = {}
  BY <1>1 DEF Keeps
<1>2. CASE held[a] # {}
  BY <1>2 DEF Keeps, OneReply
<1> QED
  BY <1>1, <1>2

\* If only the actors of K keep a buffer out, the rest is no larger than K.
LEMMA RestFits ==
    ASSUME TypeOK, Handling, Ownership, OneReply,
           NEW K \in SUBSET Actor, \A a \in Actor : \A b \in Rest : Keeps(a, b) => a \in K
    PROVE  IsFiniteSet(Rest) /\ Cardinality(Rest) <= Cardinality(K)
<1> DEFINE f == [b \in Rest |-> CHOOSE a \in Actor : Keeps(a, b)]
<1>1. \A b \in Rest : f[b] \in Actor /\ Keeps(f[b], b)
  BY RestIsKept
<1>2. f \in [Rest -> K]
  BY <1>1
<1>3. \A b, c \in Rest : f[b] = f[c] => b = c
  <2> HIDE DEF f
  <2> QED
    BY <1>1, KeepsOne
<1>4. f \in Injection(Rest, K)
  <2> HIDE DEF f
  <2> QED
    BY <1>2, <1>3 DEF Injection, IsInjective
<1>5. IsFiniteSet(Actor)
  BY FS_Interval DEF Actor
<1>6. IsFiniteSet(K)
  BY <1>5, FS_Subset
<1> QED
  BY <1>4, <1>6, FS_Injection

\* The pool sized for the steady state and some headroom never starves a
\* handler: a buffer per exchange and one per actor is enough, for every
\* number of actors and of exchanges.
THEOREM PoolNeverStarves == GSpec => []NeverStarved
<1>1. ASSUME GInv PROVE NeverStarved
  <2>1. TypeOK /\ Handling /\ Ownership /\ OneReply /\ Conserved
    BY <1>1 DEF GInv, IInv
  <2>2. IsFiniteSet(Actor) /\ Cardinality(Actor) = N /\ N \in Nat \ {0}
    BY FS_Interval DEF Actor
  <2>3. /\ IsFiniteSet(Pending) /\ Cardinality(Pending) \in Nat
        /\ exchanges \in Nat /\ Cardinality(Pending) <= exchanges
    BY <2>1, PendingFinite DEF Conserved
  <2>4. ASSUME NEW K \in SUBSET Actor, \A a \in Actor : \A b \in Rest : Keeps(a, b) => a \in K
        PROVE  /\ Cardinality(Buf \ free) \in Nat
               /\ Cardinality(Buf \ free) <= exchanges + Cardinality(K)
    <3>1. IsFiniteSet(Rest) /\ Cardinality(Rest) <= Cardinality(K)
      BY <2>1, <2>4, RestFits
    <3>2. IsFiniteSet(K) /\ Cardinality(K) \in Nat /\ Cardinality(Rest) \in Nat
      BY <2>2, <3>1, FS_Subset, FS_CardinalityType
    <3>3. /\ IsFiniteSet(Pending \cup Rest) /\ Cardinality(Pending \cup Rest) \in Nat
          /\ Cardinality(Pending \cup Rest) <= Cardinality(Pending) + Cardinality(Rest)
      <4>1. /\ IsFiniteSet(Pending \cup Rest) /\ IsFiniteSet(Pending \cap Rest)
            /\ Cardinality(Pending \cup Rest) =
                  Cardinality(Pending) + Cardinality(Rest) - Cardinality(Pending \cap Rest)
        BY <2>3, <3>1, FS_Union, FS_Intersection
      <4>2. Cardinality(Pending \cap Rest) \in Nat /\ Cardinality(Pending \cup Rest) \in Nat
        BY <4>1, FS_CardinalityType
      <4> QED
        BY <2>3, <3>2, <4>1, <4>2
    <3>4. Buf \ free \in SUBSET (Pending \cup Rest)
      BY DEF Rest
    <3>5. IsFiniteSet(Buf \ free) /\ Cardinality(Buf \ free) <= Cardinality(Pending \cup Rest)
      BY <3>3, <3>4, FS_Subset
    <3>6. Cardinality(Buf \ free) \in Nat
      BY <3>5, FS_CardinalityType
    <3> QED
      BY <2>3, <3>1, <3>2, <3>3, <3>5, <3>6
  <2>5. Cardinality(Buf \ free) <= exchanges + N
    BY <2>2, <2>4
  <2>6. ASSUME Cardinality(Buf) >= exchanges + N, NEW a \in Actor, Fetching(a), free = {}
        PROVE  FALSE
    <3>1. \A b \in Rest : ~Keeps(a, b)
      BY <2>6 DEF Keeps, Fetching, Owes
    <3>2. /\ Actor \ {a} \in SUBSET Actor
          /\ \A c \in Actor : \A b \in Rest : Keeps(c, b) => c \in Actor \ {a}
      BY <3>1
    <3>3. Cardinality(Actor \ {a}) = N - 1
      BY <2>2, FS_RemoveElement
    <3>4. Cardinality(Buf) \in Nat /\ Buf \ free = Buf
      BY <2>6, FS_CardinalityType
    <3>5. Cardinality(Buf) <= exchanges + (N - 1)
      BY <2>4, <3>2, <3>3, <3>4
    <3> QED
      BY <2>2, <2>3, <2>6, <3>4, <3>5
  <2> QED
    BY <2>5, <2>6 DEF NeverStarved
<1> QED
  BY <1>1, GoalInductive, PTL

=============================================================================
