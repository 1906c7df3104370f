---------------------- MODULE SingleThreadRuntime_proofs ----------------------
(***************************************************************************)
(* Proofs about SingleThreadRuntime and its goal1 binary, for every number *)
(* of actors, every limit and every batch size: the types, the order of    *)
(* the mailbox, what the calls count and record, how often two actors      *)
(* bounce a message, and that goal1 reports what it measured.              *)
(***************************************************************************)
EXTENDS Goal1, Sums_proofs

Busy == mpc \in {"run_for", "scope", "dispatch_batch"}

\* A call under way has a batch size of the caller's and has counted what it
\* handled, up to the batch it is in.
Counted ==
    /\ Busy => inner \in Inner
    /\ mpc = "run_for" => Handled = before + count
    /\ mpc = "scope" => Handled = before + count + done
    /\ mpc = "dispatch_batch" => Handled = before + done

\* The records fit in what was handled since the clear, the batch under way
\* left out.
Recorded == SumFunction(records) + (IF mpc = "scope" THEN done ELSE 0) <= Handled - cleared

\* What actor i has handled, 0 before it is registered.
HandledBy(i) == IF i \in DOMAIN actors THEN actors[i].handled ELSE 0

\* Actor i has sent n answers, as far as its limit is concerned.
HasSent(i, n) == i \in DOMAIN actors /\ actors[i].max \notin {Unlimited, Arbitrary} =>
                    actors[i].sent = n /\ n <= actors[i].max

\* Actor i has sent as many answers as it may, and those are n.
Spent(i, n) == i \in DOMAIN actors /\ actors[i].max # Unlimited /\ actors[i].max = n

\* At most two actors, each the other's peer and nothing else, and one seed
\* for the first.
Bouncing == /\ seeds = << 0 >> /\ mpc # "panicked" /\ Len(actors) <= 2
            /\ 1 \in DOMAIN actors => actors[1].peer = 1
            /\ 2 \in DOMAIN actors => actors[2].peer = 0
            /\ \A i \in DOMAIN actors : actors[i].max # Arbitrary

\* The message is on its way to the first actor or to the second, or one of
\* them has stopped answering.
Turns ==
    LET h1 == HandledBy(1)
        h2 == HandledBy(2)
    IN  \/ /\ Len(queue) = 1 /\ queue[1].dst = 0
           /\ h1 = h2 /\ HasSent(1, h1) /\ HasSent(2, h2)
        \/ /\ Len(queue) = 1 /\ queue[1].dst = 1
           /\ h1 = h2 + 1 /\ HasSent(1, h1) /\ HasSent(2, h2)
        \/ /\ queue = <<>> /\ h1 = h2 + 1
           /\ Spent(1, h2) /\ HasSent(2, h2)
        \/ /\ queue = <<>> /\ h1 = h2 /\ h1 > 0
           /\ Spent(2, h2 - 1) /\ HasSent(1, h1)

Bounced == /\ seeds = <<>> => /\ queue = <<>>
                              /\ \A i \in DOMAIN actors :
                                   actors[i].handled = 0 /\ actors[i].sent = 0
           /\ Bouncing => Turns

IInv == TypeOK /\ Counted /\ Recorded /\ NoOvertaking /\ Bounced

\* main of goal1, line by line.
OneMessage == Len(queue) = 1 /\ queue[1].dst \in {0, 1}
TwoActors == Len(actors) = 2 /\ actors[1].peer = 1 /\ actors[2].peer = 0
Lines ==
    /\ stage \in -1 .. 8
    /\ stage >= 0 => /\ mpc \in {"idle", "run_for", "scope"}
                     /\ batch \in Inner \ {0}
                     /\ Busy => stage \in {4, 7} /\ inner = batch
                     /\ \A i \in DOMAIN actors : actors[i].max = Unlimited
    /\ stage = 0 => actors = <<>> /\ queue = <<>>
    /\ stage = 1 => Len(actors) = 1 /\ actors[1].peer = 1 /\ queue = <<>>
    /\ stage = 2 => TwoActors /\ queue = <<>>
    /\ stage >= 3 => TwoActors /\ OneMessage
    /\ stage \in {5, 6} => records = <<>> /\ cleared = Handled
    /\ stage = 7 => /\ SumFunction(records) = count
                    /\ Busy => before = cleared
                    /\ mpc = "idle" => count = Handled - cleared
    /\ stage = 8 => measured = count /\ SumFunction(records) = count /\ count = Handled - cleared

GInv == IInv /\ Lines

-----------------------------------------------------------------------------
(* Lemmas about the actors and the mailbox *)

USE BoundsAssumption, InnerAssumption

ActorRec == [peer : Nat, max : Limit, sent : Nat, handled : Nat]
Msg == [dst : Nat, round : Nat]

\* Registered actors are numbered from 1.
LEMMA ActorsFacts ==
    ASSUME TypeOK
    PROVE  /\ actors \in Seq(ActorRec) /\ Len(actors) \in Nat /\ DOMAIN actors = 1 .. Len(actors)
           /\ IsFiniteSet(DOMAIN actors)
           /\ \A i \in DOMAIN actors : actors[i] \in ActorRec
<1>1. actors \in Seq(ActorRec)
  BY DEF TypeOK, ActorRec
<1>2. /\ Len(actors) \in Nat /\ DOMAIN actors = 1 .. Len(actors)
      /\ \A i \in DOMAIN actors : actors[i] \in ActorRec
  BY <1>1
<1>3. IsFiniteSet(1 .. Len(actors))
  <2>1. 1 \in Int /\ Len(actors) \in Int
    BY <1>2
  <2> QED
    BY <2>1, FS_Interval
<1> QED
  BY <1>1, <1>2, <1>3

LEMMA HandledNat ==
    ASSUME TypeOK
    PROVE  Handled \in Nat
<1> DEFINE f == [i \in DOMAIN actors |-> actors[i].handled]
<1>1. IsFiniteSet(DOMAIN actors) /\ \A i \in DOMAIN actors : f[i] \in Nat
  BY ActorsFacts DEF ActorRec
<1>2. DOMAIN f = DOMAIN actors
  OBVIOUS
<1> HIDE DEF f
<1>3. SumFunction(f) \in Nat
  BY <1>1, <1>2, SumNat DEF SumFunction
<1> QED
  BY <1>3 DEF Handled, f

\* A new actor has handled nothing.
LEMMA HandledAdd ==
    ASSUME TypeOK, NEW r \in ActorRec, r.handled = 0, actors' = Append(actors, r)
    PROVE  Handled' = Handled
<1> DEFINE n == Len(actors)
           f == [i \in DOMAIN actors |-> actors[i].handled]
           g == [i \in DOMAIN actors' |-> actors'[i].handled]
           D == 1 .. n
           E == 1 .. n + 1
           last == n + 1
<1>1. n \in Nat /\ DOMAIN actors = 1 .. n /\ actors \in Seq(ActorRec)
  BY ActorsFacts
<1>2. /\ DOMAIN actors' = 1 .. n + 1
      /\ \A i \in 1 .. n : actors'[i] = actors[i] /\ actors[i] \in ActorRec
      /\ actors'[n + 1] = r
  BY <1>1
<1>3. IsFiniteSet(1 .. n) /\ IsFiniteSet(1 .. n + 1)
  <2>1. 1 \in Int /\ n \in Int /\ n + 1 \in Int
    BY <1>1
  <2> QED
    BY <2>1, FS_Interval
<1>4. /\ DOMAIN f = D /\ DOMAIN g = E /\ last \in E /\ E \ {last} = D /\ D \subseteq E
      /\ \A i \in D : g[i] = f[i] /\ f[i] \in Int
      /\ g[last] = 0
  <2>1. n + 1 \in 1 .. n + 1 /\ (1 .. n + 1) \ {n + 1} = 1 .. n /\ 1 .. n \subseteq 1 .. n + 1
    BY <1>1
  <2>2. ASSUME NEW i \in 1 .. n PROVE g[i] = f[i] /\ f[i] \in Int
    <3>1. i \in DOMAIN actors /\ i \in DOMAIN actors' /\ actors'[i] = actors[i] /\ actors[i] \in ActorRec
      BY <1>1, <1>2, <2>1
    <3> QED
      BY <3>1 DEF ActorRec
  <2> QED
    BY <1>1, <1>2, <2>1, <2>2
<1>5. Handled = SumFunction(f) /\ Handled' = SumFunction(g)
  BY DEF Handled
<1>6. IsFiniteSet(D) /\ IsFiniteSet(E)
  BY <1>3
<1> HIDE DEF f, g, D, E, last
<1>7. SumFunctionOnSet(g, E) = g[last] + SumFunctionOnSet(g, E \ {last})
  <2>1. \A i \in E : g[i] \in Int
    BY <1>4
  <2> QED
    BY <1>4, <1>6, <2>1, SumRemove
<1>8. SumFunctionOnSet(g, D) = SumFunctionOnSet(f, D) /\ SumFunctionOnSet(f, D) \in Int
  BY <1>4, <1>6, SumSame, SumInt
<1>9. SumFunctionOnSet(g, E) = SumFunctionOnSet(f, D)
  <2>1. SumFunctionOnSet(g, E) = 0 + SumFunctionOnSet(g, D)
    BY <1>4, <1>7
  <2> QED
    BY <1>8, <2>1
<1> QED
  BY <1>4, <1>5, <1>9 DEF SumFunction

\* One actor handles one message more.
LEMMA HandledUp ==
    ASSUME TypeOK, NEW i \in DOMAIN actors, DOMAIN actors' = DOMAIN actors,
           actors'[i].handled = actors[i].handled + 1,
           \A j \in DOMAIN actors : j # i => actors'[j] = actors[j]
    PROVE  Handled' = Handled + 1
<1> DEFINE f == [j \in DOMAIN actors |-> actors[j].handled]
           g == [j \in DOMAIN actors' |-> actors'[j].handled]
           D == DOMAIN actors
<1>1. IsFiniteSet(D) /\ i \in D /\ \A j \in D : f[j] \in Int
  BY ActorsFacts DEF ActorRec
<1>2. g[i] = f[i] + 1 /\ \A j \in D : j # i => g[j] = f[j]
  OBVIOUS
<1>3. DOMAIN f = D /\ DOMAIN g = D
  OBVIOUS
<1>4. Handled = SumFunction(f) /\ Handled' = SumFunction(g)
  BY DEF Handled
<1> HIDE DEF f, g, D
<1>5. f[i] \in Int /\ g[i] \in Int
  BY <1>1, <1>2
<1>6. SumFunctionOnSet(g, D) = SumFunctionOnSet(f, D) - f[i] + g[i]
  BY <1>1, <1>2, <1>5, SumChange
<1>7. SumFunctionOnSet(f, D) \in Int
  BY <1>1, SumInt
<1>8. SumFunctionOnSet(g, D) = SumFunctionOnSet(f, D) + 1
  BY <1>2, <1>5, <1>6, <1>7
<1> QED
  BY <1>3, <1>4, <1>8 DEF SumFunction

LEMMA TailFacts ==
    ASSUME NEW S, NEW q \in Seq(S), q # <<>>
    PROVE  /\ Len(q) \in Nat \ {0} /\ Tail(q) \in Seq(S) /\ Len(Tail(q)) = Len(q) - 1
           /\ \A i \in 1 .. Len(q) - 1 : Tail(q)[i] = q[i + 1]
           /\ Head(q) = q[1] /\ Head(q) \in S
OBVIOUS

LEMMA LastFacts ==
    ASSUME NEW S, NEW q \in Seq(S), q # <<>>
    PROVE  q[Len(q)] \in S /\ Len(q) \in 1 .. Len(q)
OBVIOUS

LEMMA EmptySeq == ASSUME NEW S, NEW q \in Seq(S), Len(q) = 0 PROVE q = <<>>
OBVIOUS

LEMMA SameLen ==
    ASSUME NEW m \in Nat, NEW n \in Nat, 1 .. m = 1 .. n
    PROVE  m = n
<1>1. CASE m < n
  <2>1. n \in 1 .. n /\ n \notin 1 .. m
    BY <1>1
  <2> QED
    BY <2>1
<1>2. CASE n < m
  <2>1. m \in 1 .. m /\ m \notin 1 .. n
    BY <1>2
  <2> QED
    BY <2>1
<1> QED
  BY <1>1, <1>2

LEMMA AppendFacts ==
    ASSUME NEW S, NEW q \in Seq(S), NEW x \in S
    PROVE  /\ Append(q, x) \in Seq(S) /\ Len(Append(q, x)) = Len(q) + 1 /\ Len(q) \in Nat
           /\ \A i \in 1 .. Len(q) : Append(q, x)[i] = q[i]
           /\ Append(q, x)[Len(q) + 1] = x
OBVIOUS

\* What every dispatch to actor i does, leaving aside what the handler sends.
Called(i) ==
    /\ i \in DOMAIN actors /\ queue # <<>> /\ Head(queue).dst + 1 = i
    /\ done < inner /\ done' = done + 1 /\ mpc \in {"scope", "dispatch_batch"}
    /\ UNCHANGED <<records, mpc, inner, count, expired, history>>
    /\ actors' \in Seq(ActorRec) /\ DOMAIN actors' = DOMAIN actors
    /\ \A j \in DOMAIN actors : j # i => actors'[j] = actors[j]
    /\ actors'[i].peer = actors[i].peer /\ actors'[i].max = actors[i].max
    /\ actors'[i].handled = actors[i].handled + 1

\* What a dispatch to an actor with a limit does.
DispatchTo(i) ==
    /\ Called(i)
    /\ actors'[i].sent = IF Answers(actors[i]) /\ actors[i].max # Unlimited
                         THEN actors[i].sent + 1 ELSE actors[i].sent
    /\ queue' = IF Answers(actors[i])
                THEN Append(Tail(queue), [dst |-> actors[i].peer, round |-> Head(queue).round + 1])
                ELSE Tail(queue)

\* What a dispatch to any other actor does.
DispatchAnyTo(i) ==
    /\ Called(i) /\ actors[i].max = Arbitrary
    /\ \E n \in Nat : \E dsts \in [1 .. n -> Nat] :
         queue' = Tail(queue) \o
                    [k \in 1 .. n |-> [dst |-> dsts[k], round |-> Head(queue).round + 1]]

\* The record of an actor that has handled one message more.
LEMMA ActorUpdate ==
    ASSUME NEW A, NEW B, NEW C, NEW D, NEW x \in [peer : A, max : B, sent : C, handled : D],
           NEW k \in C, NEW h \in D
    PROVE  /\ [x EXCEPT !.handled = h, !.sent = k] \in [peer : A, max : B, sent : C, handled : D]
           /\ [x EXCEPT !.handled = h, !.sent = k].peer = x.peer
           /\ [x EXCEPT !.handled = h, !.sent = k].max = x.max
           /\ [x EXCEPT !.handled = h, !.sent = k].handled = h
           /\ [x EXCEPT !.handled = h, !.sent = k].sent = k
OBVIOUS

LEMMA NotFull ==
    ASSUME TypeOK, ~ (done >= inner)
    PROVE  done < inner
<1>1. inner \in Inner \cup {0} /\ done \in 0 .. inner
  BY DEF TypeOK
<1>2. inner \in Nat /\ done \in Nat
  BY <1>1, InnerAssumption
<1> QED
  BY <1>2

LEMMA DispatchFacts ==
    ASSUME TypeOK, Dispatch
    PROVE  \E i \in DOMAIN actors : DispatchTo(i)
<1> DEFINE i == Head(queue).dst + 1
<1>1. i \in DOMAIN actors /\ queue # <<>> /\ ~ (done >= inner) /\ mpc \in {"scope", "dispatch_batch"}
  BY DEF Dispatch, Full, Dry
<1>2. done < inner
  BY <1>1, NotFull
<1>3. queue' = IF Answers(actors[i])
               THEN Append(Tail(queue), [dst |-> actors[i].peer, round |-> Head(queue).round + 1])
               ELSE Tail(queue)
  BY DEF Dispatch, send
<1>4. /\ done' = done + 1 /\ UNCHANGED <<records, mpc, inner, count, expired, history>>
      /\ actors' = [actors EXCEPT
           ![i].handled = @ + 1,
           ![i].sent = IF Answers(actors[i]) /\ actors[i].max # Unlimited THEN @ + 1 ELSE @]
  BY DEF Dispatch
<1>5. actors \in Seq(ActorRec) /\ actors[i] \in ActorRec
  BY <1>1, ActorsFacts
<1> HIDE DEF i
<1> DEFINE k == IF Answers(actors[i]) /\ actors[i].max # Unlimited
                THEN actors[i].sent + 1 ELSE actors[i].sent
           h == actors[i].handled + 1
           r == [actors[i] EXCEPT !.handled = h, !.sent = k]
<1>6. k \in Nat /\ h \in Nat
  <2>1. actors[i].sent \in Nat /\ actors[i].handled \in Nat
    BY <1>5 DEF ActorRec
  <2> QED
    BY <2>1
<1>7. actors' = [actors EXCEPT ![i] = [actors[i] EXCEPT !.handled = @ + 1, !.sent = k]]
  BY <1>1, <1>4, <1>5 DEF ActorRec
<1>8. /\ r \in ActorRec /\ r.peer = actors[i].peer /\ r.max = actors[i].max
      /\ r.handled = h /\ r.sent = k
  <2> HIDE DEF h, k
  <2> QED
    BY <1>5, <1>6, ActorUpdate DEF ActorRec
<1>9. actors' = [actors EXCEPT ![i] = r]
  BY <1>7
<1> HIDE DEF h, r, k
<1>10. actors' \in Seq(ActorRec) /\ DOMAIN actors' = DOMAIN actors
  BY <1>1, <1>5, <1>8, <1>9
<1>11. actors'[i] = r /\ \A j \in DOMAIN actors : j # i => actors'[j] = actors[j]
  BY <1>1, <1>5, <1>9
<1> QED
  BY <1>1, <1>2, <1>3, <1>4, <1>8, <1>10, <1>11 DEF DispatchTo, Called, i, h, k

LEMMA AnyFacts ==
    ASSUME TypeOK, DispatchAny
    PROVE  \E i \in DOMAIN actors : DispatchAnyTo(i)
<1> DEFINE i == Head(queue).dst + 1
           h == actors[i].handled + 1
<1>1. /\ i \in DOMAIN actors /\ queue # <<>> /\ ~ (done >= inner)
      /\ mpc \in {"scope", "dispatch_batch"} /\ actors[i].max = Arbitrary
      /\ done' = done + 1 /\ UNCHANGED <<records, mpc, inner, count, expired, history>>
  BY DEF DispatchAny, Full, Dry
<1>2. done < inner
  BY <1>1, NotFull
<1>3. actors \in Seq(ActorRec) /\ actors[i] \in ActorRec
  BY <1>1, ActorsFacts
<1>4. PICK n \in 0 .. MaxSends - actors[i].sent : \E dsts \in [1 .. n -> 0 .. MaxActors - 1] :
        /\ actors' = [actors EXCEPT ![i].handled = @ + 1, ![i].sent = @ + n]
        /\ queue' = Tail(queue) \o
                       [k \in 1 .. n |-> [dst |-> dsts[k], round |-> Head(queue).round + 1]]
  BY DEF DispatchAny, sends
<1>5. PICK dsts \in [1 .. n -> 0 .. MaxActors - 1] :
        /\ actors' = [actors EXCEPT ![i].handled = @ + 1, ![i].sent = @ + n]
        /\ queue' = Tail(queue) \o
                       [k \in 1 .. n |-> [dst |-> dsts[k], round |-> Head(queue).round + 1]]
  BY <1>4
<1>6. n \in Nat /\ dsts \in [1 .. n -> Nat]
  <2>1. actors[i].sent \in Nat
    BY <1>3 DEF ActorRec
  <2> HIDE DEF i
  <2>2. MaxSends - actors[i].sent \in Int
    BY <2>1, BoundsAssumption
  <2>3. n \in Nat
    BY <2>2
  <2>4. 0 .. MaxActors - 1 \subseteq Nat
    BY BoundsAssumption
  <2> QED
    BY <2>3, <2>4
<1> DEFINE k == actors[i].sent + n
           r == [actors[i] EXCEPT !.handled = h, !.sent = k]
<1>7. h \in Nat /\ k \in Nat
  <2> HIDE DEF i
  <2>1. actors[i].sent \in Nat /\ actors[i].handled \in Nat
    BY <1>3 DEF ActorRec
  <2>2. n \in Nat
    BY <1>6
  <2> QED
    BY <2>1, <2>2
<1>8. actors' = [actors EXCEPT ![i] = r]
  BY <1>1, <1>3, <1>5 DEF ActorRec
<1> HIDE DEF i
<1>9. r \in ActorRec /\ r.peer = actors[i].peer /\ r.max = actors[i].max /\ r.handled = h
  <2> HIDE DEF h, k
  <2> QED
    BY <1>3, <1>7, ActorUpdate DEF ActorRec
<1> HIDE DEF h, r
<1>10. actors' \in Seq(ActorRec) /\ DOMAIN actors' = DOMAIN actors
  BY <1>1, <1>3, <1>8, <1>9
<1>11. actors'[i] = r /\ \A j \in DOMAIN actors : j # i => actors'[j] = actors[j]
  BY <1>1, <1>3, <1>8
<1>12. \E m \in Nat : \E f \in [1 .. m -> Nat] :
         queue' = Tail(queue) \o
                    [j \in 1 .. m |-> [dst |-> f[j], round |-> Head(queue).round + 1]]
  BY <1>5, <1>6
<1>13. Called(i)
  BY <1>1, <1>2, <1>9, <1>10, <1>11 DEF Called, i, h
<1> QED
  BY <1>1, <1>12, <1>13 DEF DispatchAnyTo

\* What either dispatch comes to.
LEMMA CalledFacts ==
    ASSUME TypeOK, Dispatch \/ DispatchAny
    PROVE  \E i \in DOMAIN actors : Called(i)
BY DispatchFacts, AnyFacts DEF DispatchTo, DispatchAnyTo

\* The mailbox with the messages of a handler at its end.
LEMMA SendsFacts ==
    ASSUME NEW S, NEW q \in Seq(S), NEW n \in Nat, NEW f \in [1 .. n -> S]
    PROVE  /\ q \o f \in Seq(S) /\ DOMAIN q = 1 .. Len(q) /\ Len(q) \in Nat
           /\ DOMAIN (q \o f) = 1 .. Len(q) + n
           /\ \A i \in 1 .. Len(q) : (q \o f)[i] = q[i]
           /\ \A i \in Len(q) + 1 .. Len(q) + n : (q \o f)[i] = f[i - Len(q)] /\ i - Len(q) \in 1 .. n
<1>1. f \in Seq(S) /\ Len(f) = n
  OBVIOUS
<1> QED
  BY <1>1

\* A return leaves everything the calls work on and sets the thread free.
LEMMA ReturnFacts ==
    ASSUME TypeOK, Returns
    PROVE  /\ Busy /\ mpc' = "idle" /\ count' \in Nat
           /\ inner' = 0 /\ done' = 0 /\ expired' = FALSE /\ before' = 0
           /\ UNCHANGED <<actors, queue, records, seeds, cleared>>
BY DEF Returns, RunForReturns, DropPartialBatch, DispatchBatchReturns, Return, Busy, TypeOK

-----------------------------------------------------------------------------
(* Types *)

LEMMA InitTypes == Init => TypeOK
<1> SUFFICES ASSUME Init PROVE TypeOK
  OBVIOUS
<1>1. inner \in Inner \cup {0} /\ done \in 0 .. inner
  BY DEF Init
<1>2. /\ actors \in Seq([peer : Nat, max : Limit, sent : Nat, handled : Nat])
      /\ queue \in Seq([dst : Nat, round : Nat]) /\ records \in Seq(Inner) /\ seeds \in Seq(Nat)
  BY DEF Init
<1> QED
  BY <1>1, <1>2 DEF Init, TypeOK

LEMMA CalledTypes ==
    ASSUME TypeOK, NEW i \in DOMAIN actors, Called(i), queue' \in Seq(Msg)
    PROVE  TypeOK'
<1>1. actors' \in Seq([peer : Nat, max : Limit, sent : Nat, handled : Nat])
  BY DEF Called, ActorRec
<1>2. inner' \in Inner \cup {0} /\ done' \in 0 .. inner'
  BY DEF Called, TypeOK
<1>3. UNCHANGED <<records, mpc, count, expired, seeds, before, cleared>>
  BY DEF Called, history
<1> QED
  BY <1>1, <1>2, <1>3 DEF TypeOK, Msg

LEMMA DispatchTypes ==
    ASSUME TypeOK, NEW i \in DOMAIN actors, DispatchTo(i)
    PROVE  TypeOK'
<1>1. queue' \in Seq(Msg)
  <2>1. queue \in Seq(Msg) /\ queue # <<>> /\ actors[i] \in ActorRec
    BY ActorsFacts DEF DispatchTo, Called, TypeOK, Msg
  <2>2. Tail(queue) \in Seq(Msg) /\ Head(queue) \in Msg
    BY <2>1, TailFacts
  <2>3. [dst |-> actors[i].peer, round |-> Head(queue).round + 1] \in Msg
    BY <2>1, <2>2 DEF Msg, ActorRec
  <2> QED
    BY <2>2, <2>3 DEF DispatchTo
<1> QED
  BY <1>1, CalledTypes DEF DispatchTo

LEMMA DispatchAnyTypes ==
    ASSUME TypeOK, NEW i \in DOMAIN actors, DispatchAnyTo(i)
    PROVE  TypeOK'
<1> DEFINE m(d) == [dst |-> d, round |-> Head(queue).round + 1]
<1>1. PICK n \in Nat : \E dsts \in [1 .. n -> Nat] :
        queue' = Tail(queue) \o [k \in 1 .. n |-> m(dsts[k])]
  BY DEF DispatchAnyTo
<1>2. PICK dsts \in [1 .. n -> Nat] : queue' = Tail(queue) \o [k \in 1 .. n |-> m(dsts[k])]
  BY <1>1
<1>3. queue \in Seq(Msg) /\ queue # <<>>
  BY DEF DispatchAnyTo, Called, TypeOK, Msg
<1>4. Tail(queue) \in Seq(Msg) /\ Head(queue) \in Msg
  BY <1>3, TailFacts
<1>5. \A d \in Nat : m(d) \in Msg
  BY <1>4 DEF Msg
<1> HIDE DEF m
<1>6. [k \in 1 .. n |-> m(dsts[k])] \in [1 .. n -> Msg]
  BY <1>5
<1>7. queue' \in Seq(Msg)
  BY <1>2, <1>4, <1>6, SendsFacts
<1> QED
  BY <1>7, CalledTypes DEF DispatchAnyTo

LEMMA NextTypes ==
    ASSUME TypeOK, Counted, [Next]_vars
    PROVE  TypeOK'
<1>1. ASSUME NEW peer \in 0 .. MaxActors - 1, NEW max \in Limit, add_actor(peer, max)
      PROVE  TypeOK'
  <2>1. [peer |-> peer, max |-> max, sent |-> 0, handled |-> 0]
          \in [peer : Nat, max : Limit, sent : Nat, handled : Nat]
    OBVIOUS
  <2>2. actors' \in Seq([peer : Nat, max : Limit, sent : Nat, handled : Nat])
    BY <1>1, <2>1 DEF add_actor, TypeOK
  <2> QED
    BY <1>1, <2>2 DEF add_actor, TypeOK, callVars, history
<1>2. ASSUME NEW dst \in 0 .. MaxActors - 1, seed(dst)
      PROVE  TypeOK'
  <2> DEFINE m == [dst |-> dst, round |-> IF queue = <<>> THEN 0 ELSE queue[Len(queue)].round]
  <2>1. queue # <<>> => queue[Len(queue)] \in [dst : Nat, round : Nat]
    <3>1. queue \in Seq([dst : Nat, round : Nat])
      BY DEF TypeOK
    <3> QED
      BY <3>1, LastFacts
  <2>2. m \in [dst : Nat, round : Nat]
    BY <2>1
  <2>3. queue' = Append(queue, m)
    BY <1>2 DEF seed, send
  <2> HIDE DEF m
  <2>4. queue' \in Seq([dst : Nat, round : Nat])
    BY <2>2, <2>3 DEF TypeOK
  <2>5. seeds' \in Seq(Nat)
    BY <1>2 DEF seed, TypeOK
  <2> QED
    BY <1>2, <2>4, <2>5 DEF seed, TypeOK, callVars
<1>3. ASSUME NEW n \in Inner, NEW to \in {"run_for", "dispatch_batch"}, Call(to, n)
      PROVE  TypeOK'
  <2>1. inner' \in Inner \cup {0} /\ done' \in 0 .. inner' /\ before' \in Nat
    BY <1>3, HandledNat DEF Call
  <2> QED
    BY <1>3, <2>1 DEF Call, TypeOK
<1>4. CASE clear
  <2>1. cleared' \in Nat /\ records' \in Seq(Inner)
    BY <1>4, HandledNat DEF clear
  <2> QED
    BY <1>4, <2>1 DEF clear, TypeOK, callVars
<1>5. CASE Expire
  BY <1>5 DEF Expire, TypeOK, history
<1>6. CASE StartScope
  BY <1>6 DEF StartScope, TypeOK, history
<1>7. CASE Dispatch \/ DispatchAny
  BY <1>7, DispatchFacts, DispatchTypes, AnyFacts, DispatchAnyTypes
<1>8. CASE NoActor \/ HandlerPanics
  <2>1. queue' \in Seq([dst : Nat, round : Nat])
    <3>1. queue' = Tail(queue) /\ queue # <<>>
      BY <1>8 DEF NoActor, HandlerPanics, Dry
    <3> QED
      BY <3>1, TailFacts DEF TypeOK
  <2> QED
    BY <1>8, <2>1 DEF NoActor, HandlerPanics, TypeOK, callVars, history
<1>9. CASE EndBatch
  <2>1. records' \in Seq(Inner)
    BY <1>9 DEF EndBatch, Counted, Busy, TypeOK
  <2> QED
    BY <1>9, <2>1 DEF EndBatch, TypeOK, history
<1>10. CASE Returns
  <2>1. inner' \in Inner \cup {0} /\ done' \in 0 .. inner'
    BY <1>10, ReturnFacts
  <2>2. /\ mpc' = "idle" /\ count' \in Nat /\ expired' = FALSE /\ before' = 0
        /\ UNCHANGED <<actors, queue, records, seeds, cleared>>
    BY <1>10, ReturnFacts
  <2> QED
    BY <2>1, <2>2 DEF TypeOK
<1>11. CASE UNCHANGED vars
  BY <1>11 DEF vars, callVars, history, TypeOK
<1> QED
  BY <1>1, <1>2, <1>3, <1>4, <1>5, <1>6, <1>7, <1>8, <1>9, <1>10, <1>11
  DEF Next, Calls, Step, run_for, dispatch_batch

-----------------------------------------------------------------------------
(* What a call counts and what it records *)

LEMMA SameHandled ==
    ASSUME UNCHANGED actors
    PROVE  Handled' = Handled
BY DEF Handled

LEMMA CalledUp ==
    ASSUME TypeOK, NEW i \in DOMAIN actors, Called(i)
    PROVE  Handled' = Handled + 1
BY HandledUp DEF Called

LEMMA NextCounted ==
    ASSUME TypeOK, Counted, [Next]_vars
    PROVE  Counted'
<1>1. ASSUME NEW peer, NEW max, add_actor(peer, max) PROVE Counted'
  BY <1>1 DEF add_actor, Counted, Busy
<1>2. ASSUME NEW dst, seed(dst) PROVE Counted'
  BY <1>2 DEF seed, Counted, Busy
<1>3. ASSUME NEW n \in Inner, NEW to \in {"run_for", "dispatch_batch"}, Call(to, n) PROVE Counted'
  <2>1. Handled' = Handled /\ Handled \in Nat
    BY <1>3, SameHandled, HandledNat DEF Call
  <2> QED
    BY <1>3, <2>1 DEF Call, Counted, Busy
<1>4. CASE clear
  BY <1>4 DEF clear, Counted, Busy
<1>5. CASE Expire
  BY <1>5, SameHandled DEF Expire, Counted, Busy, history
<1>6. CASE StartScope
  <2>1. Handled' = Handled /\ count \in Nat /\ before \in Nat
    BY <1>6, SameHandled DEF StartScope, TypeOK
  <2> QED
    BY <1>6, <2>1 DEF StartScope, Counted, Busy, history
<1>7. CASE Dispatch \/ DispatchAny
  <2>1. PICK i \in DOMAIN actors : Called(i)
    BY <1>7, CalledFacts
  <2>2. Handled' = Handled + 1 /\ done \in Nat /\ count \in Nat /\ before \in Nat
    BY <2>1, CalledUp DEF TypeOK
  <2>3. done' = done + 1 /\ UNCHANGED <<mpc, inner, count, before>>
    BY <2>1 DEF Called, history
  <2> QED
    BY <2>1, <2>2, <2>3 DEF Called, Counted, Busy
<1>8. CASE NoActor \/ HandlerPanics
  BY <1>8 DEF NoActor, HandlerPanics, Counted, Busy
<1>9. CASE EndBatch
  <2>1. Handled' = Handled /\ count \in Nat /\ before \in Nat /\ done \in Nat
    BY <1>9, SameHandled DEF EndBatch, TypeOK
  <2> QED
    BY <1>9, <2>1 DEF EndBatch, Counted, Busy, history
<1>10. CASE Returns
  BY <1>10, ReturnFacts DEF Counted, Busy
<1>11. CASE UNCHANGED vars
  <2>1. Handled' = Handled
    BY <1>11, SameHandled DEF vars
  <2> QED
    BY <1>11, <2>1 DEF vars, callVars, history, Counted, Busy
<1> QED
  BY <1>1, <1>2, <1>3, <1>4, <1>5, <1>6, <1>7, <1>8, <1>9, <1>10, <1>11
  DEF Next, Calls, Step, run_for, dispatch_batch

LEMMA NoneSum == SumFunction(<<>>) = 0
<1>1. DOMAIN <<>> = {}
  OBVIOUS
<1> QED
  BY <1>1, SumEmpty DEF SumFunction

LEMMA RecordsInt ==
    ASSUME TypeOK
    PROVE  records \in Seq(Int) /\ SumFunction(records) \in Int
<1>1. records \in Seq(Int)
  <2>1. records \in Seq(Inner) /\ Inner \subseteq Int
    BY DEF TypeOK
  <2> HIDE InnerAssumption
  <2>2. Len(records) \in Nat /\ DOMAIN records = 1 .. Len(records)
        /\ \A i \in DOMAIN records : records[i] \in Inner
    BY <2>1
  <2>3. records = [i \in 1 .. Len(records) |-> records[i]]
    BY <2>1
  <2> QED
    BY <2>1, <2>2, <2>3
<1> QED
  BY <1>1, SumAppend

LEMMA InitHandled == Init => Handled = 0
<1> SUFFICES ASSUME Init PROVE Handled = 0
  OBVIOUS
<1> DEFINE f == [i \in DOMAIN actors |-> actors[i].handled]
<1>1. DOMAIN f = {}
  BY DEF Init
<1> HIDE DEF f
<1>2. SumFunction(f) = 0
  BY <1>1, SumEmpty DEF SumFunction
<1> QED
  BY <1>2 DEF Handled, f

LEMMA NextRecorded ==
    ASSUME TypeOK, Recorded, [Next]_vars
    PROVE  Recorded'
<1> DEFINE b == SumFunction(records)
<1>0. b \in Int /\ Handled \in Nat /\ cleared \in Nat /\ done \in Nat /\ inner \in Nat
  BY RecordsInt, HandledNat DEF TypeOK
<1>1. ASSUME NEW peer \in 0 .. MaxActors - 1, NEW max \in Limit, add_actor(peer, max)
      PROVE  Recorded'
  <2> DEFINE r == [peer |-> peer, max |-> max, sent |-> 0, handled |-> 0]
  <2>1. r \in ActorRec /\ r.handled = 0
    BY DEF ActorRec
  <2>2. actors' = Append(actors, r)
    BY <1>1 DEF add_actor
  <2> HIDE DEF r
  <2>3. Handled' = Handled
    BY <2>1, <2>2, HandledAdd
  <2> QED
    BY <1>1, <2>3 DEF add_actor, Recorded, callVars, history
<1>2. ASSUME NEW dst, seed(dst) PROVE Recorded'
  BY <1>2, SameHandled DEF seed, Recorded, callVars
<1>3. ASSUME NEW n, NEW to \in {"run_for", "dispatch_batch"}, Call(to, n) PROVE Recorded'
  BY <1>3, SameHandled DEF Call, Recorded
<1>4. CASE clear
  <2>1. SumFunction(records)' = 0 /\ Handled' = Handled
    BY <1>4, NoneSum, SameHandled DEF clear
  <2> QED
    BY <1>0, <1>4, <2>1 DEF clear, Recorded
<1>5. CASE Expire
  BY <1>5, SameHandled DEF Expire, Recorded, history
<1>6. CASE StartScope
  BY <1>6, SameHandled DEF StartScope, Recorded, history
<1>7. CASE Dispatch \/ DispatchAny
  <2>1. PICK i \in DOMAIN actors : Called(i)
    BY <1>7, CalledFacts
  <2>2. Handled' = Handled + 1 /\ done' = done + 1 /\ UNCHANGED <<mpc, records, cleared>>
    BY <2>1, CalledUp DEF Called, history
  <2>3. SumFunction(records)' = b
    BY <2>2
  <2> HIDE DEF b
  <2>4. b + (IF mpc = "scope" THEN done ELSE 0) <= Handled - cleared
    BY DEF Recorded, b
  <2>5. b + (IF mpc = "scope" THEN done + 1 ELSE 0) <= Handled + 1 - cleared
    BY <1>0, <2>4
  <2>6. /\ mpc' = mpc /\ done' = done + 1 /\ Handled' = Handled + 1 /\ cleared' = cleared
        /\ SumFunction(records)' = b
    BY <2>2, <2>3
  <2>7. CASE mpc = "scope"
    BY <1>0, <2>5, <2>6, <2>7 DEF Recorded
  <2>8. CASE mpc # "scope"
    BY <1>0, <2>5, <2>6, <2>8 DEF Recorded
  <2> QED
    BY <2>7, <2>8
<1>8. CASE NoActor \/ HandlerPanics
  <2>1. Handled' = Handled /\ mpc' = "panicked" /\ UNCHANGED <<records, cleared>>
    BY <1>8, SameHandled DEF NoActor, HandlerPanics, history
  <2>2. b <= Handled - cleared
    BY <1>0 DEF Recorded
  <2> QED
    BY <1>0, <2>1, <2>2 DEF Recorded
<1>9. CASE EndBatch
  <2>1. records \in Seq(Int) /\ inner \in Int /\ records' = Append(records, inner)
    BY <1>0, <1>9, RecordsInt DEF EndBatch
  <2>2. SumFunction(Append(records, inner)) = b + inner
    BY <2>1, SumAppend
  <2>3. SumFunction(records)' = b + inner
    BY <2>1, <2>2
  <2>4. Handled' = Handled /\ cleared' = cleared /\ mpc' = "run_for" /\ mpc = "scope" /\ done >= inner
    BY <1>9, SameHandled DEF EndBatch, Full, history
  <2>5. b + done <= Handled - cleared
    BY <2>4 DEF Recorded
  <2> HIDE DEF b
  <2>6. b + inner + 0 <= Handled - cleared
    BY <1>0, <2>4, <2>5
  <2> QED
    BY <2>3, <2>4, <2>6 DEF Recorded
<1>10. CASE Returns
  <2>1. Handled' = Handled /\ mpc' = "idle" /\ UNCHANGED <<records, cleared>>
    BY <1>10, SameHandled, ReturnFacts
  <2>2. b <= Handled - cleared
    BY <1>0 DEF Recorded
  <2> QED
    BY <1>0, <2>1, <2>2 DEF Recorded
<1>11. CASE UNCHANGED vars
  BY <1>11, SameHandled DEF vars, callVars, history, Recorded
<1> QED
  BY <1>1, <1>2, <1>3, <1>4, <1>5, <1>6, <1>7, <1>8, <1>9, <1>10, <1>11
  DEF Next, Calls, Step, run_for, dispatch_batch

-----------------------------------------------------------------------------
(* The order of the mailbox *)

\* A queue whose rounds never differ by more than one, earlier rounds first.
Ordered(q) == \A i, j \in DOMAIN q : i < j => q[j].round \in q[i].round .. q[i].round + 1

LEMMA TailOrdered ==
    ASSUME NEW q \in Seq(Msg), q # <<>>, Ordered(q)
    PROVE  /\ Tail(q) \in Seq(Msg) /\ Ordered(Tail(q))
           /\ \A i \in DOMAIN Tail(q) : Tail(q)[i].round \in Head(q).round .. Head(q).round + 1
<1> DEFINE t == Tail(q)
           n == Len(q)
<1>1. /\ n \in Nat \ {0} /\ t \in Seq(Msg) /\ Len(t) = n - 1 /\ Head(q) = q[1]
      /\ \A i \in 1 .. n - 1 : t[i] = q[i + 1]
  BY TailFacts
<1>2. DOMAIN t = 1 .. n - 1 /\ DOMAIN q = 1 .. n
  BY <1>1
<1> HIDE DEF t, n
<1>3. ASSUME NEW i \in DOMAIN t, NEW j \in DOMAIN t, i < j
      PROVE  t[j].round \in t[i].round .. t[i].round + 1
  <2>1. /\ i + 1 \in DOMAIN q /\ j + 1 \in DOMAIN q /\ i + 1 < j + 1
        /\ t[i] = q[i + 1] /\ t[j] = q[j + 1]
    BY <1>1, <1>2, <1>3
  <2>2. q[j + 1].round \in q[i + 1].round .. q[i + 1].round + 1
    BY <2>1 DEF Ordered
  <2> QED
    BY <2>1, <2>2
<1>4. ASSUME NEW i \in DOMAIN t PROVE t[i].round \in q[1].round .. q[1].round + 1
  <2>1. i + 1 \in DOMAIN q /\ 1 \in DOMAIN q /\ 1 < i + 1 /\ t[i] = q[i + 1]
    BY <1>1, <1>2
  <2>2. q[i + 1].round \in q[1].round .. q[1].round + 1
    BY <2>1 DEF Ordered
  <2> QED
    BY <2>1, <2>2
<1> QED
  BY <1>1, <1>3, <1>4 DEF Ordered, t

LEMMA AppendOrdered ==
    ASSUME NEW q \in Seq(Msg), NEW m \in Msg, Ordered(q),
           \A i \in DOMAIN q : m.round \in q[i].round .. q[i].round + 1
    PROVE  Ordered(Append(q, m))
<1> DEFINE t == Append(q, m)
           n == Len(q)
<1>1. /\ n \in Nat /\ t \in Seq(Msg) /\ Len(t) = n + 1
      /\ \A i \in 1 .. n : t[i] = q[i]
      /\ t[n + 1] = m
  BY AppendFacts
<1>2. DOMAIN t = 1 .. n + 1 /\ DOMAIN q = 1 .. n
  BY <1>1
<1> HIDE DEF t, n
<1>3. ASSUME NEW i \in DOMAIN t, NEW j \in DOMAIN t, i < j
      PROVE  t[j].round \in t[i].round .. t[i].round + 1
  <2>1. i \in DOMAIN q /\ t[i] = q[i]
    BY <1>1, <1>2, <1>3
  <2>2. CASE j = n + 1
    BY <1>1, <2>1, <2>2
  <2>3. CASE j # n + 1
    <3>1. j \in DOMAIN q /\ t[j] = q[j]
      BY <1>1, <1>2, <1>3, <2>3
    <3>2. q[j].round \in q[i].round .. q[i].round + 1
      BY <1>3, <2>1, <3>1 DEF Ordered
    <3> QED
      BY <2>1, <3>1, <3>2
  <2> QED
    BY <2>2, <2>3
<1> QED
  BY <1>3 DEF Ordered, t

\* Messages of one round that may all follow those that wait.
LEMMA SendsOrdered ==
    ASSUME NEW q \in Seq(Msg), NEW n \in Nat, NEW f \in [1 .. n -> Msg], NEW r \in Nat,
           Ordered(q), \A k \in 1 .. n : f[k].round = r,
           \A i \in DOMAIN q : r \in q[i].round .. q[i].round + 1
    PROVE  Ordered(q \o f)
<1> DEFINE t == q \o f
           l == Len(q)
<1>1. /\ t \in Seq(Msg) /\ DOMAIN q = 1 .. l /\ l \in Nat /\ DOMAIN t = 1 .. l + n
      /\ \A i \in 1 .. l : t[i] = q[i]
      /\ \A i \in l + 1 .. l + n : t[i] = f[i - l] /\ i - l \in 1 .. n
  BY SendsFacts
<1> HIDE DEF t, l
<1>2. \A i \in l + 1 .. l + n : t[i].round = r
  BY <1>1
<1>3. ASSUME NEW i \in DOMAIN t, NEW j \in DOMAIN t, i < j
      PROVE  t[j].round \in t[i].round .. t[i].round + 1
  <2>1. i \in 1 .. l \/ i \in l + 1 .. l + n
    BY <1>1
  <2>2. j \in 1 .. l \/ j \in l + 1 .. l + n
    BY <1>1
  <2>3. CASE j \in 1 .. l
    <3>1. i \in DOMAIN q /\ j \in DOMAIN q /\ t[i] = q[i] /\ t[j] = q[j]
      BY <1>1, <1>3, <2>3
    <3> QED
      BY <1>3, <3>1 DEF Ordered
  <2>4. CASE i \in 1 .. l /\ j \in l + 1 .. l + n
    BY <1>1, <1>2, <2>4
  <2>5. CASE i \in l + 1 .. l + n /\ j \in l + 1 .. l + n
    BY <1>2, <2>5
  <2>6. CASE i \in l + 1 .. l + n /\ j \in 1 .. l
    BY <1>1, <1>3, <2>6
  <2> QED
    BY <2>1, <2>2, <2>3, <2>4, <2>5
<1> QED
  BY <1>3 DEF Ordered, t

\* A step keeps the order of the mailbox.
LEMMA NextOrdered ==
    ASSUME TypeOK, NoOvertaking, [Next]_vars
    PROVE  NoOvertaking'
<1>1. queue \in Seq(Msg) /\ Ordered(queue)
  BY DEF TypeOK, Msg, Ordered, NoOvertaking
<1>2. SUFFICES Ordered(queue')
  BY DEF Ordered, NoOvertaking
<1>3. CASE queue' = queue
  BY <1>1, <1>3
<1>4. ASSUME NEW dst \in 0 .. MaxActors - 1, seed(dst) PROVE Ordered(queue')
  <2> DEFINE last == queue[Len(queue)]
             m == [dst |-> dst, round |-> IF queue = <<>> THEN 0 ELSE last.round]
  <2>1. queue # <<>> => last \in Msg
    BY <1>1, LastFacts
  <2>2. m \in Msg /\ queue' = Append(queue, m)
    BY <1>4, <2>1 DEF seed, send, Msg
  <2>3. ASSUME NEW i \in DOMAIN queue PROVE m.round \in queue[i].round .. queue[i].round + 1
    <3>1. /\ queue # <<>> /\ Len(queue) \in DOMAIN queue /\ i <= Len(queue)
          /\ i \in Int /\ Len(queue) \in Int
      BY <1>1, <2>3
    <3>2. m.round = last.round /\ queue[i] \in Msg /\ last \in Msg
      BY <1>1, <2>1, <3>1
    <3>3. CASE i = Len(queue)
      BY <3>2, <3>3 DEF Msg
    <3>4. CASE i < Len(queue)
      BY <1>1, <3>1, <3>2, <3>4 DEF Ordered
    <3> QED
      BY <3>1, <3>3, <3>4
  <2> HIDE DEF m
  <2> QED
    BY <1>1, <2>2, <2>3, AppendOrdered
<1>5. CASE NoActor \/ HandlerPanics
  BY <1>1, <1>5, TailOrdered DEF NoActor, HandlerPanics, Dry
<1>6. CASE Dispatch
  <2>1. PICK i \in DOMAIN actors : DispatchTo(i)
    BY <1>6, DispatchFacts
  <2> DEFINE m == [dst |-> actors[i].peer, round |-> Head(queue).round + 1]
             t == Tail(queue)
  <2>2. queue # <<>> /\ queue' = IF Answers(actors[i]) THEN Append(t, m) ELSE t
    BY <2>1 DEF DispatchTo, Called
  <2>3. /\ t \in Seq(Msg) /\ Ordered(t) /\ Head(queue) \in Msg
        /\ \A j \in DOMAIN t : t[j].round \in Head(queue).round .. Head(queue).round + 1
    BY <1>1, <2>2, TailOrdered, TailFacts
  <2>4. m \in Msg /\ m.round = Head(queue).round + 1
    <3>1. actors[i].peer \in Nat /\ Head(queue).round \in Nat
      BY <2>3, ActorsFacts DEF Msg, ActorRec
    <3> QED
      BY <3>1 DEF Msg
  <2> HIDE DEF m, t
  <2>5. ASSUME NEW j \in DOMAIN t PROVE m.round \in t[j].round .. t[j].round + 1
    <3>1. t[j].round \in Nat /\ Head(queue).round \in Nat
      BY <2>3 DEF Msg
    <3>2. t[j].round \in Head(queue).round .. Head(queue).round + 1
      BY <2>3
    <3> QED
      BY <2>4, <3>1, <3>2
  <2>6. Ordered(Append(t, m))
    BY <2>3, <2>4, <2>5, AppendOrdered
  <2> QED
    BY <2>2, <2>3, <2>6
<1>7. CASE DispatchAny
  <2>1. PICK i \in DOMAIN actors : DispatchAnyTo(i)
    BY <1>7, AnyFacts
  <2> DEFINE r == Head(queue).round + 1
             t == Tail(queue)
  <2>2. queue # <<>>
    BY <2>1 DEF DispatchAnyTo, Called
  <2>3. PICK n \in Nat : \E dsts \in [1 .. n -> Nat] :
          queue' = t \o [k \in 1 .. n |-> [dst |-> dsts[k], round |-> r]]
    BY <2>1 DEF DispatchAnyTo
  <2>4. PICK dsts \in [1 .. n -> Nat] :
          queue' = t \o [k \in 1 .. n |-> [dst |-> dsts[k], round |-> r]]
    BY <2>3
  <2>5. /\ t \in Seq(Msg) /\ Ordered(t) /\ Head(queue) \in Msg
        /\ \A j \in DOMAIN t : t[j].round \in Head(queue).round .. Head(queue).round + 1
    BY <1>1, <2>2, TailOrdered, TailFacts
  <2>6. r \in Nat /\ \A j \in DOMAIN t : r \in t[j].round .. t[j].round + 1
    <3>1. Head(queue).round \in Nat
      BY <2>5 DEF Msg
    <3> HIDE DEF t
    <3>2. ASSUME NEW j \in DOMAIN t PROVE r \in t[j].round .. t[j].round + 1
      <4>1. t[j].round \in Head(queue).round .. Head(queue).round + 1
        BY <2>5
      <4> QED
        BY <3>1, <4>1
    <3> QED
      BY <3>1, <3>2
  <2> HIDE DEF r, t
  <2> DEFINE f == [k \in 1 .. n |-> [dst |-> dsts[k], round |-> r]]
  <2>7. f \in [1 .. n -> Msg] /\ \A k \in 1 .. n : f[k].round = r
    BY <2>6 DEF Msg
  <2> HIDE DEF f
  <2>8. Ordered(t \o f)
    BY <2>5, <2>6, <2>7, SendsOrdered
  <2> QED
    BY <2>4, <2>8 DEF f
<1> QED
  BY <1>3, <1>4, <1>5, <1>6, <1>7, ReturnFacts
  DEF Next, Calls, Step, run_for, dispatch_batch, Call, add_actor, clear, Expire, StartScope,
      EndBatch, vars

-----------------------------------------------------------------------------
(* Two actors and one message *)

LEMMA SameBounced ==
    ASSUME Bounced, UNCHANGED <<actors, queue, seeds>>, mpc = "panicked" => mpc' = "panicked"
    PROVE  Bounced'
<1>1. Bouncing' => Bouncing
  BY DEF Bouncing
<1>2. Turns => Turns'
  BY DEF Turns, HandledBy, HasSent, Spent
<1> QED
  BY <1>1, <1>2 DEF Bounced

LEMMA HandledByNat == ASSUME TypeOK PROVE \A i : HandledBy(i) \in Nat
BY ActorsFacts DEF HandledBy, ActorRec

\* An actor that joins has done nothing, as the message expects of it.
LEMMA JoinBounced ==
    ASSUME TypeOK, Bounced, NEW r \in ActorRec, r.handled = 0, r.sent = 0,
           actors' = Append(actors, r), UNCHANGED <<queue, seeds, mpc>>
    PROVE  Bounced'
<1> DEFINE n == Len(actors)
<1>1. /\ n \in Nat /\ DOMAIN actors = 1 .. n /\ DOMAIN actors' = 1 .. n + 1 /\ Len(actors') = n + 1
      /\ \A i \in DOMAIN actors : actors'[i] = actors[i] /\ i \in DOMAIN actors'
      /\ \A i \in DOMAIN actors' : i \in DOMAIN actors \/ actors'[i] = r
  <2>1. actors \in Seq(ActorRec) /\ n \in Nat /\ DOMAIN actors = 1 .. n
    BY ActorsFacts
  <2>2. /\ actors' \in Seq(ActorRec) /\ Len(actors') = n + 1
        /\ \A i \in 1 .. n : actors'[i] = actors[i]
        /\ actors'[n + 1] = r
    BY <2>1, AppendFacts
  <2>3. DOMAIN actors' = 1 .. n + 1
    BY <2>1, <2>2
  <2> HIDE DEF n
  <2>4. ASSUME NEW i \in 1 .. n + 1 PROVE i \in 1 .. n \/ i = n + 1
    BY <2>1
  <2> QED
    BY <2>1, <2>2, <2>3, <2>4
<1> HIDE DEF n
<1>2. ASSUME NEW i PROVE HandledBy(i)' = HandledBy(i)
  BY <1>1 DEF HandledBy
<1>3. HandledBy(1) \in Nat /\ HandledBy(2) \in Nat
  BY HandledByNat
<1>4. Bouncing' => Bouncing
  BY <1>1 DEF Bouncing
<1>5. ASSUME NEW i \in {1, 2}, HasSent(i, HandledBy(i)) PROVE HasSent(i, HandledBy(i))'
  <2>1. CASE i \in DOMAIN actors
    BY <1>1, <1>2, <1>5, <2>1 DEF HasSent
  <2>2. CASE i \in DOMAIN actors' /\ i \notin DOMAIN actors
    <3>1. actors'[i] = r /\ HandledBy(i)' = 0
      BY <1>1, <1>2, <2>2 DEF HandledBy
    <3>2. r.max \notin {Unlimited, Arbitrary} => r.max \in Nat
      BY DEF ActorRec
    <3> QED
      BY <3>1, <3>2 DEF HasSent
  <2>3. CASE i \notin DOMAIN actors'
    BY <2>3 DEF HasSent
  <2> QED
    BY <2>1, <2>2, <2>3
<1>6. Spent(1, HandledBy(2)) => Spent(1, HandledBy(2))'
  BY <1>1, <1>2 DEF Spent
<1>7. Spent(2, HandledBy(2) - 1) => Spent(2, HandledBy(2) - 1)'
  BY <1>1, <1>2 DEF Spent
<1>8. Turns => Turns'
  BY <1>2, <1>5, <1>6, <1>7 DEF Turns
<1>9. (seeds = <<>> => /\ queue = <<>>
                       /\ \A i \in DOMAIN actors : actors[i].handled = 0 /\ actors[i].sent = 0)'
  BY <1>1 DEF Bounced
<1> QED
  BY <1>4, <1>8, <1>9 DEF Bounced

\* The only seed sets the message on its way to the first actor.
LEMMA SeedBounced ==
    ASSUME TypeOK, Bounced, NEW dst \in Nat, seed(dst)
    PROVE  Bounced'
<1> DEFINE m == [dst |-> dst, round |-> IF queue = <<>> THEN 0 ELSE queue[Len(queue)].round]
<1>1. /\ seeds \in Seq(Nat) /\ seeds' = Append(seeds, dst) /\ UNCHANGED <<actors, mpc>>
      /\ queue' = Append(queue, m) /\ m.dst = dst
  BY DEF TypeOK, seed, send
<1> HIDE DEF m
<1>2. seeds' # <<>>
  BY <1>1
<1>3. CASE seeds' = << 0 >>
  <2>1. seeds = <<>> /\ dst = 0
    <3> DEFINE k == Len(seeds)
               l == Len(seeds')
    <3>1. l = k + 1 /\ seeds'[k + 1] = dst /\ k \in Nat
      BY <1>1, AppendFacts
    <3>2. l = 1 /\ seeds'[1] = 0
      BY <1>3
    <3> HIDE DEF k, l
    <3>3. k = 0
      BY <3>1, <3>2
    <3>4. dst = 0
      BY <3>1, <3>2, <3>3
    <3> QED
      BY <1>1, <3>3, <3>4 DEF k
  <2>2. queue = <<>> /\ \A i \in DOMAIN actors : actors[i].handled = 0 /\ actors[i].sent = 0
    BY <2>1 DEF Bounced
  <2>3. Len(queue') = 1 /\ queue'[1].dst = 0
    <3>1. queue' = Append(<<>>, m)
      BY <1>1, <2>2
    <3>2. Len(queue') = 1 /\ queue'[1] = m
      BY <3>1
    <3> QED
      BY <1>1, <2>1, <3>2
  <2>4. ASSUME NEW i PROVE HandledBy(i)' = 0
    BY <1>1, <2>2 DEF HandledBy
  <2>5. ASSUME NEW i PROVE HasSent(i, HandledBy(i))'
    <3>1. \A j \in DOMAIN actors :
            actors[j].max \notin {Unlimited, Arbitrary} => actors[j].max \in Nat
      BY ActorsFacts DEF ActorRec
    <3> QED
      BY <1>1, <2>2, <2>4, <3>1 DEF HasSent
  <2>6. Turns'
    BY <2>3, <2>4, <2>5 DEF Turns
  <2> QED
    BY <1>2, <2>6 DEF Bounced
<1> QED
  BY <1>2, <1>3 DEF Bounced, Bouncing

\* The mailbox after the message that waits alone is dispatched to actor i.
LEMMA DispatchTurn ==
    ASSUME TypeOK, NEW i \in DOMAIN actors, DispatchTo(i), Len(queue) = 1
    PROVE  /\ queue[1].dst + 1 = i /\ queue[1].dst \in Nat
           /\ Answers(actors[i]) => Len(queue') = 1 /\ queue'[1].dst = actors[i].peer
           /\ ~ Answers(actors[i]) => queue' = <<>>
<1> DEFINE m == [dst |-> actors[i].peer, round |-> Head(queue).round + 1]
<1>1. queue \in Seq(Msg) /\ queue # <<>> /\ Head(queue).dst + 1 = i
  BY DEF TypeOK, Msg, DispatchTo, Called
<1>2. Tail(queue) = <<>> /\ Head(queue) = queue[1] /\ Head(queue).dst \in Nat
  <2>1. Head(queue) = queue[1] /\ Head(queue) \in Msg /\ Len(Tail(queue)) = 0 /\ Tail(queue) \in Seq(Msg)
    BY <1>1, TailFacts
  <2>2. Tail(queue) = <<>>
    BY <2>1, EmptySeq
  <2> QED
    BY <2>1, <2>2 DEF Msg
<1>3. /\ Answers(actors[i]) => queue' = Append(<<>>, m)
      /\ ~ Answers(actors[i]) => queue' = <<>>
  BY <1>2 DEF DispatchTo
<1>4. m.dst = actors[i].peer
  OBVIOUS
<1> HIDE DEF m
<1>5. Len(Append(<<>>, m)) = 1 /\ Append(<<>>, m)[1] = m
  OBVIOUS
<1> QED
  BY <1>1, <1>2, <1>3, <1>4, <1>5

\* The message goes from one actor to the other until one of them is spent.
LEMMA DispatchBounced ==
    ASSUME TypeOK, Bounced, NEW i \in DOMAIN actors, DispatchTo(i)
    PROVE  Bounced'
<1> DEFINE a == actors[i]
           h1 == HandledBy(1)
           h2 == HandledBy(2)
<1>1. /\ actors' \in Seq(ActorRec) /\ DOMAIN actors' = DOMAIN actors
      /\ \A j \in DOMAIN actors : j # i => actors'[j] = actors[j]
      /\ actors'[i].peer = a.peer /\ actors'[i].max = a.max
      /\ actors'[i].handled = a.handled + 1
      /\ actors'[i].sent = IF Answers(a) /\ a.max # Unlimited THEN a.sent + 1 ELSE a.sent
      /\ queue # <<>> /\ mpc # "panicked" /\ UNCHANGED <<seeds, mpc>>
  BY DEF DispatchTo, Called, history
<1>2. seeds # <<>> /\ Len(actors') = Len(actors)
  <2>1. Len(actors') \in Nat /\ DOMAIN actors' = 1 .. Len(actors')
    BY <1>1
  <2>2. Len(actors) \in Nat /\ DOMAIN actors = 1 .. Len(actors)
    BY ActorsFacts
  <2>3. Len(actors') = Len(actors)
    BY ONLY <1>1, <2>1, <2>2, SameLen
  <2> QED
    BY <1>1, <2>3 DEF Bounced
<1>3. \A j \in DOMAIN actors : actors'[j].peer = actors[j].peer /\ actors'[j].max = actors[j].max
  BY <1>1
<1>4. Bouncing' => Bouncing
  BY <1>1, <1>2, <1>3 DEF Bouncing
<1>5. SUFFICES ASSUME Bouncing PROVE Turns'
  BY <1>1, <1>2, <1>4 DEF Bounced
<1>6. Turns /\ h1 \in Nat /\ h2 \in Nat
  BY <1>5, HandledByNat DEF Bounced
<1>7. \A j \in DOMAIN actors : /\ actors[j].max # Unlimited => actors[j].max \in Nat
                               /\ actors[j].max # Arbitrary /\ actors[j].sent \in Nat
  BY <1>5, ActorsFacts DEF ActorRec, Bouncing
<1>8. Answers(a) <=> a.max = Unlimited \/ a.sent < a.max
  BY DEF Answers
<1>9. CASE /\ Len(queue) = 1 /\ queue[1].dst = 0
           /\ h1 = h2 /\ HasSent(1, h1) /\ HasSent(2, h2)
  <2>1. i = 1 /\ a.peer = 1
    BY <1>5, <1>9, DispatchTurn DEF Bouncing
  <2>2. HandledBy(1)' = h1 + 1 /\ HandledBy(2)' = h2
    BY <1>1, <2>1 DEF HandledBy
  <2>3. HasSent(2, HandledBy(2))'
    BY <1>1, <1>9, <2>1, <2>2 DEF HasSent
  <2> HIDE DEF h1, h2
  <2>4. CASE Answers(a)
    <3>1. Len(queue') = 1 /\ queue'[1].dst = 1
      BY <1>9, <2>1, <2>4, DispatchTurn
    <3>2. HasSent(1, HandledBy(1))'
      BY <1>1, <1>6, <1>7, <1>8, <1>9, <2>1, <2>2, <2>4 DEF HasSent
    <3> QED
      BY <1>9, <2>2, <2>3, <3>1, <3>2 DEF Turns
  <2>5. CASE ~ Answers(a)
    <3>1. queue' = <<>>
      BY <1>9, <2>5, DispatchTurn
    <3>2. a.max = h1
      BY <1>6, <1>7, <1>8, <1>9, <2>1, <2>5 DEF HasSent
    <3>3. Spent(1, HandledBy(2))'
      BY <1>1, <1>8, <1>9, <2>1, <2>2, <2>5, <3>2 DEF Spent
    <3> QED
      BY <1>9, <2>2, <2>3, <3>1, <3>3 DEF Turns
  <2> QED
    BY <2>4, <2>5
<1>10. CASE /\ Len(queue) = 1 /\ queue[1].dst = 1
            /\ h1 = h2 + 1 /\ HasSent(1, h1) /\ HasSent(2, h2)
  <2>1. i = 2 /\ a.peer = 0
    BY <1>5, <1>10, DispatchTurn DEF Bouncing
  <2>2. HandledBy(2)' = h2 + 1 /\ HandledBy(1)' = h1
    BY <1>1, <2>1 DEF HandledBy
  <2>3. HasSent(1, HandledBy(1))'
    BY <1>1, <1>10, <2>1, <2>2 DEF HasSent
  <2> HIDE DEF h1, h2
  <2>4. CASE Answers(a)
    <3>1. Len(queue') = 1 /\ queue'[1].dst = 0
      BY <1>10, <2>1, <2>4, DispatchTurn
    <3>2. HasSent(2, HandledBy(2))'
      BY <1>1, <1>6, <1>7, <1>8, <1>10, <2>1, <2>2, <2>4 DEF HasSent
    <3> QED
      BY <1>10, <2>2, <2>3, <3>1, <3>2 DEF Turns
  <2>5. CASE ~ Answers(a)
    <3>1. queue' = <<>>
      BY <1>10, <2>5, DispatchTurn
    <3>2. a.max = h2
      BY <1>6, <1>7, <1>8, <1>10, <2>1, <2>5 DEF HasSent
    <3>3. HandledBy(2)' - 1 = h2 /\ HandledBy(1)' = HandledBy(2)' /\ HandledBy(1)' > 0
      BY <1>6, <1>10, <2>2
    <3>4. Spent(2, HandledBy(2) - 1)'
      BY <1>1, <1>8, <2>1, <2>5, <3>2, <3>3 DEF Spent
    <3> QED
      BY <2>3, <3>1, <3>3, <3>4 DEF Turns
  <2> QED
    BY <2>4, <2>5
<1> QED
  BY <1>1, <1>6, <1>9, <1>10 DEF Turns

LEMMA NextBounced ==
    ASSUME TypeOK, Bounced, [Next]_vars
    PROVE  Bounced'
<1>1. ASSUME NEW peer \in 0 .. MaxActors - 1, NEW max \in Limit, add_actor(peer, max)
      PROVE  Bounced'
  <2> DEFINE r == [peer |-> peer, max |-> max, sent |-> 0, handled |-> 0]
  <2>1. r \in ActorRec /\ r.handled = 0 /\ r.sent = 0
    BY DEF ActorRec
  <2>2. actors' = Append(actors, r) /\ UNCHANGED <<queue, seeds, mpc>>
    BY <1>1 DEF add_actor, history
  <2> HIDE DEF r
  <2> QED
    BY <2>1, <2>2, JoinBounced
<1>2. ASSUME NEW dst \in 0 .. MaxActors - 1, seed(dst) PROVE Bounced'
  BY <1>2, SeedBounced
<1>3. ASSUME NEW n, NEW to \in {"run_for", "dispatch_batch"}, Call(to, n) PROVE Bounced'
  BY <1>3, SameBounced DEF Call
<1>4. CASE clear
  BY <1>4, SameBounced DEF clear
<1>5. CASE Expire
  BY <1>5, SameBounced DEF Expire, history
<1>6. CASE StartScope
  BY <1>6, SameBounced DEF StartScope, history
<1>7. CASE Dispatch
  BY <1>7, DispatchFacts, DispatchBounced
<1>8. CASE NoActor \/ HandlerPanics
  <2>1. queue # <<>> /\ mpc' = "panicked" /\ UNCHANGED seeds
    BY <1>8 DEF NoActor, HandlerPanics, Dry, history
  <2> QED
    BY <2>1 DEF Bounced, Bouncing
<1>9. CASE EndBatch
  BY <1>9, SameBounced DEF EndBatch, history
<1>10. CASE Returns
  BY <1>10, ReturnFacts, SameBounced DEF Busy
<1>11. CASE UNCHANGED vars
  BY <1>11, SameBounced DEF vars, history
<1>12. CASE DispatchAny
  <2>1. PICK i \in DOMAIN actors : DispatchAnyTo(i)
    BY <1>12, AnyFacts
  <2>2. queue # <<>> /\ seeds' = seeds /\ i \in DOMAIN actors' /\ actors'[i].max = Arbitrary
    BY <2>1 DEF DispatchAnyTo, Called, history
  <2> QED
    BY <2>2 DEF Bounced, Bouncing
<1> QED
  BY <1>1, <1>2, <1>3, <1>4, <1>5, <1>6, <1>7, <1>8, <1>9, <1>10, <1>11,
     <1>12
  DEF Next, Calls, Step, run_for, dispatch_batch

-----------------------------------------------------------------------------
(* The theorems about the runtime *)

LEMMA InitInv == Init => IInv
<1> SUFFICES ASSUME Init PROVE IInv
  OBVIOUS
<1>1. TypeOK
  BY InitTypes
<1>2. Counted
  BY DEF Init, Counted, Busy
<1>3. Recorded
  <2>1. SumFunction(records) = 0 /\ Handled = 0 /\ mpc = "idle" /\ cleared = 0
    BY NoneSum, InitHandled DEF Init
  <2> QED
    BY <2>1 DEF Recorded
<1>4. NoOvertaking
  BY DEF Init, NoOvertaking
<1>5. Bounced
  BY DEF Init, Bounced, Bouncing
<1> QED
  BY <1>1, <1>2, <1>3, <1>4, <1>5 DEF IInv

LEMMA NextInv == IInv /\ [Next]_vars => IInv'
BY NextTypes, NextCounted, NextRecorded, NextOrdered, NextBounced DEF IInv

LEMMA InvAlways == Spec => []IInv
BY InitInv, NextInv, PTL DEF Spec

\* The state keeps its types, whatever the caller does.
THEOREM TypeCorrect == Spec => []TypeOK
<1>1. IInv => TypeOK
  BY DEF IInv
<1> QED
  BY <1>1, InvAlways, PTL

\* A message waits for the messages of its own round only: an answer to a
\* message that was dispatched after it was queued comes after it.
THEOREM MailboxIsFair == Spec => []NoOvertaking
<1>1. IInv => NoOvertaking
  BY DEF IInv
<1> QED
  BY <1>1, InvAlways, PTL

\* The records never claim more events than were handled since the clear.
THEOREM RecordsAreHandled == Spec => []NoPhantomEvents
<1>1. IInv => NoPhantomEvents
  <2> SUFFICES ASSUME IInv PROVE SumFunction(records) <= Handled - cleared
    BY DEF NoPhantomEvents
  <2>1. /\ SumFunction(records) \in Int /\ Handled \in Nat /\ cleared \in Nat /\ done \in Nat
        /\ Recorded
    BY RecordsInt, HandledNat DEF IInv, TypeOK
  <2> QED
    BY <2>1 DEF Recorded
<1> QED
  BY <1>1, InvAlways, PTL

\* Only a return takes the caller's thread out of a call.
LEMMA OnlyReturns ==
    ASSUME [Next]_vars, mpc \notin {"idle", "panicked"}, mpc' = "idle"
    PROVE  Returns
BY DEF Next, Calls, Step, add_actor, seed, run_for, dispatch_batch, Call, clear, Expire,
       StartScope, Dispatch, DispatchAny, HandlerPanics, NoActor, EndBatch, vars

\* A call returns all that it handled, but for a partial batch that it gave
\* up on an empty mailbox.
THEOREM LossIsPartial == Spec => LossOnlyWhenDry
<1> DEFINE Lossless == mpc \notin {"idle", "panicked"} /\ mpc' = "idle" =>
             LET lost == Handled - before - count'
             IN lost # 0 => lost \in 1 .. inner - 1 /\ queue = <<>>
<1>1. IInv /\ [Next]_vars => Lossless
  <2> SUFFICES ASSUME IInv, [Next]_vars, mpc \notin {"idle", "panicked"}, mpc' = "idle",
                      Handled - before - count' # 0
               PROVE  Handled - before - count' \in 1 .. inner - 1 /\ queue = <<>>
    OBVIOUS
  <2>1. /\ Handled \in Nat /\ before \in Nat /\ count \in Nat /\ done \in Nat /\ inner \in Nat
        /\ Counted
    BY HandledNat DEF IInv, TypeOK
  <2>2. CASE RunForReturns
    BY <2>1, <2>2 DEF RunForReturns, Return, Counted
  <2>3. CASE DropPartialBatch
    <3>1. /\ Handled = before + count + done /\ count' = count /\ ~ (done >= inner)
          /\ queue = <<>>
      BY <2>1, <2>3 DEF DropPartialBatch, Return, Counted, Full, Dry
    <3> QED
      BY <2>1, <3>1
  <2>4. CASE DispatchBatchReturns
    BY <2>1, <2>4 DEF DispatchBatchReturns, Return, Counted
  <2> QED
    BY <2>2, <2>3, <2>4, OnlyReturns DEF Returns
<1>2. IInv /\ [Next]_vars => [Lossless]_vars
  BY <1>1
<1> QED
  BY <1>2, InvAlways, PTL DEF Spec, LossOnlyWhenDry

LEMMA HandledByTwo ==
    ASSUME TypeOK, Len(actors) = 2
    PROVE  /\ DOMAIN actors = {1, 2}
           /\ Handled = HandledBy(1) + HandledBy(2) /\ HandledBy(1) \in Nat /\ HandledBy(2) \in Nat
<1> DEFINE f == [i \in DOMAIN actors |-> actors[i].handled]
           D == {1, 2}
<1>1. DOMAIN actors = D /\ IsFiniteSet(D)
  <2>1. DOMAIN actors = 1 .. 2 /\ IsFiniteSet(DOMAIN actors)
    BY ActorsFacts
  <2>2. 1 .. 2 = {1, 2}
    OBVIOUS
  <2> QED
    BY <2>1, <2>2
<1>2. HandledBy(1) \in Nat /\ HandledBy(2) \in Nat
  BY HandledByNat
<1>3. f[1] = HandledBy(1) /\ f[2] = HandledBy(2) /\ DOMAIN f = D
  BY <1>1 DEF HandledBy
<1>4. 1 \in D /\ \A i \in D : f[i] \in Int
  BY <1>1, <1>2, <1>3
<1>5. D \ {1} = {2} /\ {2} \ {2} = {} /\ 2 \in {2} /\ IsFiniteSet({2})
  <2>1. IsFiniteSet({2})
    BY FS_Singleton
  <2> QED
    BY <2>1
<1> HIDE DEF f, D
<1>6. SumFunctionOnSet(f, D) = f[1] + SumFunctionOnSet(f, {2})
  BY <1>1, <1>4, <1>5, SumRemove
<1>7. SumFunctionOnSet(f, {2}) = f[2] + SumFunctionOnSet(f, {})
  <2>1. \A i \in {2} : f[i] \in Int
    BY <1>2, <1>3
  <2> QED
    BY <1>5, <2>1, SumRemove
<1>8. SumFunctionOnSet(f, {}) = 0
  BY SumEmpty
<1>9. Handled = f[1] + (f[2] + 0)
  BY <1>3, <1>6, <1>7, <1>8 DEF Handled, SumFunction, f
<1> QED
  BY <1>1, <1>2, <1>3, <1>9 DEF D

\* Two actors that bounce one seed handle as many messages as their limits
\* allow, whatever calls the caller cuts the work into.
THEOREM BouncesAreCounted == Spec => []BouncesAddUp
<1>1. IInv => BouncesAddUp
  <2> SUFFICES ASSUME IInv, mpc = "idle", queue = <<>>, seeds = << 0 >>,
                      Len(actors) = 2, actors[1].peer = 1, actors[2].peer = 0,
                      Arbitrary \notin {actors[1].max, actors[2].max}
               PROVE  Handled = Bounces(actors[1].max, actors[2].max)
    BY DEF BouncesAddUp
  <2> DEFINE h1 == HandledBy(1)
             h2 == HandledBy(2)
             max0 == actors[1].max
             max1 == actors[2].max
  <2>1. /\ DOMAIN actors = {1, 2} /\ Handled = h1 + h2 /\ h1 \in Nat /\ h2 \in Nat
    BY HandledByTwo DEF IInv
  <2>2. (max0 # Unlimited => max0 \in Nat) /\ (max1 # Unlimited => max1 \in Nat)
    BY <2>1, ActorsFacts DEF IInv, ActorRec
  <2>3. Turns /\ Len(queue) = 0
    BY <2>1 DEF IInv, Bounced, Bouncing
  <2>4. CASE h1 = h2 + 1 /\ Spent(1, h2) /\ HasSent(2, h2)
    <3>1. max0 # Unlimited /\ max0 = h2 /\ (max1 # Unlimited => h2 <= max1)
      BY <2>1, <2>4 DEF Spent, HasSent
    <3>2. Bounces(max0, max1) = 2 * max0 + 1
      BY <3>1 DEF Bounces
    <3> HIDE DEF h1, h2, max0
    <3> QED
      BY <2>1, <2>2, <2>4, <3>1, <3>2 DEF max0
  <2>5. CASE h1 = h2 /\ h1 > 0 /\ Spent(2, h2 - 1) /\ HasSent(1, h1)
    <3>1. max1 # Unlimited /\ max1 = h2 - 1 /\ (max0 # Unlimited => h2 <= max0)
      BY <2>1, <2>5 DEF Spent, HasSent
    <3>2. max0 # Unlimited => ~ (max0 <= max1)
      BY <2>1, <2>2, <3>1
    <3>3. Bounces(max0, max1) = 2 * max1 + 2
      BY <3>1, <3>2 DEF Bounces
    <3> HIDE DEF h1, h2, max1
    <3> QED
      BY <2>1, <2>2, <2>5, <3>1, <3>3 DEF max1
  <2> QED
    BY <2>3, <2>4, <2>5 DEF Turns
<1> QED
  BY <1>1, InvAlways, PTL

-----------------------------------------------------------------------------
USE PingPongAssumption

(* The theorems about goal1 *)

LEMMA MainCases ==
    ASSUME Main
    PROVE  /\ stage' = stage + 1 /\ UNCHANGED <<batch, measured>>
           /\ \/ stage = 0 /\ add_actor(1, Unlimited)
              \/ stage = 1 /\ add_actor(0, Unlimited)
              \/ stage = 2 /\ seed(0)
              \/ stage \in {3, 6} /\ run_for(batch)
              \/ stage = 4 /\ clear
              \/ stage = 5 /\ mpc = "idle" /\ UNCHANGED vars
<1>1. stage = 0 \/ stage = 1 \/ stage = 2 \/ stage = 3 \/ stage = 4 \/ stage = 5 \/ stage = 6
  BY DEF Main
<1> QED
  BY <1>1 DEF Main, Do, PingPongActor

\* main only calls what any caller may call.
LEMMA MainIsCaller == Lines /\ [GNext]_gvars => [Next]_vars
<1> SUFFICES ASSUME Lines, [GNext]_gvars PROVE [Next]_vars
  OBVIOUS
<1>1. CASE Main
  <2>1. 0 \in 0 .. MaxActors - 1 /\ 1 \in 0 .. MaxActors - 1 /\ batch \in Inner
    BY <1>1 DEF Main, Lines
  <2>2. ASSUME NEW peer \in {0, 1}, add_actor(peer, Unlimited) PROVE Next
    BY <2>1, <2>2 DEF Next, Calls
  <2>3. seed(0) \/ run_for(batch) \/ clear => Next
    BY <2>1 DEF Next, Calls
  <2> QED
    BY <1>1, <2>2, <2>3, MainCases
<1> QED
  BY <1>1 DEF GNext, Next, Report, gvars

LEMMA InitLines == GInit => Lines
BY DEF GInit, Init, Lines, Library, Busy

\* The parts of Lines that the stage has no say in.
LEMMA LinesOfStage ==
    ASSUME Lines, stage >= 3
    PROVE  /\ mpc \in {"idle", "run_for", "scope"} /\ TwoActors /\ OneMessage /\ queue # <<>>
           /\ batch \in Inner \ {0} /\ stage \in 3 .. 8
           /\ \A i \in DOMAIN actors : actors[i].max = Unlimited
<1>1. stage \in 3 .. 8 /\ TwoActors /\ OneMessage
  BY DEF Lines
<1>2. queue # <<>>
  BY <1>1 DEF OneMessage
<1> QED
  BY <1>1, <1>2 DEF Lines

\* The message in the mailbox of main is answered to the other actor.
LEMMA DispatchLines ==
    ASSUME TypeOK, Lines, stage \in {4, 7}, NEW i \in DOMAIN actors, DispatchTo(i)
    PROVE  TwoActors' /\ OneMessage' /\ \A j \in DOMAIN actors' : actors'[j].max = Unlimited
<1>1. TwoActors /\ OneMessage /\ \A j \in DOMAIN actors : actors[j].max = Unlimited
  BY LinesOfStage
<1>2. /\ actors' \in Seq(ActorRec) /\ DOMAIN actors' = DOMAIN actors
      /\ \A j \in DOMAIN actors : j # i => actors'[j] = actors[j]
      /\ actors'[i].peer = actors[i].peer /\ actors'[i].max = actors[i].max
  BY DEF DispatchTo, Called
<1>3. \A j \in DOMAIN actors : actors'[j].peer = actors[j].peer /\ actors'[j].max = actors[j].max
  BY <1>2
<1>4. DOMAIN actors = {1, 2} /\ Len(actors') = 2
  <2>1. Len(actors') \in Nat /\ DOMAIN actors' = 1 .. Len(actors')
    BY <1>2
  <2>2. Len(actors) \in Nat /\ DOMAIN actors = 1 .. Len(actors)
    BY ActorsFacts
  <2>3. Len(actors') = Len(actors)
    BY ONLY <1>2, <2>1, <2>2, SameLen
  <2> QED
    BY <1>1, <2>2, <2>3 DEF TwoActors
<1>5. Answers(actors[i]) /\ actors[i].peer \in {0, 1}
  BY <1>1, <1>4 DEF Answers, TwoActors
<1>6. Len(queue') = 1 /\ queue'[1].dst = actors[i].peer
  BY <1>1, <1>5, DispatchTurn DEF OneMessage
<1> QED
  BY <1>1, <1>2, <1>3, <1>4, <1>5, <1>6 DEF TwoActors, OneMessage

\* While a call of main is under way.
LEMMA StepLines ==
    ASSUME IInv, Lines, stage >= 0, Step \/ Expire, UNCHANGED <<stage, batch, measured>>
    PROVE  Lines'
<1>1. Busy /\ stage \in {4, 7} /\ inner = batch
  BY DEF Lines, Busy, Step, StartScope, Dispatch, DispatchAny, HandlerPanics, NoActor, EndBatch,
         Returns, RunForReturns, DropPartialBatch, DispatchBatchReturns, Expire
<1>2. /\ mpc \in {"idle", "run_for", "scope"} /\ TwoActors /\ OneMessage /\ queue # <<>>
      /\ batch \in Inner \ {0}
      /\ \A i \in DOMAIN actors : actors[i].max = Unlimited
  BY <1>1, LinesOfStage
<1>3. /\ TypeOK /\ Counted
      /\ count \in Nat /\ done \in 0 .. inner /\ inner \in Nat /\ Handled \in Nat /\ cleared \in Nat
  <2>1. TypeOK /\ Counted
    BY DEF IInv
  <2>2. count \in Nat /\ done \in 0 .. inner /\ inner \in Inner \cup {0} /\ cleared \in Nat
    BY <2>1 DEF TypeOK
  <2>3. inner \in Nat
    BY <2>2, InnerAssumption
  <2>4. Handled \in Nat
    BY <2>1, HandledNat
  <2> QED
    BY <2>1, <2>2, <2>3, <2>4
<1>4. stage = 7 => SumFunction(records) = count /\ before = cleared
  BY <1>1 DEF Lines
\* What is left to show of the stages 4 and 7.
<1>5. SUFFICES /\ mpc' \in {"idle", "run_for", "scope"}
               /\ Busy' => inner' = batch
               /\ \A i \in DOMAIN actors' : actors'[i].max = Unlimited
               /\ TwoActors' /\ OneMessage'
               /\ stage = 7 => /\ SumFunction(records)' = count'
                               /\ Busy' => before' = cleared'
                               /\ mpc' = "idle" => count' = Handled' - cleared'
  BY <1>1, <1>2 DEF Lines
<1>6. UNCHANGED <<actors, queue>> =>
        /\ TwoActors' /\ OneMessage' /\ \A i \in DOMAIN actors' : actors'[i].max = Unlimited
  BY <1>2 DEF TwoActors, OneMessage
<1>7. CASE StartScope \/ Expire
  <2>1. /\ UNCHANGED <<actors, queue, records, count, inner, before, cleared>>
        /\ mpc' \in {"run_for", "scope"}
    BY <1>2, <1>7 DEF StartScope, Expire, history
  <2> QED
    BY <1>1, <1>4, <1>6, <2>1 DEF Busy
<1>8. CASE Dispatch
  <2>1. PICK i \in DOMAIN actors : DispatchTo(i)
    BY <1>3, <1>8, DispatchFacts
  <2>2. UNCHANGED <<records, mpc, inner, count, before, cleared>>
    BY <2>1 DEF DispatchTo, Called, history
  <2>3. TwoActors' /\ OneMessage' /\ \A j \in DOMAIN actors' : actors'[j].max = Unlimited
    BY <1>1, <1>3, <2>1, DispatchLines
  <2> QED
    BY <1>1, <1>2, <1>4, <2>2, <2>3 DEF Busy
<1>9. CASE NoActor
  <2>1. Head(queue) = queue[1] /\ queue[1].dst \in {0, 1}
    BY <1>2, <1>3, TailFacts DEF TypeOK, OneMessage
  <2>2. DOMAIN actors = 1 .. 2
    BY <1>2, <1>3, ActorsFacts DEF TwoActors
  <2> QED
    BY <1>9, <2>1, <2>2 DEF NoActor
<1>10. CASE EndBatch
  <2>1. /\ UNCHANGED <<actors, queue, inner, before, cleared>> /\ mpc' = "run_for"
        /\ records' = Append(records, inner) /\ count' = count + done /\ done >= inner
    BY <1>10 DEF EndBatch, Full, history
  <2>2. SumFunction(Append(records, inner)) = SumFunction(records) + inner
    BY <1>3, RecordsInt, SumAppend
  <2>3. done = inner
    BY <1>3, <2>1
  <2>4. stage = 7 => SumFunction(records') = count'
    BY <1>4, <2>1, <2>2, <2>3
  <2> QED
    BY <1>1, <1>4, <1>6, <2>1, <2>4 DEF Busy
<1>11. CASE Returns
  <2>1. mpc' = "idle" /\ UNCHANGED <<actors, queue, records, cleared>> /\ Handled' = Handled
    BY <1>3, <1>11, ReturnFacts, SameHandled
  <2>2. RunForReturns
    BY <1>2, <1>11 DEF Returns, DropPartialBatch, DispatchBatchReturns, Dry
  <2>3. count' = count /\ Handled = before + count
    BY <1>3, <2>2 DEF RunForReturns, Return, Counted
  <2>4. stage = 7 => count' = Handled' - cleared'
    BY <1>3, <1>4, <2>1, <2>3
  <2> QED
    BY <1>4, <1>6, <2>1, <2>3, <2>4 DEF Busy
\* The actors of goal1 are not of this kind.
<1>12. ASSUME DispatchAny \/ HandlerPanics PROVE FALSE
  <2>1. Arbitrary \in {actors[i].max : i \in DOMAIN actors}
    BY <1>12 DEF DispatchAny, HandlerPanics
  <2> QED
    BY <1>2, <2>1
<1> QED
  BY <1>7, <1>8, <1>9, <1>10, <1>11, <1>12 DEF Step

\* The next line of main.
LEMMA MainLines ==
    ASSUME IInv, Lines, Main
    PROVE  Lines'
<1>1. /\ stage \in 0 .. 6 /\ stage' = stage + 1 /\ UNCHANGED <<batch, measured>>
      /\ batch \in Inner \ {0} /\ \A i \in DOMAIN actors : actors[i].max = Unlimited
  BY MainCases DEF Main, Lines
<1>2. TypeOK /\ actors \in Seq(ActorRec)
  BY ActorsFacts DEF IInv
<1>3. CASE stage = 0 /\ add_actor(1, Unlimited)
  <2> DEFINE r == [peer |-> 1, max |-> Unlimited, sent |-> 0, handled |-> 0]
  <2>1. r.peer = 1 /\ r.max = Unlimited
    OBVIOUS
  <2>2. actors' = Append(<<>>, r) /\ queue' = <<>> /\ mpc' = "idle"
    BY <1>3 DEF add_actor, Lines
  <2> HIDE DEF r
  <2>3. Len(actors') = 1 /\ actors'[1] = r /\ DOMAIN actors' = {1}
    BY <2>2
  <2> QED
    BY <1>1, <1>3, <2>1, <2>2, <2>3 DEF Lines, Busy
<1>4. CASE stage = 1 /\ add_actor(0, Unlimited)
  <2> DEFINE r == [peer |-> 0, max |-> Unlimited, sent |-> 0, handled |-> 0]
  <2>1. r.peer = 0 /\ r.max = Unlimited /\ r \in ActorRec
    BY DEF ActorRec
  <2>2. /\ actors' = Append(actors, r) /\ queue' = <<>> /\ mpc' = "idle"
        /\ Len(actors) = 1 /\ actors[1].peer = 1
    BY <1>4 DEF add_actor, Lines
  <2> HIDE DEF r
  <2>3. /\ Len(actors') = 2 /\ actors'[1] = actors[1] /\ actors'[2] = r
        /\ DOMAIN actors = 1 .. 1 /\ DOMAIN actors' = 1 .. 2
    <3> DEFINE k == Len(actors)
               q == Append(actors, r)
    <3>1. /\ q \in Seq(ActorRec) /\ Len(q) = k + 1 /\ q[k + 1] = r
          /\ \A i \in 1 .. k : q[i] = actors[i]
      BY <1>2, <2>1, AppendFacts
    <3>2. DOMAIN actors = 1 .. k /\ DOMAIN q = 1 .. Len(q) /\ k = 1 /\ actors' = q
      BY <1>2, <2>2, <3>1
    <3> HIDE DEF k, q
    <3> QED
      BY <3>1, <3>2
  <2>4. TwoActors' /\ \A i \in DOMAIN actors' : actors'[i].max = Unlimited
    BY <1>1, <2>1, <2>2, <2>3 DEF TwoActors
  <2> QED
    BY <1>1, <1>4, <2>2, <2>4 DEF Lines, Busy
<1>5. CASE stage = 2 /\ seed(0)
  <2> DEFINE m == [dst |-> 0, round |-> 0]
  <2>1. m.dst = 0
    OBVIOUS
  <2>2. queue = <<>> /\ queue' = Append(<<>>, m) /\ mpc' = "idle" /\ actors' = actors /\ TwoActors
    BY <1>5 DEF seed, send, Lines
  <2> HIDE DEF m
  <2>3. Len(queue') = 1 /\ queue'[1] = m
    BY <2>2
  <2>4. TwoActors' /\ OneMessage'
    BY <2>1, <2>2, <2>3 DEF TwoActors, OneMessage
  <2> QED
    BY <1>1, <1>5, <2>2, <2>4 DEF Lines, Busy
<1>6. CASE stage = 3 /\ run_for(batch)
  <2>1. TwoActors' /\ OneMessage'
    BY <1>6, LinesOfStage DEF run_for, Call, TwoActors, OneMessage
  <2> QED
    BY <1>1, <1>6, <2>1 DEF run_for, Call, Lines, Busy
<1>7. CASE stage = 6 /\ run_for(batch)
  <2>1. TwoActors' /\ OneMessage' /\ records = <<>> /\ cleared = Handled
    BY <1>7, LinesOfStage DEF run_for, Call, TwoActors, OneMessage, Lines
  <2>2. SumFunction(records)' = 0 /\ count' = 0 /\ before' = cleared' /\ mpc' = "run_for"
    BY <1>7, <2>1, NoneSum DEF run_for, Call
  <2> QED
    BY <1>1, <1>7, <2>1, <2>2 DEF run_for, Call, Lines, Busy
<1>8. CASE stage = 4 /\ clear
  <2>1. TwoActors' /\ OneMessage' /\ Handled' = Handled
    BY <1>8, LinesOfStage, SameHandled DEF clear, TwoActors, OneMessage
  <2> QED
    BY <1>1, <1>8, <2>1 DEF clear, Lines, Busy
<1>9. CASE stage = 5 /\ mpc = "idle" /\ UNCHANGED vars
  <2>1. TwoActors' /\ OneMessage' /\ Handled' = Handled
    BY <1>9, LinesOfStage, SameHandled DEF vars, TwoActors, OneMessage
  <2> QED
    BY <1>1, <1>9, <2>1 DEF vars, history, Lines, Busy
<1> QED
  BY <1>3, <1>4, <1>5, <1>6, <1>7, <1>8, <1>9, MainCases

LEMMA NextLines ==
    ASSUME IInv, Lines, [GNext]_gvars
    PROVE  Lines'
<1>1. CASE stage = Library /\ Calls /\ UNCHANGED <<stage, batch, measured>>
  BY <1>1 DEF Lines, Library
<1>2. CASE (Step \/ Expire) /\ UNCHANGED <<stage, batch, measured>>
  <2>1. stage \in -1 .. 8
    BY DEF Lines
  <2>2. CASE stage >= 0
    BY <1>2, <2>2, StepLines
  <2>3. CASE stage = -1
    BY <1>2, <2>3 DEF Lines
  <2> QED
    BY <2>1, <2>2, <2>3
<1>3. CASE Main
  BY <1>3, MainLines
<1>4. CASE Report
  <2>1. /\ stage = 7 /\ stage' = 8 /\ mpc = "idle" /\ measured' = count
        /\ UNCHANGED <<vars, batch>>
    BY <1>4 DEF Report
  <2>2. TwoActors' /\ OneMessage' /\ Handled' = Handled /\ SumFunction(records)' = count
    BY <2>1, LinesOfStage, SameHandled DEF vars, TwoActors, OneMessage, Lines
  <2> QED
    BY <2>1, <2>2 DEF vars, callVars, history, Lines, Busy
<1>5. CASE UNCHANGED gvars
  <2>1. Handled' = Handled /\ SumFunction(records)' = SumFunction(records)
    BY <1>5, SameHandled DEF gvars, vars
  <2>2. (TwoActors => TwoActors') /\ (OneMessage => OneMessage')
    BY <1>5 DEF gvars, vars, TwoActors, OneMessage
  <2> QED
    BY <1>5, <2>1, <2>2 DEF gvars, vars, callVars, history, Lines, Busy
<1> QED
  BY <1>1, <1>2, <1>3, <1>4, <1>5 DEF GNext

\* Whatever goal1 prints and reports after its measured run_for is the same
\* work: what the actors handled since the probe was cleared.
THEOREM ReportIsExact == GSpec => []ReportExact
<1>1. GInit => GInv
  BY InitInv, InitLines DEF GInit, GInv
<1>2. GInv /\ [GNext]_gvars => GInv'
  BY MainIsCaller, NextInv, NextLines DEF GInv
<1>3. GInv => ReportExact
  BY DEF GInv, Lines, ReportExact
<1> QED
  BY <1>1, <1>2, <1>3, PTL DEF GSpec

=============================================================================
