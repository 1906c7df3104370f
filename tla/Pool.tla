-------------------------------- MODULE Pool --------------------------------
(***************************************************************************)
(* Pool, PooledMsg and the threads that share them (pool.rs:200-363).      *)
(* A thread runs `get_msg` and the Drop of a PooledMsg in separate steps   *)
(* (size check, store get, building the message; taking the box, store     *)
(* ret), because other threads run between any two of them.  A PooledMsg   *)
(* may be handed to another thread, which is what the runtime's channels   *)
(* do, and dropped there.                                                  *)
(*                                                                         *)
(* The bytes of a buffer are left out: `get_msg` and Drop never touch them *)
(* (no zeroing), so all the bytes do is stay with their box.               *)
(***************************************************************************)
EXTENDS MutexLifo

CONSTANTS
    Thread,     \* the threads holding a clone of the Pool handle
    msg_size,   \* bytes in every buffer
    MaxRequest, \* largest size a caller asks for
    NoBuf       \* BufRef's None

ASSUME SizesAreNat == msg_size \in Nat /\ MaxRequest \in Nat
ASSUME NoBufIsNoBuf == NoBuf \notin Buf

VARIABLES
    pc,         \* where each thread is inside get_msg or drop
    req,        \* the size each thread asked for
    box,        \* the BufRef a thread carries between the store and a message
    msgs        \* the live PooledMsgs

vars == <<vec, pc, req, box, msgs>>

PooledMsg == [buf : Buf, len : 0 .. MaxRequest, owner : Thread]

TypeOK ==
    /\ vec \in Seq(Buf)
    /\ pc \in [Thread -> {"idle", "get", "build", "ret"}]
    /\ req \in [Thread -> 0 .. MaxRequest]
    /\ box \in [Thread -> Buf \cup {NoBuf}]
    /\ msgs \subseteq PooledMsg

\* Pool::new: every buffer starts in the store.
new == /\ from_buffers
       /\ pc = [t \in Thread |-> "idle"]
       /\ req = [t \in Thread |-> 0]
       /\ box = [t \in Thread |-> NoBuf]
       /\ msgs = {}

-----------------------------------------------------------------------------
(* get_msg *)

fits_OffByOne(n) == n <= msg_size + 1

\* The size check comes first; a refused size never reaches the store, so
\* `Err(SizeTooLarge)` leaves everything as it was.
fits(n) == n <= msg_size

GetMsg(t) == \E n \in 0 .. MaxRequest :
    /\ pc[t] = "idle"
    /\ fits(n)
    /\ pc' = [pc EXCEPT ![t] = "get"]
    /\ req' = [req EXCEPT ![t] = n]
    /\ UNCHANGED <<vec, box, msgs>>

StoreGet(t) == \E b \in Buf :
    /\ pc[t] = "get"
    /\ get(b)
    /\ box' = [box EXCEPT ![t] = b]
    /\ pc' = [pc EXCEPT ![t] = "build"]
    /\ UNCHANGED <<req, msgs>>

\* Without the `?`, the None is wrapped into a message.
NoMsgs_Ignored(t) ==
    /\ pc[t] = "get"
    /\ len = 0
    /\ pc' = [pc EXCEPT ![t] = "build"]
    /\ UNCHANGED <<vec, req, box, msgs>>

\* Refusing while one buffer is left.
NoMsgs_OffByOne(t) ==
    /\ pc[t] = "get"
    /\ len <= 1
    /\ pc' = [pc EXCEPT ![t] = "idle"]
    /\ UNCHANGED <<vec, req, box, msgs>>

\* ok_or(NoMsgs): the store answered None.
NoMsgs(t) ==
    /\ pc[t] = "get"
    /\ len = 0
    /\ pc' = [pc EXCEPT ![t] = "idle"]
    /\ UNCHANGED <<vec, req, box, msgs>>

Build(t) ==
    /\ pc[t] = "build"
    /\ msgs' = msgs \cup {[buf |-> box[t], len |-> req[t], owner |-> t]}
    /\ box' = [box EXCEPT ![t] = NoBuf]
    /\ pc' = [pc EXCEPT ![t] = "idle"]
    /\ UNCHANGED <<vec, req>>

-----------------------------------------------------------------------------
(* The life of a PooledMsg *)

\* Moving the value to another thread; Rust leaves the sender without it.
Give(t, u) == \E m \in msgs :
    /\ pc[t] = "idle"
    /\ m.owner = t
    /\ u # t
    /\ msgs' = (msgs \ {m}) \cup {[m EXCEPT !.owner = u]}
    /\ UNCHANGED <<vec, pc, req, box>>

\* The bug `Option::take` rules out: the message keeps its box after drop.
DropTake_Copies(t) == \E m \in msgs :
    /\ pc[t] = "idle"
    /\ m.owner = t
    /\ box' = [box EXCEPT ![t] = m.buf]
    /\ pc' = [pc EXCEPT ![t] = "ret"]
    /\ UNCHANGED <<vec, req, msgs>>

\* Drop::drop: `self.buf.take()` ...
DropTake(t) == \E m \in msgs :
    /\ pc[t] = "idle"
    /\ m.owner = t
    /\ msgs' = msgs \ {m}
    /\ box' = [box EXCEPT ![t] = m.buf]
    /\ pc' = [pc EXCEPT ![t] = "ret"]
    /\ UNCHANGED <<vec, req>>

\* ... and `self.pool.free.ret(buf)`.
DropRet(t) ==
    /\ pc[t] = "ret"
    /\ ret(box[t])
    /\ box' = [box EXCEPT ![t] = NoBuf]
    /\ pc' = [pc EXCEPT ![t] = "idle"]
    /\ UNCHANGED <<req, msgs>>

-----------------------------------------------------------------------------

Next == \E t \in Thread :
    \/ GetMsg(t) \/ StoreGet(t) \/ NoMsgs(t) \/ Build(t)
    \/ DropTake(t) \/ DropRet(t)
    \/ \E u \in Thread : Give(t, u)

Spec == new /\ [][Next]_vars

-----------------------------------------------------------------------------
(* What a reader of pool.rs relies on *)

\* The places where a buffer is: positions of the Vec, threads carrying it,
\* live messages around it.
Places(b) == {<<"vec", i>> : i \in {j \in DOMAIN vec : vec[j] = b}}
             \cup {<<"box", t>> : t \in {u \in Thread : box[u] = b}}
             \cup {<<"msg", m>> : m \in {n \in msgs : n.buf = b}}

\* Every buffer is in exactly one place: two messages never share bytes
\* (get_msg hands out each box once), and no box is lost or put back twice
\* however gets, hand-overs and drops of several threads interleave.
OneOwner == \A b \in Buf : \E p \in Places(b) : Places(b) = {p}

\* `Deref` slices `[..len]` out of a `msg_size` box and would panic beyond
\* it: the check made before the store was touched still holds for the
\* message built later, whatever thread holds it by then.
DerefInBounds == \A m \in msgs : m.len <= msg_size

\* get_msg answers NoMsgs only when no buffer is in the store: all of them
\* are live messages, or on their way in the get_msg or drop of another
\* thread (pool.rs:75-76 speaks of live messages only; a caller can also
\* be refused because of a message that is just being dropped).
NoMsgsMeansAllOut ==
    [][\A t \in Thread : pc[t] = "get" /\ pc'[t] = "idle" =>
          \A b \in Buf : \/ \E m \in msgs : m.buf = b
                         \/ \E u \in Thread \ {t} : box[u] = b]_vars

\* The pool uses the store within its contract: one buffer at a time, none
\* returned that is not out, whatever the interleaving (BufRefStore.tla).
Store == INSTANCE BufRefStore WITH free <- Range(vec)
StoreContract == Store!Spec

=============================================================================
