---------------------------- MODULE BufRefStore ----------------------------
(***************************************************************************)
(* What a free list promises (trait BufRefStore, pool.rs:93-141): a store  *)
(* starts full, `get` hands out some buffer it holds, `ret` takes back a   *)
(* buffer it does not hold.  Which buffer `get` picks is left open, since  *)
(* a Pool treats stored buffers as fungible and depends on no retrieval    *)
(* order.  Pool.tla shows that the mutex-protected LIFO implements this    *)
(* contract under concurrent clients; RuntimeZC.tla is built on it.        *)
(***************************************************************************)

CONSTANT Buf       \* the buffers handed to `from_buffers`

VARIABLE free      \* the buffers the store holds

from_buffers == free = Buf

\* `get` with a result.  On an empty store `get` answers None and changes
\* nothing, which is a stuttering step here.
get(b) == /\ b \in free
          /\ free' = free \ {b}

\* `ret`, under its precondition: the buffer was handed out and not yet
\* returned.
ret(b) == /\ b \in Buf \ free
          /\ free' = free \cup {b}

Next == \E b \in Buf : get(b) \/ ret(b)

Spec == from_buffers /\ [][Next]_free

=============================================================================
