----------------------------- MODULE MutexLifo -----------------------------
(***************************************************************************)
(* The default free list: a Vec of boxes behind a Mutex (struct MutexLifo, *)
(* pool.rs:143-197).  Every method takes the lock for a single push, pop   *)
(* or len and releases it before returning; none of the three can panic,   *)
(* so the lock is never poisoned and each method is one atomic step.       *)
(***************************************************************************)
EXTENDS Naturals, Sequences, FiniteSets, Functions

CONSTANT Buf       \* the boxes handed to `from_buffers`

ASSUME BufFinite == IsFiniteSet(Buf)

VARIABLE vec       \* the Vec; its last element is the top of the stack

\* The boxes arrive in some order, each exactly once.
from_buffers == vec \in Bijection(1 .. Cardinality(Buf), Buf)

\* A `get` that empties the Vec (`mem::take` instead of `pop`).
get_TakesAll(b) == /\ vec # <<>>
                   /\ b = vec[Len(vec)]
                   /\ vec' = <<>>

\* `get` that finds a box: pop the top.  On an empty Vec `pop` answers None.
get(b) == /\ vec # <<>>
          /\ b = vec[Len(vec)]
          /\ vec' = SubSeq(vec, 1, Len(vec) - 1)

\* `ret`: push, with no look at the length or at what is already stored.
ret(b) == vec' = Append(vec, b)

len == Len(vec)

\* Recorded once by `from_buffers`.
size == Cardinality(Buf)

=============================================================================
