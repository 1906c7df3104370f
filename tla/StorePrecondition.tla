------------------------- MODULE StorePrecondition -------------------------
(***************************************************************************)
(* MutexLifo used directly through the public trait by one client that     *)
(* honours exactly what the trait documents for `ret` (pool.rs:117-120):   *)
(* "total `ret` calls never exceed total `get` calls plus the store's      *)
(* initial capacity".  `ret` takes any box, so the client may also hand in *)
(* boxes of its own.                                                       *)
(***************************************************************************)
EXTENDS MutexLifo

CONSTANTS
    OwnBox,     \* boxes the client allocated itself
    MaxGets     \* bound on the number of `get` calls

VARIABLES
    client,     \* the boxes the client holds
    gets,       \* `get` calls so far
    rets        \* `ret` calls so far

vars == <<vec, client, gets, rets>>

Init == /\ from_buffers
        /\ client = OwnBox
        /\ gets = 0
        /\ rets = 0

ClientGet == /\ gets < MaxGets
             /\ gets' = gets + 1
             /\ \/ \E b \in Buf \cup OwnBox : get(b) /\ client' = client \cup {b}
                \/ vec = <<>> /\ UNCHANGED <<vec, client>>
             /\ UNCHANGED rets

\* The documented precondition, and nothing more, guards the call.
ClientRet == \E b \in client :
                /\ rets + 1 <= gets + size
                /\ ret(b)
                /\ client' = client \ {b}
                /\ rets' = rets + 1
                /\ UNCHANGED gets

Next == ClientGet \/ ClientRet

Spec == Init /\ [][Next]_vars

\* pool.rs:127-128 promises of `len`: "Always a valid count (never torn,
\* never beyond size)".  Does the documented precondition of `ret` secure it?
LenWithinSize == len <= size

=============================================================================
