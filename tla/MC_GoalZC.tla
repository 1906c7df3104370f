----------------------------- MODULE MC_GoalZC -----------------------------
(***************************************************************************)
(* Two ping-pong actors over three buffers.  With one exchange (the        *)
(* binary's seeding) three buffers are just enough; with two initial       *)
(* messages, handlers find the pool empty and panic.                       *)
(***************************************************************************)
EXTENDS GoalZC

EachOther == [a \in Actor |-> 1 - a]

=============================================================================
