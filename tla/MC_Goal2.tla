------------------------------ MODULE MC_Goal2 ------------------------------
(***************************************************************************)
(* Two actors, each the other's peer.                                      *)
(***************************************************************************)
EXTENDS Goal2

EachOther == [a \in Actor |-> 1 - a]

=============================================================================
