---------------------------- MODULE MC_RuntimeZC ----------------------------
(***************************************************************************)
(* Small instances of RuntimeZC.                                           *)
(***************************************************************************)
EXTENDS RuntimeZC, TLC

\* The runtime never looks at the identity of a buffer.
Symmetry == Permutations(Buf)

=============================================================================
