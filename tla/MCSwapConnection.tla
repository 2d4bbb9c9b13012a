-------------------------- MODULE MCSwapConnection --------------------------
(***************************************************************************)
(* Instances of SwapConnection for TLC.                                     *)
(***************************************************************************)
EXTENDS SwapConnection, TLC

CONSTANTS w1, w2, w3, s1, s2

Symmetry == Permutations(Sockets) \cup Permutations(Swaps)
=============================================================================
