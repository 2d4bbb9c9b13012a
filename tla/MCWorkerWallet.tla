--------------------------- MODULE MCWorkerWallet ---------------------------
(***************************************************************************)
(* Instances of WorkerWallet for TLC.                                       *)
(***************************************************************************)
EXTENDS WorkerWallet, TLC

CONSTANTS p1, p2, c1, c2, j1, j2, v1, v2, v3

\* Both calls on one page.
BothOnOne == [c \in {c1, c2} |-> p1]

Symmetry == Permutations(Jobs) \cup Permutations(Wallets)
=============================================================================
