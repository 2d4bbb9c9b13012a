--------------------------- MODULE MCSwapManager ---------------------------
(***************************************************************************)
(* Instances of SwapManager for TLC.                                        *)
(***************************************************************************)
EXTENDS SwapManager, TLC

CONSTANTS s1, t1, t2

Symmetry == Permutations(Tasks)

\* All events at once are too many for one swap: each kind has its share, the
\* kinds of one sort of swap each event between them.
AllEvents == [
    reverse    |-> {"action", "save", "crash", "refresh"},
    submarine  |-> {"action", "save", "crash"},
    chainToArk |-> {"crash", "drop", "poll", "manual"},
    chainToBtc |-> {"action", "poll", "remove", "manual"}]

\* Where the repository and the callbacks succeed in the end.
Losses == [k \in Kinds |-> {"crash", "drop"}]
=============================================================================
