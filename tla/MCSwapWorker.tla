---------------------------- MODULE MCSwapWorker ----------------------------
(***************************************************************************)
(* Instances of SwapWorker for TLC.                                         *)
(***************************************************************************)
EXTENDS SwapWorker, TLC

CONSTANTS p1, c1, c2, s1, s2

\* Both calls on one page.
BothOnOne == [c \in Calls |-> p1]
OneReads == [c \in Calls |-> IF c = c1 THEN {"read"} ELSE {"read", "act", "start", "stop"}]
=============================================================================
