---------------------------- MODULE MCSwapWaits ----------------------------
(***************************************************************************)
(* Instances of SwapWaits for TLC.                                          *)
(***************************************************************************)
EXTENDS SwapWaits, TLC
=============================================================================
