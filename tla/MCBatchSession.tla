--------------------------- MODULE MCBatchSession ---------------------------
(***************************************************************************)
(* Instances of BatchSession for TLC.                                       *)
(***************************************************************************)
EXTENDS BatchSession, TLC

CONSTANTS root, leaf
=============================================================================
