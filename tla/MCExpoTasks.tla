---------------------------- MODULE MCExpoTasks ----------------------------
(***************************************************************************)
(* Instances of ExpoTasks for TLC.                                          *)
(***************************************************************************)
EXTENDS ExpoTasks, TLC

CONSTANTS s1, t1, t2, t3, t4

\* The kinds that a background round polls.
PolledKinds == {"reverse", "submarine"}
=============================================================================
