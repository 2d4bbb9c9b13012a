--------------------------- MODULE MCVtxoManager ---------------------------
(* VtxoManager on two boarding outputs and two VTXOs.  Polls and renewals      *)
(* share nothing but dispose(): a behaviour has boarding outputs, or VTXOs     *)
(* that are received and age.                                                  *)
EXTENDS VtxoManager

CONSTANTS u1, u2, v1, v2

OneOfThem == \/ /\ chain = [u \in Utxos |-> "none"] /\ happened = MaxHappens
                /\ vtxo = [v \in Vtxos |-> "none"] /\ ~eager
             \/ chain = [u \in Utxos |-> "gone"] /\ happened = 0

MCInit == ManagerInit /\ OneOfThem
MCSpec == MCInit /\ [][ManagerNext]_managerVars /\ ManagerFairness
==============================================================================
