--------------------------- MODULE MCContractSync ---------------------------
(* ContractSync on two scripts and a VTXO of each. *)
EXTENDS ContractSync

CONSTANTS m, o, v1, v2, i1, i2, i3, i4

OfEach == [v \in {v1, v2} |-> IF v = v1 THEN m ELSE o]

\* One contract of an earlier run, the other one may be created.  Two transactions
\* or calls; or one of them, and something fails.
OneOfThem == /\ stored[m] = None /\ stored[o] # None
             /\ ledger[v1] = "spent" /\ ledger[v2] # "spent"
             /\ happened + lost = 1

MCInit == Init /\ OneOfThem
MCSpec == MCInit /\ [][Next]_vars /\ Fairness
==============================================================================
