------------------------------ MODULE MCStorage ------------------------------
(***************************************************************************)
(* Instances of Storage for TLC.                                            *)
(***************************************************************************)
EXTENDS Storage, TLC

CONSTANTS c1, c2

Row(a, i, v) == [address |-> a, id |-> i, val |-> v]
Req(op, t, k, rows) == [op |-> op, table |-> t, key |-> k, rows |-> rows]
MCRequests == {
  Req("save", "vtxos", None, <<Row("a1", "t1", "new"), Row("a1", "t2", "new")>>),
  Req("save", "vtxos", None, <<Row("a2", "t1", "new")>>),
  Req("delete", "vtxos", "a1", <<>>),
  Req("clear", "vtxos", None, <<>>),
  Req("save", "transactions", None, <<Row("a1", "t1", "new")>>),
  Req("get", "contracts", None, <<>>),
  Req("save", "contracts", None, <<Row("-", "k1", "active")>>),
  Req("save", "contracts", None, <<Row("-", "k2", "inactive")>>),
  Req("save", "swaps", None, <<Row("-", "k2", "settled")>>),
  Req("delete", "swaps", "k2", <<>>)}
MCLegacy == {[table |-> "vtxos", row |-> Row("a1", "t1", "old")],
             [table |-> "transactions", row |-> Row("a1", "t1", "old")]}
MCKindOf == [k1 |-> "default", k2 |-> "vhtlc"]
MCCalls == {c1, c2}
Alike == Permutations(MCCalls)
==============================================================================
