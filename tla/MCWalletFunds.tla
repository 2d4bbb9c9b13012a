--------------------------- MODULE MCWalletFunds ---------------------------
(* WalletFunds on three outpoints and two calls. *)
EXTENDS WalletFunds

CONSTANTS c1, c2, c3, a, b

Two(first, second) == [i \in {a, b} |-> IF i = a THEN first ELSE second]

\* A send, and beside it a call that takes the lock or clears the cursor; and an
\* asset operation beside a read.
SendBeside ==
  {Two("send", k) : k \in {"send", "settle", "renew", "clear"}} \cup {Two("asset", "read")}

==============================================================================
