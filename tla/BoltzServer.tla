---------------------------- MODULE BoltzServer ----------------------------
(***************************************************************************)
(* The Boltz service as the client sees it: not in this repository, modelled *)
(* from the lifecycles documented beside BoltzSwapStatus, from the status    *)
(* predicates, and from the conditions under which the client's own code     *)
(* finds coins at the lockup and at the claim address of a swap.             *)
(*                                                                           *)
(* lockup is the client's side of a swap: the coins it sends to Boltz.       *)
(* payout is Boltz's side: the coins the client can claim.                   *)
(***************************************************************************)
EXTENDS SwapStatus

Lockup == {"none", "locked", "taken", "refunded"}
Payout == {"none", "locked", "claimed", "returned"}

\* The statuses Boltz may report next.
ServerNext(kind, status) ==
    CASE kind = "reverse" ->
           CASE status = "swap.created" ->
                  {"transaction.mempool", "transaction.failed",
                   "invoice.expired", "swap.expired"}
             [] status = "transaction.mempool" ->
                  {"transaction.confirmed", "invoice.settled", "transaction.refunded"}
             [] status = "transaction.confirmed" ->
                  {"invoice.settled", "transaction.refunded"}
             [] OTHER -> {}
      [] kind = "submarine" ->
           CASE status = "invoice.set" ->
                  {"transaction.mempool", "transaction.lockupFailed", "swap.expired"}
             [] status = "transaction.mempool" ->
                  {"invoice.pending", "transaction.lockupFailed"}
             [] status = "invoice.pending" -> {"invoice.paid", "invoice.failedToPay"}
             [] status = "invoice.paid" -> {"transaction.claim.pending"}
             [] status = "transaction.claim.pending" -> {"transaction.claimed"}
             [] status = "transaction.lockupFailed" -> {"swap.expired"}
             [] OTHER -> {}
      [] OTHER ->
           CASE status = "swap.created" ->
                  {"transaction.mempool", "transaction.lockupFailed", "swap.expired"}
             [] status = "transaction.mempool" ->
                  {"transaction.server.mempool", "transaction.failed", "swap.expired"}
             [] status = "transaction.lockupFailed" ->
                  {"transaction.server.mempool", "swap.expired"}
             [] status = "transaction.server.mempool" ->
                  {"transaction.server.confirmed", "transaction.claim.pending",
                   "swap.expired"}
             [] status = "transaction.server.confirmed" ->
                  {"transaction.claim.pending", "transaction.refunded", "swap.expired"}
             [] status = "transaction.claim.pending" -> {"transaction.claimed"}
             [] OTHER -> {}

\* The client has paid for statuses that report its lockup.
NeedsLockup(kind, status) ==
    kind # "reverse" /\ status \in {"transaction.mempool", "transaction.lockupFailed"}

\* Boltz collects the lockup with the preimage that the payout's claim, or the
\* paid invoice, reveals.
NeedsClaim(kind, status) ==
    \/ kind = "reverse" /\ status = "invoice.settled"
    \/ IsChain(kind) /\ status = "transaction.claim.pending"

TakesLockup(kind, status) == kind # "reverse" /\ status = "transaction.claimed"

LocksPayout(kind, status) ==
    \/ kind = "reverse" /\ status = "transaction.mempool"
    \/ IsChain(kind) /\ status = "transaction.server.mempool"

\* A failure that Boltz reports: a final status other than success.
ReportsFailure(kind, status) ==
    status \in FinalStatus(kind) \ SuccessStatus(kind)

\* A client that has claimed is never told that the swap failed.
MayReport(kind, from, to, lockup, payout) ==
    /\ to \in ServerNext(kind, from)
    /\ NeedsLockup(kind, to) \/ TakesLockup(kind, to) => lockup = "locked"
    /\ NeedsClaim(kind, to) => payout = "claimed"
    /\ ReportsFailure(kind, to) => payout # "claimed"

LockupAfter(kind, status, lockup) ==
    IF TakesLockup(kind, status) THEN "taken" ELSE lockup

PayoutAfter(kind, status, payout) ==
    IF LocksPayout(kind, status) THEN "locked"
    ELSE IF ReportsFailure(kind, status) /\ payout = "locked" THEN "returned"
    ELSE payout
=============================================================================
