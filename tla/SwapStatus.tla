----------------------------- MODULE SwapStatus -----------------------------
(***************************************************************************)
(* The status vocabulary of a Boltz swap and the predicates over it that   *)
(* packages/boltz-swap/src/boltz-swap-provider.ts defines.  Every other    *)
(* module of the swap package asks these predicates, never a literal.      *)
(*                                                                         *)
(* A swap has a kind.  "reverse" and "submarine" are the code's swap.type; *)
(* a swap of type "chain" is split by direction, since every use of it     *)
(* branches on request.to and request.from, each the other of "ARK" and    *)
(* "BTC": "chainToArk" (BTC -> ARK) and "chainToBtc" (ARK -> BTC).         *)
(***************************************************************************)

Kind == {"reverse", "submarine", "chainToArk", "chainToBtc"}

Status ==
    {"invoice.expired", "invoice.failedToPay", "invoice.paid",
     "invoice.pending", "invoice.set", "invoice.settled", "swap.created",
     "swap.expired", "transaction.claim.pending", "transaction.claimed",
     "transaction.confirmed", "transaction.failed",
     "transaction.lockupFailed", "transaction.mempool",
     "transaction.refunded", "transaction.server.mempool",
     "transaction.server.confirmed"}

IsChain(kind) == kind \in {"chainToArk", "chainToBtc"}

ReverseFinal ==
    {"transaction.refunded", "transaction.failed", "invoice.settled",
     "invoice.expired", "swap.expired"}

SubmarineFinal == {"invoice.failedToPay", "transaction.claimed", "swap.expired"}

ChainFinal ==
    {"transaction.refunded", "transaction.failed", "transaction.claimed",
     "swap.expired"}

ReverseClaimable == {"transaction.mempool", "transaction.confirmed"}

SubmarineRefundable ==
    {"invoice.failedToPay", "transaction.lockupFailed", "swap.expired"}

ChainClaimable == {"transaction.server.mempool", "transaction.server.confirmed"}

ChainRefundable == {"swap.expired"}

ChainSignable == {"transaction.claim.pending"}

\* Fault: the claim of a reverse swap counts as final, as that of others does.
FinalStatusClaimed(kind) ==
    [reverse    |-> ReverseFinal \cup {"transaction.claimed"},
     submarine  |-> SubmarineFinal,
     chainToArk |-> ChainFinal,
     chainToBtc |-> ChainFinal][kind]

\* SwapManager.isFinalStatus: no more updates are expected.
FinalStatus(kind) ==
    [reverse    |-> ReverseFinal,
     submarine  |-> SubmarineFinal,
     chainToArk |-> ChainFinal,
     chainToBtc |-> ChainFinal][kind]

\* The status a swap is created and first stored with.
CreatedStatus(kind) ==
    IF kind = "submarine" THEN "invoice.set" ELSE "swap.created"

\* The statuses on which the manager calls claim, claimArk or claimBtc.
ClaimableStatus(kind) ==
    [reverse    |-> ReverseClaimable,
     submarine  |-> {},
     chainToArk |-> ChainClaimable,
     chainToBtc |-> ChainClaimable][kind]

\* The statuses on which the manager calls refund or refundArk.  The lockup
\* of a BTC -> ARK swap lies on-chain and is left to Boltz.
RefundableStatus(kind) ==
    [reverse    |-> {},
     submarine  |-> SubmarineRefundable,
     chainToArk |-> {},
     chainToBtc |-> ChainRefundable][kind]

\* The statuses on which the manager signs the server's claim of the lockup.
SignableStatus(kind) == IF kind = "chainToArk" THEN ChainSignable ELSE {}

\* The statuses that report success, and only success, to whoever waits.
SuccessStatus(kind) ==
    IF kind = "reverse" THEN {"invoice.settled"} ELSE {"transaction.claimed"}
=============================================================================
