----------------------------- MODULE SwapWaits -----------------------------
(***************************************************************************)
(* The promises that end with a swap (packages/boltz-swap): waitAndClaim,   *)
(* waitAndClaimArk, waitAndClaimBtc, waitForSwapSettlement with the         *)
(* sendLightningPayment around it, over a socket of their own (monitorSwap) *)
(* or over a manager that has the swap (waitForSwapCompletion).             *)
(*                                                                          *)
(* One swap and one wait.  A callback of the socket is not awaited by it:   *)
(* callbacks for several statuses run beside each other, each a step that   *)
(* is under way.  Writes commit in the order they are asked for, so a save  *)
(* takes effect there.  The manager is one step per thing it does here:     *)
(* SwapManager models it.                                                   *)
(***************************************************************************)
EXTENDS BoltzServer, Naturals, Sequences, FiniteSets

CONSTANTS
    Kinds,              \* the kinds of swap that occur
    MaxFails, MaxLost   \* bounds: requests that fail; connections, or swaps of the manager, lost

ASSUME SwapWaitsAssumption == Kinds \subseteq Kind /\ {MaxFails, MaxLost} \subseteq Nat

VARIABLES
    kind,
    server, lockup, payout,
    managed,    \* ArkadeSwaps has a manager
    call,       \* where the caller is
    result,     \* what the promise of the wait was settled with
    socket, ws, \* the socket of monitorSwap and the messages on their way
    steps,      \* callbacks and claims under way
    flags,      \* claimStarted, isResolved
    stored,     \* the status in the repository
    refunded,   \* the field of that name in the repository
    skipped,    \* the call's refund had to leave the coins where they are
    manager,    \* what the manager knows of the swap
    count       \* what the bounds limit

boltz == <<server, lockup, payout>>
fixed == <<kind, managed>>
wait == <<call, result, flags>>
wire == <<socket, ws>>
record == <<stored, refunded, skipped>>
vars == <<fixed, boltz, wait, wire, steps, record, manager, count>>

Call == {"new", "created", "paid", "asked", "waiting", "refunding", "refunded", "done"}

\* existing: the txid of a reverse swap that had failed before it was waited for.
\* Rejections: with an error that is refundable, with the claim's, with another.
Result == {"none", "resolved", "existing", "refundable", "claimFailed", "failed"}

\* at: "claim", "reject", "quote", "txid" follow the save of a callback;
\* "look", "ask", "answered" are the awaits of a claim.
StepKind == {"claim", "reject", "quote", "badQuote", "txid", "look", "ask", "answered"}
Steps == [at : StepKind, status : Status]

\* has: monitoredSwaps; initial: it was loaded by start(); sub: the wait is subscribed.
Manager == [has : BOOLEAN, initial : BOOLEAN, sub : BOOLEAN, status : Status]

TypeOK ==
    /\ kind \in Kinds /\ managed \in BOOLEAN
    /\ server \in Status /\ lockup \in Lockup /\ payout \in Payout
    /\ call \in Call /\ result \in Result
    /\ call \in {"new", "created", "paid", "asked"} => result = "none"
    /\ socket \in {"none", "connecting", "open", "closed"}
    /\ ws \in Seq(Status) /\ (socket # "open" => ws = <<>>)
    /\ steps \subseteq Steps
    /\ flags \in [claimStarted : BOOLEAN, isResolved : BOOLEAN]
    /\ stored \in Status /\ refunded \in BOOLEAN /\ skipped \in BOOLEAN
    /\ manager \in Manager
    /\ count \in [fails : 0 .. MaxFails, lost : 0 .. MaxLost]

Init ==
    /\ kind \in Kinds /\ managed \in BOOLEAN
    /\ server = CreatedStatus(kind) /\ lockup = "none" /\ payout = "none"
    /\ call = "new" /\ result = "none"
    /\ socket = "none" /\ ws = <<>> /\ steps = {}
    /\ flags = [claimStarted |-> FALSE, isResolved |-> FALSE]
    /\ stored = server /\ refunded = FALSE /\ skipped = FALSE
    /\ manager = [has |-> FALSE, initial |-> FALSE, sub |-> FALSE, status |-> server]
    /\ count = [fails |-> 0, lost |-> 0]

-----------------------------------------------------------------------------
(* Helpers. *)

\* A promise is settled once.  sendLightningPayment refunds when the error of
\* its wait says so.
Settle(r) ==
    /\ result' = IF result = "none" THEN r ELSE result
    /\ call' = IF result # "none" THEN call
               ELSE IF r = "refundable" /\ kind = "submarine" THEN "refunding" ELSE "done"

At(at) == {s \in steps : s.at = at}
Follow(s, at) == steps' = (steps \ {s}) \cup {[s EXCEPT !.at = at]}

\* Every save writes the swap the call was given, with another status; the fields
\* that an earlier save added to it are gone.
Save(status) == stored' = status /\ refunded' = FALSE /\ UNCHANGED skipped

Fails == count.fails < MaxFails /\ count' = [count EXCEPT !.fails = @ + 1]
Loses == count.lost < MaxLost /\ count' = [count EXCEPT !.lost = @ + 1]

-----------------------------------------------------------------------------
(* Boltz and the user's own payment of a chain swap. *)

ServerMove ==
    /\ call # "new"
    /\ \E status \in Status :
         /\ MayReport(kind, server, status, lockup, payout)
         /\ server' = status
         /\ lockup' = LockupAfter(kind, status, lockup)
         /\ payout' = PayoutAfter(kind, status, payout)
         /\ ws' = IF socket = "open" THEN Append(ws, status) ELSE ws
    /\ UNCHANGED <<fixed, wait, socket, steps, record, manager, count>>

PayChain ==
    /\ call # "new" /\ IsChain(kind) /\ lockup = "none"
    /\ lockup' = "locked"
    /\ UNCHANGED <<fixed, server, payout, wait, wire, steps, record, manager, count>>

-----------------------------------------------------------------------------
(* The caller. *)

\* createReverseSwap, createSubmarineSwap, createChainSwap: saved, then given
\* to the manager.  Or the swap was stored before, and start() has loaded it.
Create ==
    /\ call = "new"
    /\ call' = "created"
    /\ \E initial \in IF managed THEN BOOLEAN ELSE {FALSE} :
         manager' = [manager EXCEPT !.has = managed, !.initial = initial]
    /\ UNCHANGED <<fixed, boltz, result, wire, steps, flags, record, count>>

\* sendLightningPayment sends before it waits; the send may throw.
Send ==
    /\ call = "created" /\ kind = "submarine"
    /\ call' = "paid" /\ lockup' = "locked"
    /\ UNCHANGED <<fixed, server, payout, result, wire, steps, flags, record, manager, count>>

SendFails ==
    /\ call = "created" /\ kind = "submarine" /\ Fails
    /\ Settle("failed")
    /\ UNCHANGED <<fixed, boltz, wire, steps, flags, record, manager>>

\* arkToBtc, btcToArk: the addresses do not verify, or the request for it
\* fails.  The swap stays stored and managed.
VerifyFails ==
    /\ call = "created" /\ IsChain(kind) /\ Fails
    /\ Settle("failed")
    /\ UNCHANGED <<fixed, boltz, wire, steps, flags, record, manager>>

\* The wait is left to a manager that has the swap, but waitForSwapSettlement
\* never asks for one.
Wait ==
    /\ call = IF kind = "submarine" THEN "paid" ELSE "created"
    /\ IF manager.has /\ kind # "submarine"
       THEN call' = "asked" /\ UNCHANGED socket
       ELSE call' = "waiting" /\ socket' = "connecting"
    /\ UNCHANGED <<fixed, boltz, result, ws, steps, flags, record, manager, count>>

\* refundVHTLC: the coins are there, and are refunded; the status that is saved
\* is that of the swap the call was given, which a manager moves on.
Refund ==
    /\ call = "refunding" /\ lockup = "locked"
    /\ lockup' = "refunded" /\ call' = "refunded"
    /\ stored' = manager.status /\ refunded' = TRUE /\ UNCHANGED skipped
    /\ UNCHANGED <<fixed, server, payout, result, wire, steps, flags, manager, count>>

\* Before the locktime of the refund a recoverable VTXO, or one that Boltz does
\* not sign for, is left where it is: no error.
RefundSkips ==
    /\ call = "refunding" /\ lockup = "locked"
    /\ call' = "refunded"
    /\ stored' = manager.status /\ refunded' = FALSE /\ skipped' = TRUE
    /\ UNCHANGED <<fixed, boltz, result, wire, steps, flags, manager, count>>

\* The coins are gone: it throws.
RefundThrows ==
    /\ call = "refunding" /\ lockup # "locked"
    /\ call' = "done"
    /\ UNCHANGED <<fixed, boltz, result, wire, steps, flags, record, manager, count>>

RefundFails ==
    /\ call \in {"refunding", "refunded"} /\ Fails
    /\ call' = "done"
    /\ UNCHANGED <<fixed, boltz, result, wire, steps, flags, record, manager>>

SaveRefunded ==
    /\ call = "refunded"
    /\ call' = "done" /\ Save(server)
    /\ UNCHANGED <<fixed, boltz, result, wire, steps, flags, manager, count>>

-----------------------------------------------------------------------------
(* monitorSwap. *)

\* Boltz answers the subscription with the status of the swap.
Connect ==
    /\ socket = "connecting"
    /\ socket' = "open" /\ ws' = <<server>>
    /\ UNCHANGED <<fixed, boltz, wait, steps, record, manager, count>>

\* onerror, or the timeout of the connection: waitForSwapSettlement ignores it
\* once a final status has come.
ConnectionError ==
    /\ socket \in {"connecting", "open"} /\ Loses
    /\ socket' = "closed" /\ ws' = <<>>
    /\ IF flags.isResolved THEN UNCHANGED <<call, result>> ELSE Settle("failed")
    /\ UNCHANGED <<fixed, boltz, flags, steps, record, manager>>

\* onclose without an error resolves monitorSwap: nothing settles the wait.
ConnectionCloses ==
    /\ socket = "open" /\ Loses
    /\ socket' = "closed" /\ ws' = <<>>
    /\ UNCHANGED <<fixed, boltz, wait, steps, record, manager>>

\* The statuses at which monitorSwap closes its socket, beside a lockup failure
\* that is not negotiable.
Closing == {"invoice.settled", "transaction.claimed", "transaction.refunded",
            "invoice.expired", "invoice.failedToPay", "transaction.failed", "swap.expired"}

\* Fault: an expired swap is none of a payment's concern.
FailuresButExpiry(k) ==
    IF k = "submarine" THEN SubmarineRefundable \ {"swap.expired"}
    ELSE {"swap.expired", "transaction.failed", "transaction.refunded"}
         \cup (IF k = "reverse" THEN {"invoice.expired"} ELSE {})

\* The statuses a callback rejects the wait for.
Failures(k) ==
    IF k = "submarine" THEN SubmarineRefundable
    ELSE {"swap.expired", "transaction.failed", "transaction.refunded"}
         \cup (IF k = "reverse" THEN {"invoice.expired"} ELSE {})

\* What a callback awaits after its save; a negotiable lockup failure of a
\* chain swap is quoted anew.
After(status, negotiable) ==
    IF status \in Failures(kind) THEN {"reject"}
    ELSE IF status \in ClaimableStatus(kind) THEN {"claim"}
    ELSE IF status \in SuccessStatus(kind) THEN {"txid"}
    ELSE IF status = "transaction.lockupFailed" /\ IsChain(kind)
    THEN {IF negotiable THEN "quote" ELSE "badQuote"}
    ELSE {}

\* A message: the socket is closed first if the status ends the swap, then
\* the callback runs up to its first await.  A payment that has settled takes
\* no more, and asks for the preimage before it saves.
Receive ==
    /\ socket = "open" /\ ws # <<>>
    /\ \E negotiable \in BOOLEAN :
         LET status == Head(ws)
             closes == \/ status \in Closing
                       \/ status = "transaction.lockupFailed" /\ ~negotiable
         IN /\ socket' = IF closes THEN "closed" ELSE socket
            /\ ws' = IF closes THEN <<>> ELSE Tail(ws)
            /\ IF kind = "submarine" /\ flags.isResolved
               THEN UNCHANGED <<steps, record, flags>>
               ELSE /\ steps' = steps \cup {[at |-> at, status |-> status] :
                                              at \in After(status, negotiable)}
                    /\ IF kind = "submarine" /\ status = "transaction.claimed"
                       THEN UNCHANGED record ELSE Save(status)
                    /\ flags' = [flags EXCEPT !.isResolved =
                                   @ \/ (kind = "submarine" /\ After(status, negotiable) # {})]
    /\ UNCHANGED <<fixed, boltz, call, result, manager, count>>

-----------------------------------------------------------------------------
(* Callbacks after their save. *)

\* Fault: the error of an expired swap is not refundable.
RejectPlain ==
    /\ \E s \in At("reject") :
         /\ steps' = steps \ {s}
         /\ Settle(IF s.status = "swap.expired" THEN "failed" ELSE "refundable")
    /\ UNCHANGED <<fixed, boltz, flags, wire, record, manager, count>>

\* Errors of a reverse or chain swap's status are refundable too, but only
\* sendLightningPayment asks.
Reject ==
    /\ \E s \in At("reject") :
         /\ steps' = steps \ {s}
         /\ Settle(IF s.status = "transaction.refunded" THEN "failed" ELSE "refundable")
    /\ UNCHANGED <<fixed, boltz, flags, wire, record, manager, count>>

\* getReverseSwapTxId, getSwapStatus, getSwapPreimage.
Answer ==
    /\ \E s \in At("txid") :
         /\ steps' = steps \ {s}
         /\ IF kind = "submarine" THEN Save(s.status) ELSE UNCHANGED record
         /\ kind = "reverse" => payout # "none"
         /\ Settle(IF s.status \in SuccessStatus(kind) THEN "resolved" ELSE "existing")
    /\ UNCHANGED <<fixed, boltz, flags, wire, manager, count>>

\* There is no txid of a swap that ended before Boltz had paid out.
AnswerIsNone ==
    /\ kind = "reverse" /\ payout = "none"
    /\ \E s \in At("txid") : steps' = steps \ {s}
    /\ Settle("failed")
    /\ UNCHANGED <<fixed, boltz, flags, wire, record, manager, count>>

\* Nobody catches what a callback throws; waitForSwapCompletion's request is caught.
AnswerFails ==
    /\ Fails
    /\ \E s \in At("txid") : steps' = steps \ {s}
    /\ IF socket = "none" THEN Settle("failed") ELSE UNCHANGED <<call, result>>
    /\ UNCHANGED <<fixed, boltz, flags, wire, record, manager>>

\* quoteSwap: the failure of one that is not negotiable has no new quote.
Quote ==
    /\ \E s \in At("quote") : steps' = steps \ {s}
    /\ UNCHANGED <<fixed, boltz, wait, wire, record, manager, count>>

QuoteFails ==
    /\ \E s \in At("quote") \cup At("badQuote") :
         /\ s.at = "quote" => count.fails < MaxFails
         /\ count' = IF s.at = "quote" THEN [count EXCEPT !.fails = @ + 1] ELSE count
         /\ steps' = steps \ {s}
    /\ Settle("refundable")
    /\ UNCHANGED <<fixed, boltz, flags, wire, record, manager>>

\* Fault: each claimable status of a chain swap starts a claim.
ClaimsAgain == TRUE

\* The wait of a chain swap starts one claim; that of a reverse swap, one for
\* each claimable status.
MayClaim == ~IsChain(kind) \/ ~flags.claimStarted

StartClaim ==
    /\ \E s \in At("claim") :
         IF MayClaim THEN Follow(s, "look") ELSE steps' = steps \ {s}
    /\ flags' = [flags EXCEPT !.claimStarted = TRUE]
    /\ UNCHANGED <<fixed, boltz, call, result, wire, record, manager, count>>

-----------------------------------------------------------------------------
(* claimVHTLC, claimArk, claimBtc: SwapManager models what they sign. *)

\* claimBtc ends with the broadcast; the others ask for the status to store.
Claim ==
    /\ \E s \in At("look") :
         /\ payout = "locked"
         /\ payout' = "claimed"
         /\ IF kind = "chainToBtc" THEN steps' = steps \ {s} ELSE Follow(s, "ask")
    /\ UNCHANGED <<fixed, server, lockup, wait, wire, record, manager, count>>

ClaimRejected ==
    /\ payout # "locked"
    /\ \E s \in At("look") : steps' = steps \ {s}
    /\ Settle("claimFailed")
    /\ UNCHANGED <<fixed, boltz, flags, wire, record, manager, count>>

ClaimFails ==
    /\ Fails
    /\ \E s \in At("look") \cup At("ask") : steps' = steps \ {s}
    /\ Settle("claimFailed")
    /\ UNCHANGED <<fixed, boltz, flags, wire, record, manager>>

AskStatus ==
    /\ \E s \in At("ask") :
         steps' = (steps \ {s}) \cup {[at |-> "answered", status |-> server]}
    /\ UNCHANGED <<fixed, boltz, wait, wire, record, manager, count>>

SaveClaimed ==
    /\ \E s \in At("answered") : steps' = steps \ {s} /\ Save(s.status)
    /\ UNCHANGED <<fixed, boltz, wait, wire, manager, count>>

-----------------------------------------------------------------------------
(* waitForSwapCompletion, and the manager it subscribes to. *)

Txid(status) == [at |-> "txid", status |-> status]

\* A swap that has left the manager is found again only if start() loaded it.
WaitForCompletion ==
    /\ call = "asked"
    /\ IF ~manager.has /\ ~manager.initial
       THEN Settle("failed") /\ UNCHANGED <<manager, steps>>
       ELSE IF manager.status \in FinalStatus(kind)
       THEN IF kind = "reverse"
            THEN /\ call' = "waiting" /\ steps' = steps \cup {Txid(manager.status)}
                 /\ UNCHANGED <<result, manager>>
            ELSE Settle("failed") /\ UNCHANGED <<manager, steps>>
       ELSE /\ call' = "waiting" /\ manager' = [manager EXCEPT !.sub = TRUE]
            /\ UNCHANGED <<result, steps>>
    /\ UNCHANGED <<fixed, boltz, flags, wire, record, count>>

\* Fault: any final status is taken for success.
AnyFinal == FinalStatus(kind)

\* The final statuses handleUpdate resolves for.
Succeeds == SuccessStatus(kind)

\* handleSwapStatusUpdate: listeners are told before the save.
ManagerHears ==
    /\ manager.has /\ manager.status # server
    /\ Save(server)
    /\ LET ends == manager.sub /\ server \in FinalStatus(kind) IN
         /\ manager' = [manager EXCEPT !.status = server, !.sub = @ /\ ~ends]
         /\ IF ends /\ server \in Succeeds /\ kind = "reverse"
            THEN steps' = steps \cup {Txid(server)} /\ UNCHANGED <<call, result>>
            ELSE /\ UNCHANGED steps
                 /\ IF ~ends THEN UNCHANGED <<call, result>>
                    ELSE Settle(IF server \in Succeeds THEN "resolved" ELSE "failed")
    /\ UNCHANGED <<fixed, boltz, flags, wire, count>>

\* executeAutonomousAction: what claim, refund and their kind do, in one step.
ManagerActs ==
    /\ manager.has
    /\ \/ /\ manager.status \in ClaimableStatus(kind) /\ payout = "locked"
          /\ payout' = "claimed" /\ UNCHANGED lockup
          /\ IF kind = "chainToBtc" THEN UNCHANGED record ELSE Save(server)
       \/ /\ manager.status \in RefundableStatus(kind) /\ lockup = "locked" /\ UNCHANGED payout
          /\ \E fully \in BOOLEAN :
               /\ lockup' = IF fully THEN "refunded" ELSE lockup
               /\ IF kind = "submarine"
                  THEN stored' = manager.status /\ refunded' = fully /\ UNCHANGED skipped
                  ELSE fully /\ Save(server)
    /\ UNCHANGED <<fixed, server, wait, wire, steps, manager, count>>

ManagerForgets ==
    /\ manager.has /\ manager.status \in FinalStatus(kind)
    /\ manager' = [manager EXCEPT !.has = FALSE, !.sub = FALSE]
    /\ UNCHANGED <<fixed, boltz, wait, wire, steps, record, count>>

\* removeSwap, or stop.
ManagerLoses ==
    /\ manager.has /\ Loses
    /\ manager' = [manager EXCEPT !.has = FALSE, !.sub = FALSE]
    /\ UNCHANGED <<fixed, boltz, wait, wire, steps, record>>

Own ==
    \/ Create \/ Send \/ Wait \/ Refund \/ RefundSkips \/ RefundThrows \/ SaveRefunded
    \/ Connect \/ Receive \/ Reject \/ Answer \/ AnswerIsNone \/ Quote \/ QuoteFails
    \/ StartClaim \/ Claim \/ ClaimRejected \/ AskStatus \/ SaveClaimed
    \/ WaitForCompletion \/ ManagerHears \/ ManagerActs

Next ==
    \/ Own \/ ServerMove \/ PayChain
    \/ SendFails \/ VerifyFails \/ RefundFails \/ AnswerFails \/ ClaimFails
    \/ ConnectionError \/ ConnectionCloses \/ ManagerForgets \/ ManagerLoses

Spec == Init /\ [][Next]_vars

\* The program's own steps go on: requests are answered, callbacks run.
Fairness == WF_vars(Own)
FairSpec == Spec /\ Fairness

-----------------------------------------------------------------------------
(* Properties. *)

\* A wait is resolved only for a swap that went through.
ResolvedIsDone ==
    result = "resolved" =>
        IF kind = "reverse" THEN payout = "claimed" ELSE lockup = "taken"

\* Overlapping callbacks of a chain swap do not claim twice: one claim is under
\* way at most, and none begins for coins that were claimed.
ClaimsOnce ==
    IsChain(kind) /\ ~managed =>
        /\ Cardinality(At("look") \cup At("ask") \cup At("answered")) <= 1
        /\ At("look") # {} => payout # "claimed"

\* A wait ends with the swap: a status that is final for the swap is followed
\* by an answer to the caller, unless a request failed or the connection, or
\* the manager's swap, was lost.
WaitEnds ==
    server \in FinalStatus(kind) /\ call \in {"asked", "waiting"}
        ~> call = "done" \/ count.fails + count.lost > 0

\* isSubmarineSwapRefundable: the record says there is something to refund.
SaysRefundable == stored \in SubmarineRefundable /\ ~refunded

\* sendLightningPayment: when it returns, the coins it sent were paid for or
\* are refunded, unless a request failed or the connection was lost; or a refund
\* was tried and had to be put off, and then the record still asks for it.
NothingLeftLocked ==
    kind = "submarine" /\ call = "done" /\ count.fails + count.lost = 0 =>
        lockup \in {"taken", "refunded"} \/ (skipped /\ SaysRefundable)

=============================================================================
