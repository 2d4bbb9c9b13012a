----------------------------- MODULE VtxoManager -----------------------------
(* What runs in the background of a wallet (ts-sdk wallet/vtxo-manager.ts):   *)
(* a poll that settles new boarding outputs and sweeps those whose timelock   *)
(* has passed, renewals of VTXOs triggered by what the contract manager       *)
(* reports, and dispose(), which ends both.                                   *)
(*                                                                            *)
(* Settlements queue for the wallet's lock (WalletFunds) and take place in a  *)
(* batch (BatchSession): here they are answered at some later time, well or    *)
(* with a failure.                                                            *)
EXTENDS Naturals, FiniteSets

CONSTANTS Utxos,      \* outpoints of the boarding address
          Small,      \* outputs that alone are below dust
          Vtxos,      \* the VTXOs of the wallet, in the model's bound
          MaxFails,   \* requests that fail
          MaxHappens  \* VTXOs received, VTXOs that age, renewals asked for

ASSUME ManagerAssumption == Small \subseteq Utxos /\ MaxFails \in Nat /\ MaxHappens \in Nat

VARIABLES
  chain,      \* boarding outputs: taken while the spending transaction is unconfirmed
  expired,    \* outputs whose timelock has passed
  known,      \* knownBoardingUtxos
  swept,      \* sweptBoardingUtxos
  poll,       \* the poll in progress
  timer,      \* startupPollTimeoutId or pollTimeoutId
  consecutivePollFailures,
  disposed,   \* how far dispose() is
  subscription,
  eager,      \* no batch lives longer than vtxoThreshold
  vtxo,       \* the wallet's VTXOs
  events,     \* vtxo_received events on their way
  echoes,     \* those of them that report the output of a renewal
  renewal,    \* the renewal in progress and its VTXOs
  cooled,     \* RENEWAL_COOLDOWN_MS have passed since the last renewal
  fails, happened

managerVars == <<chain, expired, known, swept, poll, timer, consecutivePollFailures, disposed,
                 subscription, eager, vtxo, events, echoes, renewal, cooled, fails, happened>>
boarding == <<chain, expired, known, swept>>
polling == <<poll, timer, consecutivePollFailures>>
renewing == <<eager, vtxo, events, echoes, renewal, cooled, happened>>
closing == <<disposed, subscription>>

\* Failures from which on MAX_BACKOFF_MS bounds the delay; more make no difference.
LongestBackoff == 3

NoPoll == [stage |-> "none", listed |-> {}, picked |-> {}, error |-> FALSE]
NoRenewal == [stage |-> "none", inputs |-> {}]

\* isVtxoExpiringSoon of a VTXO whose batch has just begun.
New == IF eager THEN "expiring" ELSE "live"

\* The constructor: the startup timer is armed, the subscription is being made.
ManagerInit ==
  /\ chain \in [Utxos -> {"none", "gone"}] /\ expired = {} /\ known = {} /\ swept = {}
  /\ poll = NoPoll /\ timer = "startup" /\ consecutivePollFailures = 0
  /\ disposed = "no" /\ subscription = "pending"
  /\ eager \in BOOLEAN /\ vtxo \in [Vtxos -> {"none", New}] /\ events = 0 /\ echoes = 0
  /\ renewal = NoRenewal /\ cooled = TRUE
  /\ fails = 0 /\ happened \in 0 .. MaxHappens

MayFail == fails < MaxFails
Failing == fails' = fails + 1

----------------------------------------------------------------------------
(* The chain, and the user. *)

Boards(u) ==
  /\ chain[u] = "none" /\ chain' = [chain EXCEPT ![u] = "open"]
  /\ UNCHANGED <<expired, known, swept, polling, renewing, closing, fails>>

Expires(u) ==
  /\ chain[u] \in {"open", "taken"} /\ u \notin expired /\ expired' = expired \cup {u}
  /\ UNCHANGED <<chain, known, swept, polling, renewing, closing, fails>>

Confirms(u) ==
  /\ chain[u] = "taken" /\ chain' = [chain EXCEPT ![u] = "gone"]
  /\ UNCHANGED <<expired, known, swept, polling, renewing, closing, fails>>

\* settle() of the program itself takes every output that has not expired.
UserSettles ==
  LET S == {u \in Utxos : chain[u] = "open" /\ u \notin expired}
  IN /\ S # {} /\ chain' = [u \in Utxos |-> IF u \in S THEN "taken" ELSE chain[u]]
     /\ UNCHANGED <<expired, known, swept, polling, renewing, closing, fails>>

----------------------------------------------------------------------------
(* The poll. *)

\* Fault: the timer is armed again whatever has been disposed.
ArmedAlways == "poll"

\* schedulePoll, at the end of a poll.
Armed == IF disposed = "no" THEN "poll" ELSE "none"

\* A timer fires; the poll asks for the outputs.
PollBoardingUtxos ==
  /\ timer # "none" /\ timer' = "none"
  /\ poll' = IF disposed = "no" /\ poll = NoPoll THEN [NoPoll EXCEPT !.stage = "listing"] ELSE poll
  /\ UNCHANGED <<boarding, consecutivePollFailures, renewing, closing, fails>>

\* finally: failures are counted, dispose is told, the next poll is scheduled.
EndPoll(error) ==
  /\ poll' = NoPoll /\ timer' = Armed
  /\ consecutivePollFailures' = IF ~error THEN 0
                                ELSE IF consecutivePollFailures = LongestBackoff THEN LongestBackoff
                                ELSE consecutivePollFailures + 1

\* Outputs whose spending is unconfirmed may still be listed.
Listed ==
  /\ poll.stage = "listing"
  /\ \E S \in SUBSET {u \in Utxos : chain[u] = "taken"} :
       poll' = [poll EXCEPT !.stage = "choosing",
                            !.listed = S \cup {u \in Utxos : chain[u] = "open"}]
  /\ UNCHANGED <<boarding, timer, consecutivePollFailures, renewing, closing, fails>>

ListFails ==
  /\ poll.stage = "listing" /\ MayFail /\ Failing /\ EndPoll(TRUE)
  /\ UNCHANGED <<boarding, renewing, closing>>

\* settleBoardingUtxos: neither expired nor known, if they are worth it.
Unsettled == poll.listed \ (known \cup expired)

\* Fault: outputs are known as soon as they are chosen.
SettleBoardingUtxosKnown ==
  /\ poll.stage = "choosing"
  /\ IF Unsettled \subseteq Small
     THEN poll' = [poll EXCEPT !.stage = "sweeping"] /\ UNCHANGED known
     ELSE /\ poll' = [poll EXCEPT !.stage = "settling", !.picked = Unsettled]
          /\ known' = known \cup Unsettled
  /\ UNCHANGED <<chain, expired, swept, timer, consecutivePollFailures, renewing, closing, fails>>

SettleBoardingUtxos ==
  /\ poll.stage = "choosing"
  /\ poll' = IF Unsettled \subseteq Small
             THEN [poll EXCEPT !.stage = "sweeping"]
             ELSE [poll EXCEPT !.stage = "settling", !.picked = Unsettled]
  /\ UNCHANGED <<boarding, timer, consecutivePollFailures, renewing, closing, fails>>

\* The settlement has been joined: the outputs are known from now on.
Settled ==
  /\ poll.stage = "settling" /\ \A u \in poll.picked : chain[u] = "open"
  /\ chain' = [u \in Utxos |-> IF u \in poll.picked THEN "taken" ELSE chain[u]]
  /\ known' = known \cup poll.picked
  /\ poll' = [poll EXCEPT !.stage = "sweeping", !.picked = {}]
  /\ UNCHANGED <<expired, swept, timer, consecutivePollFailures, renewing, closing, fails>>

\* It is refused when an input is spent, or fails: the sweep goes on.
SettleFails ==
  /\ poll.stage = "settling"
  /\ IF \A u \in poll.picked : chain[u] = "open" THEN MayFail /\ Failing ELSE UNCHANGED fails
  /\ poll' = [poll EXCEPT !.stage = "sweeping", !.picked = {}, !.error = TRUE]
  /\ UNCHANGED <<boarding, timer, consecutivePollFailures, renewing, closing>>

\* sweepExpiredBoardingUtxos: of the outputs listed before the settlement those
\* that have expired by now and were not swept.
ToSweep == (poll.listed \cap expired) \ swept

SweepExpiredBoardingUtxos ==
  /\ poll.stage = "sweeping" /\ ToSweep # {}
  /\ poll' = [poll EXCEPT !.stage = "broadcasting", !.picked = ToSweep]
  /\ UNCHANGED <<boarding, timer, consecutivePollFailures, renewing, closing, fails>>

\* Nothing to sweep: no error.
NothingToSweep ==
  /\ poll.stage = "sweeping" /\ ToSweep = {} /\ EndPoll(poll.error)
  /\ UNCHANGED <<boarding, renewing, closing, fails>>

\* Outputs worth less than the fee: an error.
NotEconomical ==
  /\ poll.stage = "sweeping" /\ ToSweep # {} /\ ToSweep \subseteq Small /\ EndPoll(TRUE)
  /\ UNCHANGED <<boarding, renewing, closing, fails>>

\* The transaction is broadcast.  Its output, at the same address, is known; the
\* model follows it when there is an outpoint left.
Swept ==
  /\ poll.stage = "broadcasting" /\ \A u \in poll.picked : chain[u] = "open"
  /\ swept' = swept \cup poll.picked
  /\ LET free == {u \in Utxos : chain[u] = "none"}
         spent == [u \in Utxos |-> IF u \in poll.picked THEN "taken" ELSE chain[u]]
     IN IF free = {} THEN chain' = spent /\ UNCHANGED known
        ELSE \E out \in free : /\ chain' = [spent EXCEPT ![out] = "open"]
                               /\ known' = known \cup {out}
  /\ EndPoll(poll.error)
  /\ UNCHANGED <<expired, renewing, closing, fails>>

\* The network refuses it when any input is spent.
SweepFails ==
  /\ poll.stage = "broadcasting" /\ EndPoll(TRUE)
  /\ IF \A u \in poll.picked : chain[u] = "open" THEN MayFail /\ Failing ELSE UNCHANGED fails
  /\ UNCHANGED <<boarding, renewing, closing>>

----------------------------------------------------------------------------
(* Renewals. *)

Happens == happened < MaxHappens /\ happened' = happened + 1
keepsBoarding == <<boarding, polling, closing, eager>>

Ages(v) ==
  /\ vtxo[v] = "live" /\ Happens /\ vtxo' = [vtxo EXCEPT ![v] = "expiring"]
  /\ UNCHANGED <<keepsBoarding, events, echoes, renewal, cooled, fails>>

\* Of a batch that has just begun, or of one that is about to expire.
Receives(v) ==
  /\ vtxo[v] = "none" /\ Happens
  /\ \E age \in {New, "expiring"} : vtxo' = [vtxo EXCEPT ![v] = age]
  /\ events' = events + 1
  /\ UNCHANGED <<keepsBoarding, echoes, renewal, cooled, fails>>

\* A send of the program spends a VTXO.
UserSpends(v) ==
  /\ vtxo[v] \in {"live", "expiring"} /\ vtxo' = [vtxo EXCEPT ![v] = "none"]
  /\ UNCHANGED <<keepsBoarding, events, echoes, renewal, cooled, happened, fails>>

\* getExpiringVtxos: close to their expiry, recoverable or below dust.
Eligible == {v \in Vtxos : vtxo[v] = "expiring"}

\* renewVtxos begins, unless one is in progress.
StartRenewal == renewal' = [NoRenewal EXCEPT !.stage = "reading"]

\* The program asks for a renewal, before dispose() or after it: no cooldown.
UserRenews ==
  /\ renewal = NoRenewal /\ Happens /\ StartRenewal
  /\ UNCHANGED <<keepsBoarding, vtxo, events, echoes, cooled, fails>>

\* Fault: an event is followed by a renewal whenever none is in progress.
ShouldRenewAlways == renewal = NoRenewal

\* shouldRenew: none is in progress, none has just been.
ShouldRenew == renewal = NoRenewal /\ cooled

\* A contract event: a renewal, or nothing, the event is dropped.  The delegator
\* is told, which changes nothing here.
VtxoReceived ==
  /\ \/ events > 0 /\ events' = events - 1 /\ UNCHANGED echoes
     \/ echoes > 0 /\ echoes' = echoes - 1 /\ UNCHANGED events
  /\ IF subscription = "active" /\ ShouldRenew THEN StartRenewal ELSE UNCHANGED renewal
  /\ UNCHANGED <<keepsBoarding, vtxo, cooled, happened, fails>>

\* Nothing to renew, or together below dust: an error that nobody sees.
RenewVtxos ==
  /\ renewal.stage = "reading"
  /\ \/ renewal' = NoRenewal
     \/ Eligible # {} /\ renewal' = [stage |-> "settling", inputs |-> Eligible]
  /\ UNCHANGED <<keepsBoarding, vtxo, events, echoes, cooled, happened, fails>>

\* The batch: one VTXO for all of them, under the name of one; the server
\* reports it.  settle() has not returned.
BatchRenews ==
  /\ renewal.stage = "settling" /\ \A v \in renewal.inputs : vtxo[v] # "none"
  /\ \E out \in renewal.inputs :
       vtxo' = [v \in Vtxos |-> IF v = out THEN New
                                ELSE IF v \in renewal.inputs THEN "none" ELSE vtxo[v]]
  /\ renewal' = [renewal EXCEPT !.stage = "settled"] /\ echoes' = echoes + 1
  /\ UNCHANGED <<keepsBoarding, events, cooled, happened, fails>>

\* settle() returns: the cooldown begins.
Renewed ==
  /\ renewal.stage = "settled" /\ renewal' = NoRenewal /\ cooled' = FALSE
  /\ UNCHANGED <<keepsBoarding, vtxo, events, echoes, happened, fails>>

\* An input has been spent meanwhile, the batch fails, or its end is not seen:
\* no cooldown.
RenewFails ==
  /\ renewal.stage \in {"settling", "settled"} /\ renewal' = NoRenewal
  /\ IF renewal.stage = "settled" \/ \A v \in renewal.inputs : vtxo[v] # "none"
     THEN MayFail /\ Failing ELSE UNCHANGED fails
  /\ UNCHANGED <<keepsBoarding, vtxo, events, echoes, cooled, happened>>

\* When what a renewal makes is renewed again, what the server reports of it is
\* taken to come within RENEWAL_COOLDOWN_MS.
CooldownPasses ==
  /\ ~cooled /\ (eager => echoes = 0) /\ cooled' = TRUE
  /\ UNCHANGED <<keepsBoarding, vtxo, events, echoes, renewal, happened, fails>>

----------------------------------------------------------------------------
(* The subscription, and dispose. *)

\* The contract manager is there and is subscribed to, or it is not.
InitializeSubscription ==
  /\ subscription = "pending" /\ subscription' \in {"active", "failed"}
  /\ UNCHANGED <<boarding, polling, renewing, disposed, fails>>

Dispose ==
  /\ disposed = "no" /\ timer' = "none"
  /\ disposed' = IF poll = NoPoll THEN "unsubscribing" ELSE "waiting"
  /\ UNCHANGED <<boarding, poll, consecutivePollFailures, renewing, subscription, fails>>

\* The poll is over, or takes more than 30 seconds.
DisposeWaited ==
  /\ disposed = "waiting" /\ disposed' = "unsubscribing"
  /\ UNCHANGED <<boarding, polling, renewing, subscription, fails>>

Unsubscribe ==
  /\ disposed = "unsubscribing" /\ subscription # "pending"
  /\ disposed' = "done" /\ subscription' = "stopped"
  /\ UNCHANGED <<boarding, polling, renewing, fails>>

----------------------------------------------------------------------------
PollStep == Listed \/ SettleBoardingUtxos \/ Settled \/ SettleFails \/ SweepExpiredBoardingUtxos
            \/ NothingToSweep \/ NotEconomical \/ Swept \/ SweepFails

RenewalStep == VtxoReceived \/ RenewVtxos \/ BatchRenews \/ Renewed \/ RenewFails

ManagerNext ==
  \/ \E u \in Utxos : Boards(u) \/ Expires(u) \/ Confirms(u)
  \/ UserSettles \/ PollBoardingUtxos \/ PollStep \/ ListFails
  \/ \E v \in Vtxos : Ages(v) \/ Receives(v) \/ UserSpends(v)
  \/ UserRenews \/ RenewalStep \/ CooldownPasses
  \/ InitializeSubscription \/ Dispose \/ DisposeWaited \/ Unsubscribe

ManagerSpec == ManagerInit /\ [][ManagerNext]_managerVars

\* Timers fire, requests are answered, transactions confirm.
ManagerFairness ==
  /\ WF_managerVars(PollBoardingUtxos) /\ WF_managerVars(PollStep) /\ WF_managerVars(RenewalStep)
  /\ WF_managerVars(CooldownPasses) /\ \A u \in Utxos : WF_managerVars(Confirms(u))

ManagerFairSpec == ManagerSpec /\ ManagerFairness

----------------------------------------------------------------------------
ManagerTypeOK ==
  /\ chain \in [Utxos -> {"none", "open", "taken", "gone"}]
  /\ expired \subseteq Utxos /\ known \subseteq Utxos /\ swept \subseteq Utxos
  /\ poll.stage \in {"none", "listing", "choosing", "settling", "sweeping", "broadcasting"}
  /\ poll.listed \subseteq Utxos /\ poll.picked \subseteq poll.listed
  /\ timer \in {"none", "startup", "poll"} /\ consecutivePollFailures \in 0 .. LongestBackoff
  /\ disposed \in {"no", "waiting", "unsubscribing", "done"}
  /\ subscription \in {"pending", "active", "failed", "stopped"}
  /\ vtxo \in [Vtxos -> {"none", "live", "expiring"}] /\ renewal.inputs \subseteq Vtxos
  /\ renewal.stage \in {"none", "reading", "settling", "settled"}
  /\ events \in Nat /\ echoes \in Nat /\ cooled \in BOOLEAN /\ eager \in BOOLEAN
  /\ fails \in 0 .. MaxFails /\ happened \in 0 .. MaxHappens

\* Once dispose() has begun no poll begins, not even the one the poll in progress
\* would have scheduled; once it is done no event starts a renewal, though the
\* program still may.
QuietAfterDispose ==
  [][/\ disposed # "no" /\ poll = NoPoll => poll' = NoPoll
     /\ disposed # "no" => timer' = "none"
     /\ disposed = "done" /\ renewal = NoRenewal /\ <<events, echoes>>' # <<events, echoes>>
          => renewal' = NoRenewal]_managerVars

\* A renewal brings an event, which would bring a renewal of its output when that
\* is eligible at once: this comes to rest.
RenewalsRest == <>[](renewal = NoRenewal /\ events = 0 /\ echoes = 0)

\* An output worth it that is not the manager's own sweep does not stay: it is
\* settled or swept, though requests fail and other outputs expire meanwhile.
BoardingHandled ==
  \A u \in Utxos \ Small :
    chain[u] = "open" /\ u \notin known ~> chain[u] # "open" \/ disposed # "no"

==============================================================================
