----------------------------- MODULE ExpoTasks -----------------------------
(***************************************************************************)
(* Background work on Expo: the task queue that the app and the background  *)
(* task share through AsyncStorage (ts-sdk worker/expo), the rounds over it *)
(* (ExpoWallet, ExpoArkadeSwaps, their background tasks) and the round of   *)
(* polls over the stored swaps (boltz-swap expo/swapsPollProcessor.ts).     *)
(*                                                                          *)
(* A change of a stored list is a read and a write with other work between  *)
(* them.  Results of tasks are left out: they are acknowledged unread.      *)
(* The OS may end a background round, and the user the app, at any await.   *)
(* The SwapManager of the open app is one step per save or action:          *)
(* SwapManager models it.                                                   *)
(***************************************************************************)
EXTENDS Naturals, FiniteSets, BoltzServer

CONSTANTS
    StoredSwaps, Kinds,       \* the stored swaps, and the kinds they may be of
    Tasks,              \* ids of tasks
    App, Background,    \* the two that run over the queue
    AppRunsTasks,       \* the foreground poll runs tasks: ExpoWallet's, not ExpoArkadeSwaps'
    NoTask, NoSwap,
    MostTroubles         \* bound on the rounds and apps ended, and requests that fail

Runners == {App, Background}

ASSUME ExpoTasksAssumption ==
    /\ Kinds \subseteq Kind
    /\ App # Background /\ AppRunsTasks \in BOOLEAN
    /\ NoTask \notin Tasks /\ NoSwap \notin StoredSwaps
    /\ MostTroubles \in Nat

VARIABLES
    config,     \* the persisted config exists
    inbox,      \* tasks waiting
    open,       \* the app runs
    runner,     \* a round of each runner
    kindOf,     \* the kind of each swap
    stored,     \* the swap repository
    server,     \* Boltz' status of each swap
    coin,       \* the coins of its VHTLC
    troubles    \* rounds and apps ended, requests that failed

queue == <<config, inbox>>
swaps == <<kindOf, stored, server, coin>>
taskVars == <<queue, open, runner, swaps, troubles>>

SwapRecord == [status : Status, refunded : BOOLEAN]

\* The awaits of a round, "W": before the write of a list that was read.
RoundStage == {"idle", "config", "tasks", "loop", "poll", "save", "act",
               "remove", "removeW", "seed", "add", "addW"}

\* todo: tasks of runTasks; task: the one being executed; list: the list read
\* last; loaded, polls: the swaps as loaded, and those yet to poll; swap, status:
\* the one being polled and the answer for it.
Idle == [stage |-> "idle", todo |-> {}, task |-> NoTask, list |-> {},
         loaded |-> [s \in StoredSwaps |-> [status |-> "swap.created", refunded |-> FALSE]],
         polls |-> {}, swap |-> NoSwap, status |-> "swap.created"]

At(r, stage) == runner[r].stage = stage

RoundType ==
    [stage : RoundStage, todo : SUBSET Tasks, task : Tasks \cup {NoTask}, list : SUBSET Tasks,
     loaded : [StoredSwaps -> SwapRecord], polls : SUBSET StoredSwaps, swap : StoredSwaps \cup {NoSwap},
     status : Status]

TaskTypeOK ==
    /\ config \in BOOLEAN /\ open \in BOOLEAN
    /\ inbox \subseteq Tasks
    /\ runner \in [Runners -> RoundType] /\ \A r \in Runners : At(r, "idle") => runner[r] = Idle
    /\ kindOf \in [StoredSwaps -> Kinds]
    /\ stored \in [StoredSwaps -> SwapRecord]
    /\ server \in [StoredSwaps -> Status]
    /\ coin \in [StoredSwaps -> {"locked", "spent"}]
    /\ troubles \in 0 .. MostTroubles

TaskInit ==
    /\ config = FALSE /\ inbox = {}
    /\ open = FALSE
    /\ runner = [r \in Runners |-> Idle]
    /\ kindOf \in [StoredSwaps -> Kinds]
    /\ stored = [s \in StoredSwaps |-> [status |-> CreatedStatus(kindOf[s]), refunded |-> FALSE]]
    /\ server = [s \in StoredSwaps |-> CreatedStatus(kindOf[s])]
    /\ coin = [s \in StoredSwaps |-> "locked"]
    /\ troubles = 0

Goes(r, stage) == runner' = [runner EXCEPT ![r].stage = stage]

-----------------------------------------------------------------------------
(* Rounds over the queue.                                                   *)

\* setup: the config is persisted before the queue is seeded.
AppOpens ==
    /\ ~open
    /\ open' = TRUE
    /\ Goes(App, "config")
    /\ UNCHANGED <<queue, swaps, troubles>>

PersistConfig ==
    /\ At(App, "config")
    /\ config' = TRUE
    /\ Goes(App, "seed")
    /\ UNCHANGED <<inbox, open, swaps, troubles>>

\* runForegroundPoll: ExpoArkadeSwaps' only acknowledges results and seeds.
ForegroundPoll ==
    /\ open /\ config /\ At(App, "idle")
    /\ Goes(App, IF AppRunsTasks THEN "tasks" ELSE "seed")
    /\ UNCHANGED <<queue, open, swaps, troubles>>

\* The task of defineExpoBackgroundTask does nothing without a config.
HasWork == config

Wake ==
    /\ At(Background, "idle") /\ HasWork
    /\ Goes(Background, "tasks")
    /\ UNCHANGED <<queue, open, swaps, troubles>>

\* runTasks.
GetTasks(r) ==
    /\ At(r, "tasks")
    /\ runner' = [runner EXCEPT ![r].stage = "loop", ![r].todo = inbox]
    /\ UNCHANGED <<queue, open, swaps, troubles>>

EndTasks(r) ==
    /\ At(r, "loop") /\ runner[r].todo = {}
    /\ Goes(r, "seed")
    /\ UNCHANGED <<queue, open, swaps, troubles>>

\* The next task: its processor loads the stored swaps.  Chain swaps are not
\* polled, nor are those with a final status.
Pollable(s) == ~IsChain(kindOf[s]) /\ stored[s].status \notin FinalStatus(kindOf[s])
Execute(r) ==
    /\ At(r, "loop")
    /\ \E t \in runner[r].todo :
         runner' = [runner EXCEPT ![r].stage = "poll", ![r].task = t, ![r].loaded = stored,
                                  ![r].polls = {s \in StoredSwaps : Pollable(s)}]
    /\ UNCHANGED <<queue, open, swaps, troubles>>

\* removeTask, addTask: the list is read before it is written.
ReadInbox(r) ==
    /\ \/ At(r, "remove") /\ runner' = [runner EXCEPT ![r].stage = "removeW", ![r].list = inbox]
       \/ At(r, "add") /\ runner' = [runner EXCEPT ![r].stage = "addW", ![r].list = inbox]
    /\ UNCHANGED <<queue, open, swaps, troubles>>

RemoveTask(r) ==
    /\ At(r, "removeW")
    /\ inbox' = runner[r].list \ {runner[r].task}
    /\ runner' = [runner EXCEPT ![r].stage = "loop", ![r].list = {}, ![r].task = NoTask,
                                ![r].todo = @ \ {runner[r].task}]
    /\ UNCHANGED <<config, open, swaps, troubles>>

\* seedSwapPollTask, seedContractPollTask.
NeedsSeed == inbox = {}

Seed(r) ==
    /\ At(r, "seed")
    /\ Goes(r, IF NeedsSeed THEN "add" ELSE "idle")
    /\ UNCHANGED <<queue, open, swaps, troubles>>

FreshTasks == Tasks \ (inbox \cup UNION {runner[r].todo \cup runner[r].list : r \in Runners})

AddTask(r) ==
    /\ At(r, "addW")
    /\ FreshTasks # {}
    /\ inbox' = runner[r].list \cup {CHOOSE t \in FreshTasks : TRUE}
    /\ runner' = [runner EXCEPT ![r] = Idle]
    /\ UNCHANGED <<config, open, swaps, troubles>>

\* The OS ends the round; the user ends the app.
Ends(r) ==
    /\ troubles < MostTroubles
    /\ IF r = App THEN open /\ open' = FALSE
       ELSE ~At(r, "idle") /\ UNCHANGED open
    /\ runner' = [runner EXCEPT ![r] = Idle]
    /\ troubles' = troubles + 1
    /\ UNCHANGED <<queue, swaps>>

-----------------------------------------------------------------------------
(* The round over the swaps: swapsPollProcessor.                            *)

\* pushResult: nothing reads the results but the acknowledgement of all.
EndPolls(r) ==
    /\ At(r, "poll") /\ runner[r].polls = {}
    /\ runner' = [runner EXCEPT ![r].stage = "remove", ![r].loaded = Idle.loaded]
    /\ UNCHANGED <<queue, open, swaps, troubles>>

\* getSwapStatus is answered, or throws: the swap is left for another wake.
PollSwap(r) ==
    /\ At(r, "poll")
    /\ \E s \in runner[r].polls :
         /\ runner' = [runner EXCEPT ![r].stage = "save", ![r].polls = @ \ {s},
                                     ![r].swap = s, ![r].status = server[s]]
    /\ UNCHANGED <<queue, open, swaps, troubles>>

PollFails(r) ==
    /\ At(r, "poll") /\ troubles < MostTroubles
    /\ \E s \in runner[r].polls : runner' = [runner EXCEPT ![r].polls = @ \ {s}]
    /\ troubles' = troubles + 1
    /\ UNCHANGED <<queue, open, swaps>>

\* The swap as loaded, with the status of the answer.
WithAnswer(r) == [runner[r].loaded[runner[r].swap] EXCEPT !.status = runner[r].status]

\* Fault: a final status is not saved.
SavesUnlessFinal(r) == runner[r].status \notin FinalStatus(kindOf[runner[r].swap])

ShouldSave(r) == runner[r].status # runner[r].loaded[runner[r].swap].status

SaveStatus(r) ==
    /\ At(r, "save")
    /\ stored' = IF ShouldSave(r) THEN [stored EXCEPT ![runner[r].swap] = WithAnswer(r)] ELSE stored
    /\ Goes(r, "act")
    /\ UNCHANGED <<queue, open, server, coin, kindOf, troubles>>

\* Fault: only a status that is new is acted on.
ActsOnChange(r) ==
    LET kind == kindOf[runner[r].swap] IN
    /\ runner[r].status \in ClaimableStatus(kind) \cup RefundableStatus(kind)
    /\ runner[r].status # runner[r].loaded[runner[r].swap].status

\* isReverseClaimableStatus, isSubmarineSwapRefundable.
ShouldAct(r) ==
    LET s == runner[r].swap IN
    \/ runner[r].status \in ClaimableStatus(kindOf[s])
    \/ runner[r].status \in RefundableStatus(kindOf[s]) /\ ~runner[r].loaded[s].refunded

Acted(r) == runner' = [runner EXCEPT ![r].stage = "poll", ![r].swap = NoSwap,
                                     ![r].status = "swap.created"]

NothingToDo(r) ==
    /\ At(r, "act") /\ ~ShouldAct(r)
    /\ Acted(r)
    /\ UNCHANGED <<queue, open, swaps, troubles>>

\* claimVHTLC stores the status Boltz reports after it, or its own if the coins
\* had to be claimed in a batch; refundVHTLC stores that it refunded.
ClaimOrRefund(r) ==
    LET s == runner[r].swap IN
    /\ At(r, "act") /\ ShouldAct(r)
    /\ coin[s] = "locked"
    /\ coin' = [coin EXCEPT ![s] = "spent"]
    /\ IF kindOf[s] = "reverse"
       THEN \E st \in {server[s], "transaction.claimed"} :
              stored' = [stored EXCEPT ![s] = [WithAnswer(r) EXCEPT !.status = st]]
       ELSE stored' = [stored EXCEPT ![s] = [WithAnswer(r) EXCEPT !.refunded = TRUE]]
    /\ Acted(r)
    /\ UNCHANGED <<queue, open, server, kindOf, troubles>>

\* Fault: a swap counts as refunded although coins of it had to be skipped.
MarkedAllTheSame(r) == [WithAnswer(r) EXCEPT !.refunded = TRUE]

NotFullyRefunded(r) == [WithAnswer(r) EXCEPT !.refunded = FALSE]

\* What cannot be refunded before the locktime is skipped, without an error.
RefundSkipped(r) ==
    LET s == runner[r].swap IN
    /\ At(r, "act") /\ ShouldAct(r)
    /\ coin[s] = "locked" /\ kindOf[s] # "reverse"
    /\ stored' = [stored EXCEPT ![s] = NotFullyRefunded(r)]
    /\ Acted(r)
    /\ UNCHANGED <<queue, open, server, coin, kindOf, troubles>>

\* The coins are spent, or the action fails: its error is only counted.
ActFails(r) ==
    /\ At(r, "act") /\ ShouldAct(r)
    /\ IF coin[runner[r].swap] = "spent" THEN UNCHANGED troubles
       ELSE troubles < MostTroubles /\ troubles' = troubles + 1
    /\ Acted(r)
    /\ UNCHANGED <<queue, open, swaps>>

-----------------------------------------------------------------------------
(* Beside them.                                                             *)

\* Boltz goes on; the lockup of a submarine swap has been paid.
ServerMove(s) ==
    /\ \E st \in ServerNext(kindOf[s], server[s]) :
         /\ NeedsClaim(kindOf[s], st) => coin[s] = "spent"
         /\ TakesLockup(kindOf[s], st) => coin[s] = "locked"
         /\ server' = [server EXCEPT ![s] = st]
         /\ coin' = IF TakesLockup(kindOf[s], st) THEN [coin EXCEPT ![s] = "spent"] ELSE coin
    /\ UNCHANGED <<queue, open, runner, stored, kindOf, troubles>>

\* The SwapManager of the open app stores a status, or claims or refunds.
ManagerSaves(s) ==
    /\ open /\ stored[s].status # server[s]
    /\ stored' = [stored EXCEPT ![s].status = server[s]]
    /\ UNCHANGED <<queue, open, runner, server, coin, kindOf, troubles>>

ManagerActs(s) ==
    /\ open /\ coin[s] = "locked"
    /\ stored[s].status \in ClaimableStatus(kindOf[s]) \cup RefundableStatus(kindOf[s])
    /\ coin' = [coin EXCEPT ![s] = "spent"]
    /\ stored' = [stored EXCEPT ![s].refunded = kindOf[s] # "reverse"]
    /\ UNCHANGED <<queue, open, runner, server, kindOf, troubles>>

Step(r) ==
    \/ GetTasks(r) \/ EndTasks(r) \/ Execute(r)
    \/ ReadInbox(r) \/ RemoveTask(r) \/ Seed(r) \/ AddTask(r)
    \/ EndPolls(r) \/ PollSwap(r) \/ SaveStatus(r)
    \/ NothingToDo(r) \/ ClaimOrRefund(r) \/ RefundSkipped(r) \/ ActFails(r)

TaskNext ==
    \/ AppOpens \/ PersistConfig \/ ForegroundPoll \/ Wake
    \/ \E r \in Runners : Step(r) \/ PollFails(r) \/ Ends(r)
    \/ \E s \in StoredSwaps : ServerMove(s) \/ ManagerSaves(s) \/ ManagerActs(s)

TaskSpec == TaskInit /\ [][TaskNext]_taskVars

\* The app is opened once at least, the OS goes on waking the task, and rounds
\* go on.
TaskFairness ==
    /\ WF_taskVars(~config /\ AppOpens) /\ WF_taskVars(PersistConfig) /\ WF_taskVars(Wake)
    /\ \A r \in Runners : WF_taskVars(Step(r))
TaskFairSpec == TaskSpec /\ TaskFairness

-----------------------------------------------------------------------------
(* Properties.                                                              *)

\* What is done of a swap is right.  What makes a round pass it by, a final status
\* or the mark of a refund, is true of Boltz and of the coins, although records
\* loaded long ago are written back over newer ones (swapsPollProcessor:
\* pendingSwaps, refunded).  Coins have been spent only when it was time, whatever
\* the status that decided was by then: taken by Boltz or refunded after it gave
\* the payment up; claimed when, or after, there was something to claim.
DoneIsRight ==
    \A s \in StoredSwaps :
        /\ stored[s].status \in FinalStatus(kindOf[s]) => server[s] = stored[s].status
        /\ stored[s].refunded => coin[s] = "spent"
        /\ coin[s] = "spent" =>
             /\ kindOf[s] = "submarine" => server[s] \in SubmarineRefundable \cup {"transaction.claimed"}
             /\ kindOf[s] = "reverse" => server[s] \in ReverseClaimable \cup
                                                      {"invoice.settled", "transaction.refunded"}

\* "Persist status changes immediately" (swapsPollProcessor.ts): what is stored
\* of a swap reaches what Boltz last reported and stays there, although the app
\* and the background round overwrite each other's records.
StoredCatchesUp == \A s \in StoredSwaps : <>[](stored[s].status = server[s])

\* The coins of a claimable swap are claimed in the end, although claims fail.
ClaimsFollow ==
    \A s \in StoredSwaps :
        kindOf[s] = "reverse" =>
            (server[s] \in ReverseClaimable
                 ~> coin[s] = "spent" \/ server[s] \notin ReverseClaimable)
=============================================================================
