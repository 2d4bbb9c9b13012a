---------------------------- MODULE WorkerWallet ----------------------------
(***************************************************************************)
(* The wallet behind a service worker (packages/ts-sdk): the pages' proxies *)
(* (wallet/serviceWorker/wallet.ts), the MessageBus of the worker           *)
(* (worker/messageBus.ts) and the life cycle of the wallet's handler        *)
(* (wallet/serviceWorker/wallet-message-handler.ts).                        *)
(*                                                                          *)
(* A page pings the worker, initialises it again when it does not answer,   *)
(* posts its request and repeats it, after another initialisation, when a   *)
(* worker that was restarted says that it is not initialised.  The worker   *)
(* handles the messages of all pages at once: each await is a job's stage.  *)
(*                                                                          *)
(* An answer and its receipt are one step.  A message whose sender no       *)
(* longer listens (request ids do not match) belongs to Nobody.             *)
(***************************************************************************)
EXTENDS Naturals, Sequences

CONSTANTS
    Pages,
    Calls,              \* calls of the wallet's methods that can run at once
    PageOf,             \* the page each call is made on
    Jobs,               \* messages the worker can handle at once
    Wallets,            \* wallet objects that can be alive at once
    NoWallet, Nobody, Setup, Ping,
    Requests,           \* "read": answered from the wallet; "clear"
    MaxKills, MaxFeeds, MaxInbox,    \* bounds
    Events              \* which of the events below occur

\* slow: the worker takes more than 30 seconds for a request.
\* interrupt: timers fire although an answer is on its way, an initialisation
\* takes too long, the worker is killed, or a page closed, while it is being
\* initialised or used, clear() is called beside other calls.
Event == {"kill", "close", "fail", "slow", "interrupt"}

MaxRetries == 2

ASSUME WorkerAssumption ==
    /\ Pages # {} /\ PageOf \in [Calls -> Pages]
    /\ NoWallet \notin Wallets
    /\ {Nobody, Setup, Ping} \cap Calls = {}
    /\ Setup # Nobody /\ Ping # Nobody /\ Setup # Ping
    /\ "read" \in Requests /\ Requests \subseteq {"read", "clear"}
    /\ {MaxKills, MaxFeeds, MaxInbox} \subseteq Nat
    /\ Events \subseteq Event

VARIABLES
    page,           \* the proxy object of each page
    call,           \* the calls under way
    initialized,    \* MessageBus.initialized
    handler,        \* the fields of WalletMessageHandler
    live,           \* wallets whose background tasks run: not disposed
    feeds,          \* subscriptions to incoming funds that are alive
    tick,           \* tickTimeout, tickInProgress
    job,            \* the messages being handled
    kills           \* how often the worker was killed

worker == <<initialized, handler, live, feeds, tick, job>>
vars == <<page, call, worker, kills>>

Waiter == Calls \cup {Nobody, Setup, Ping}
Message == [kind : {"PING", "INITIALIZE_MESSAGE_BUS", "INIT_WALLET"} \cup Requests,
            for : Waiter]

\* open: create() has not been called, is under way, or has set initConfig.
\* setup: the answer that create() or reinitPromise waits for.
\* pinging: pingPromise.
NewPage == [open |-> "no", setup |-> "none", pinging |-> FALSE, inbox |-> <<>>]

Outcome == {"none", "ok", "failed", "timeout", "notInitialized", "noWallet"}
IdleCall == [stage |-> "idle", request |-> "read", attempt |-> 0, runs |-> 0,
             outcome |-> "none"]

NewHandler == [wallet |-> NoWallet, indexer |-> FALSE, funds |-> "none",
               contracts |-> NoWallet]

IdleJob == [stage |-> "idle", page |-> CHOOSE p \in Pages : TRUE, for |-> Nobody,
            wallet |-> NoWallet]
Stage == {"idle", "stopping", "building", "contracts", "refreshing", "subscribing",
          "running", "clearing"}

TypeOK ==
    /\ \A p \in Pages :
         /\ page[p].open \in {"no", "creating", "yes"}
         /\ page[p].setup \in {"none", "bus", "wallet"}
         /\ page[p].pinging \in BOOLEAN
         /\ page[p].inbox \in Seq(Message) /\ Len(page[p].inbox) <= MaxInbox + 1
    /\ call \in [Calls -> [stage : {"idle", "ping", "reinit", "post", "sent"},
                           request : Requests, attempt : 0 .. MaxRetries,
                           runs : Nat, outcome : Outcome]]
    /\ initialized \in BOOLEAN
    /\ handler \in [wallet : Wallets \cup {NoWallet}, indexer : BOOLEAN,
                    funds : {"none", "live", "dead"}, contracts : Wallets \cup {NoWallet}]
    /\ live \subseteq Wallets
    /\ feeds \in 0 .. MaxFeeds
    /\ tick \in {"none", "armed", "running"}
    /\ job \in [Jobs -> [stage : Stage, page : Pages, for : Waiter,
                         wallet : Wallets \cup {NoWallet}]]
    /\ kills \in 0 .. MaxKills

Init ==
    /\ page = [p \in Pages |-> NewPage]
    /\ call = [c \in Calls |-> IdleCall]
    /\ initialized = FALSE
    /\ handler = NewHandler
    /\ live = {} /\ feeds = 0
    /\ tick = "none"
    /\ job = [j \in Jobs |-> IdleJob]
    /\ kills = 0

-----------------------------------------------------------------------------
(* The page.  Its operators map a page, or the calls, to what they become.   *)

Posted(pg, kind, w) == [pg EXCEPT !.inbox = Append(@, [kind |-> kind, for |-> w])]
HasRoom(p) == Len(page[p].inbox) < MaxInbox

\* reinitialize: an initialisation under way is joined.
Reinitialized(pg) ==
    IF pg.setup # "none" THEN pg
    ELSE Posted([pg EXCEPT !.setup = "bus"], "INITIALIZE_MESSAGE_BUS", Setup)

\* The calls of p at a stage go on at another, or end.
MovedOn(p, from, to) ==
    [c \in Calls |-> IF PageOf[c] = p /\ call[c].stage = from
                     THEN [call[c] EXCEPT !.stage = to] ELSE call[c]]
Ended(p, from, outcome) ==
    [c \in Calls |-> IF PageOf[c] = p /\ call[c].stage = from
                     THEN [IdleCall EXCEPT !.outcome = outcome] ELSE call[c]]

\* Fault: any error is retried.
RetriesAnyError(c, outcome) == outcome # "ok" /\ call[c].attempt < MaxRetries
\* The catch of sendMessageWithRetry.
Retries(c, outcome) == outcome = "notInitialized" /\ call[c].attempt < MaxRetries

\* A call is answered: it ends, or the page initialises the worker again.
CallAnswered(p, pg, c, outcome) ==
    IF Retries(c, outcome)
    THEN /\ call' = [call EXCEPT ![c].stage = "reinit", ![c].attempt = @ + 1]
         /\ page' = [page EXCEPT ![p] = Reinitialized(pg)]
    ELSE /\ call' = [call EXCEPT ![c] = [IdleCall EXCEPT !.outcome = outcome]]
         /\ page' = [page EXCEPT ![p] = pg]

\* create() or reinitialize() is answered.  The calls that wait for it repeat
\* their request, or fail as it does.
SetupAnswered(p, pg, outcome) ==
    \/ /\ outcome = "ok" /\ pg.setup = "bus"
       /\ page' = [page EXCEPT
              ![p] = Posted([pg EXCEPT !.setup = "wallet"], "INIT_WALLET", Setup)]
       /\ UNCHANGED call
    \/ /\ outcome = "ok" /\ pg.setup = "wallet"
       /\ page' = [page EXCEPT ![p] = [pg EXCEPT !.setup = "none", !.open = "yes"]]
       /\ call' = MovedOn(p, "reinit", "post")
    \/ /\ outcome # "ok"
       /\ page' = [page EXCEPT ![p] = [pg EXCEPT !.setup = "none",
                       !.open = IF @ = "creating" THEN "no" ELSE @]]
       /\ call' = Ended(p, "reinit", outcome)

\* The worker answers the waiter w of page p, whose inbox is that of pg.
Answer(p, pg, w, outcome) ==
    \/ w = Setup /\ SetupAnswered(p, pg, outcome)
    \/ w \in Calls /\ CallAnswered(p, pg, w, outcome)
    \/ w = Nobody /\ page' = [page EXCEPT ![p] = pg] /\ UNCHANGED call

\* The page stops listening for an answer; what was posted stays posted.
Disowned(inbox, w) ==
    [i \in DOMAIN inbox |-> IF inbox[i].for = w THEN [inbox[i] EXCEPT !.for = Nobody]
                            ELSE inbox[i]]
DisownJobs(p, w) ==
    job' = [j \in Jobs |-> IF job[j].page = p /\ job[j].for = w
                           THEN [job[j] EXCEPT !.for = Nobody] ELSE job[j]]

\* No answer will come: neither message nor job is left.
Lost(p, w) ==
    /\ \A i \in DOMAIN page[p].inbox : page[p].inbox[i].for # w
    /\ \A j \in Jobs : job[j].stage # "idle" /\ job[j].page = p => job[j].for # w

TimerFires(p, w) == "interrupt" \in Events \/ Lost(p, w)
-----------------------------------------------------------------------------
(* What pages do. *)

\* Nothing of the page's is under way.
Quiet(p) ==
    /\ page[p].setup = "none" /\ page[p].inbox = <<>>
    /\ \A c \in Calls : PageOf[c] = p => call[c].stage = "idle"
    /\ \A j \in Jobs : job[j].page = p => job[j].stage = "idle"

\* create(): initializeMessageBus, then INIT_WALLET.
Create(p) ==
    /\ page[p].open = "no" /\ HasRoom(p)
    /\ page' = [page EXCEPT ![p] = Reinitialized([@ EXCEPT !.open = "creating"])]
    /\ UNCHANGED <<call, worker, kills>>

\* clear() is called alone.
Clearing(p) ==
    \E c \in Calls : /\ PageOf[c] = p /\ call[c].stage # "idle"
                     /\ call[c].request = "clear"
MayBegin(p, request) ==
    \/ "interrupt" \in Events
    \/ ~Clearing(p) /\ (request = "clear" => Quiet(p))

\* A method of the wallet: the ping of another call is shared.
Begin(c, request) ==
    LET p == PageOf[c] IN
    /\ MayBegin(p, request)
    /\ page[p].open = "yes" /\ HasRoom(p)
    /\ call[c].stage = "idle"
    /\ call' = [call EXCEPT ![c] = [IdleCall EXCEPT !.stage = "ping", !.request = request]]
    /\ page' = IF page[p].pinging THEN page
               ELSE [page EXCEPT ![p] = Posted([@ EXCEPT !.pinging = TRUE], "PING", Ping)]
    /\ UNCHANGED <<worker, kills>>

\* sendMessageDirect, sendMessageStreaming.
Post(c) ==
    LET p == PageOf[c] IN
    /\ call[c].stage = "post" /\ HasRoom(p)
    /\ call' = [call EXCEPT ![c].stage = "sent"]
    /\ page' = [page EXCEPT ![p] = Posted(@, call[c].request, c)]
    /\ UNCHANGED <<worker, kills>>

\* The page waits for its ping no more.
Unanswered(p) == [page[p] EXCEPT !.pinging = FALSE, !.inbox = Disowned(@, Ping)]

\* Fault: the calls that share the ping are not told.
PingTimesOutAlone(p) ==
    /\ page[p].pinging /\ TimerFires(p, Ping) /\ HasRoom(p)
    /\ page' = [page EXCEPT ![p] = Reinitialized(Unanswered(p))]
    /\ UNCHANGED <<call, worker, kills>>

\* No PONG within two seconds.
PingTimesOut(p) ==
    /\ page[p].pinging /\ TimerFires(p, Ping) /\ HasRoom(p)
    /\ page' = [page EXCEPT ![p] = Reinitialized(Unanswered(p))]
    /\ call' = MovedOn(p, "ping", "reinit")
    /\ UNCHANGED <<worker, kills>>

\* initializeMessageBus, or the INIT_WALLET after it, takes too long.
SetupTimesOut(p) ==
    /\ page[p].setup # "none" /\ TimerFires(p, Setup)
    /\ SetupAnswered(p, [page[p] EXCEPT !.inbox = Disowned(@, Setup)], "timeout")
    /\ DisownJobs(p, Setup)
    /\ UNCHANGED <<initialized, handler, live, feeds, tick, kills>>

\* The timeout of a request is an error like another to sendMessageWithRetry.
CallTimesOut(c) ==
    LET p == PageOf[c] IN
    /\ call[c].stage = "sent" /\ TimerFires(p, c)
    /\ CallAnswered(p, [page[p] EXCEPT !.inbox = Disowned(@, c)], c, "timeout")
    /\ DisownJobs(p, c)
    /\ UNCHANGED <<initialized, handler, live, feeds, tick, kills>>

\* The page is closed or reloaded; the worker goes on with what it was asked.
Close(p) ==
    /\ "close" \in Events
    /\ page[p].open # "no"
    /\ "interrupt" \in Events \/ Quiet(p)
    /\ page' = [page EXCEPT ![p] = [NewPage EXCEPT !.inbox =
          [i \in DOMAIN page[p].inbox |-> [page[p].inbox[i] EXCEPT !.for = Nobody]]]]
    /\ call' = [c \in Calls |-> IF PageOf[c] = p THEN IdleCall ELSE call[c]]
    /\ job' = [j \in Jobs |-> IF job[j].page = p THEN [job[j] EXCEPT !.for = Nobody]
                              ELSE job[j]]
    /\ UNCHANGED <<initialized, handler, live, feeds, tick, kills>>

-----------------------------------------------------------------------------
(* The worker: a message is taken from a page's inbox. *)

Took(p, kind) == page[p].inbox # <<>> /\ Head(page[p].inbox).kind = kind
Rest(p) == [page[p] EXCEPT !.inbox = Tail(@)]
Sender(p) == Head(page[p].inbox).for

JobFor(p, stage) == [stage |-> stage, page |-> p, for |-> Sender(p),
                     wallet |-> IF stage = "contracts" THEN handler.wallet ELSE NoWallet]
FreeJob(j) == job[j].stage = "idle"
Freed(j) == job' = [job EXCEPT ![j] = IdleJob]

\* The handler drops its subscription to incoming funds.
FeedDropped == feeds' = IF handler.funds = "live" THEN feeds - 1 ELSE feeds

TakePing(p) ==
    /\ Took(p, "PING")
    /\ IF Sender(p) = Ping
       THEN /\ page' = [page EXCEPT ![p] = [Rest(p) EXCEPT !.pinging = FALSE]]
            /\ call' = MovedOn(p, "ping", "post")
       ELSE page' = [page EXCEPT ![p] = Rest(p)] /\ UNCHANGED call
    /\ UNCHANGED <<worker, kills>>

\* Fault: the wallet is not disposed.
StopHandlersUndisposed(j, p) ==
    /\ initialized' = FALSE
    /\ FeedDropped
    /\ UNCHANGED live
    /\ handler' = [handler EXCEPT !.funds = "none", !.contracts = NoWallet,
                       !.indexer = IF handler.wallet = NoWallet THEN FALSE ELSE @]
    /\ job' = [job EXCEPT ![j] =
                   JobFor(p, IF handler.wallet = NoWallet THEN "building" ELSE "stopping")]

\* waitForInit of an initialised bus: the flag is cleared, stop() unsubscribes
\* and awaits the disposal of the wallet, if there is one.
StopHandlers(j, p) ==
    /\ initialized' = FALSE
    /\ FeedDropped
    /\ live' = live \ {handler.wallet}
    /\ handler' = [handler EXCEPT !.funds = "none", !.contracts = NoWallet,
                       !.indexer = IF handler.wallet = NoWallet THEN FALSE ELSE @]
    /\ job' = [job EXCEPT ![j] =
                   JobFor(p, IF handler.wallet = NoWallet THEN "building" ELSE "stopping")]

TakeInit(j, p) ==
    /\ FreeJob(j) /\ Took(p, "INITIALIZE_MESSAGE_BUS")
    /\ IF initialized THEN StopHandlers(j, p)
       ELSE /\ job' = [job EXCEPT ![j] = JobFor(p, "building")]
            /\ UNCHANGED <<initialized, handler, live, feeds>>
    /\ page' = [page EXCEPT ![p] = Rest(p)]
    /\ UNCHANGED <<call, tick, kills>>

\* The rest of stop(): whatever wallet the handler has by now is forgotten.
HandlersStopped(j) ==
    /\ job[j].stage = "stopping"
    /\ handler' = [handler EXCEPT !.wallet = NoWallet, !.indexer = FALSE]
    /\ job' = [job EXCEPT ![j].stage = "building"]
    /\ UNCHANGED <<page, call, initialized, live, feeds, tick, kills>>

Unused(w) ==
    /\ w \notin live \cup {handler.wallet, handler.contracts}
    /\ \A j \in Jobs : job[j].wallet # w

\* buildServices has made a wallet, with its VtxoManager; the handler starts
\* with it, the tick is scheduled, the bus is initialised.
ServicesBuilt(j) ==
    /\ job[j].stage = "building"
    /\ \E w \in Wallets :
         /\ Unused(w)
         /\ live' = live \cup {w}
         /\ handler' = [handler EXCEPT !.wallet = w]
    /\ initialized' = TRUE
    /\ tick' = IF tick = "none" THEN "armed" ELSE tick
    /\ Freed(j)
    /\ Answer(job[j].page, page[job[j].page], job[j].for, "ok")
    /\ UNCHANGED <<feeds, kills>>

\* buildServices rejects: processMessage rejects too, and nobody is answered.
BuildFails(j) ==
    /\ "fail" \in Events
    /\ job[j].stage = "building"
    /\ Freed(j)
    /\ UNCHANGED <<page, call, initialized, handler, live, feeds, tick, kills>>

-----------------------------------------------------------------------------
(* INIT_WALLET and the requests. *)

Rejected(p, outcome) ==
    /\ Answer(p, Rest(p), Sender(p), outcome)
    /\ UNCHANGED <<worker, kills>>

\* handleInitWallet: without a wallet there is nothing to do.  A subscription
\* to contract events is kept, otherwise the contract manager is awaited.
TakeInitWallet(j, p) ==
    /\ FreeJob(j) /\ Took(p, "INIT_WALLET")
    /\ \/ ~initialized /\ Rejected(p, "notInitialized")
       \/ /\ initialized /\ handler.wallet = NoWallet
          /\ handler' = [handler EXCEPT !.indexer = TRUE]
          /\ Answer(p, Rest(p), Sender(p), "ok")
          /\ UNCHANGED <<initialized, live, feeds, tick, job, kills>>
       \/ /\ initialized /\ handler.wallet # NoWallet
          /\ handler' = [handler EXCEPT !.indexer = TRUE]
          /\ job' = [job EXCEPT ![j] =
                 JobFor(p, IF handler.contracts # NoWallet THEN "refreshing" ELSE "contracts")]
          /\ page' = [page EXCEPT ![p] = Rest(p)]
          /\ UNCHANGED <<call, initialized, live, feeds, tick, kills>>

\* ensureContractEventBroadcasting: the manager is that of the wallet the
\* handler had when it was asked for.  An error is only logged.
ContractsReady(j) ==
    /\ job[j].stage = "contracts"
    /\ \/ handler' = [handler EXCEPT !.contracts = job[j].wallet]
       \/ "fail" \in Events /\ UNCHANGED handler
    /\ job' = [job EXCEPT ![j].stage = "refreshing", ![j].wallet = NoWallet]
    /\ UNCHANGED <<page, call, initialized, live, feeds, tick, kills>>

\* refreshCachedData and finalizePendingTxs are over.  The previous feed is
\* dropped, its function stays; without a wallet getAddress throws.
Refreshed(j) ==
    /\ job[j].stage = "refreshing"
    /\ FeedDropped
    /\ handler' = [handler EXCEPT !.funds = IF @ = "live" THEN "dead" ELSE @]
    /\ IF handler.wallet = NoWallet
       THEN /\ Freed(j)
            /\ Answer(job[j].page, page[job[j].page], job[j].for, "failed")
       ELSE /\ job' = [job EXCEPT ![j].stage = "subscribing"]
            /\ UNCHANGED <<page, call>>
    /\ UNCHANGED <<initialized, live, tick, kills>>

\* notifyIncomingFunds has subscribed; the wallet's VtxoManager runs already.
Subscribed(j) ==
    /\ job[j].stage = "subscribing" /\ feeds < MaxFeeds
    /\ feeds' = feeds + 1
    /\ handler' = [handler EXCEPT !.funds = "live"]
    /\ Freed(j)
    /\ Answer(job[j].page, page[job[j].page], job[j].for, "ok")
    /\ UNCHANGED <<initialized, live, tick, kills>>

\* A request is refused, or routed to the handler, where it runs: counted for
\* the call that sent it.
TakeRequest(j, p, request) ==
    LET c == Sender(p)
        counted == IF c \in Calls THEN [call EXCEPT ![c].runs = @ + 1] ELSE call IN
    /\ FreeJob(j) /\ Took(p, request)
    /\ \/ ~initialized /\ Rejected(p, "notInitialized")
       \/ initialized /\ handler.wallet = NoWallet /\ Rejected(p, "noWallet")
       \/ /\ initialized /\ handler.wallet # NoWallet
          /\ page' = [page EXCEPT ![p] = Rest(p)]
          /\ call' = counted
          /\ IF request = "clear"
             THEN /\ FeedDropped
                  /\ handler' = [handler EXCEPT !.funds = IF @ = "live" THEN "dead" ELSE @,
                                                !.contracts = NoWallet]
                  /\ live' = live \ {handler.wallet}
                  /\ job' = [job EXCEPT ![j] = JobFor(p, "clearing")]
             ELSE /\ job' = [job EXCEPT ![j] = JobFor(p, "running")]
                  /\ UNCHANGED <<handler, live, feeds>>
          /\ UNCHANGED <<initialized, tick, kills>>

RequestDone(j) ==
    /\ job[j].stage = "running"
    /\ Freed(j)
    /\ Answer(job[j].page, page[job[j].page], job[j].for, "ok")
    /\ UNCHANGED <<initialized, handler, live, feeds, tick, kills>>

\* clear(): the repository is empty and the handler forgets its wallet; the
\* bus still counts as initialised.
Cleared(j) ==
    /\ job[j].stage = "clearing"
    /\ handler' = [handler EXCEPT !.wallet = NoWallet, !.indexer = FALSE]
    /\ Freed(j)
    /\ Answer(job[j].page, page[job[j].page], job[j].for, "ok")
    /\ UNCHANGED <<initialized, live, feeds, tick, kills>>

\* An error of the handler's work is its answer.
HandlingFails(j) ==
    /\ "fail" \in Events
    /\ job[j].stage \in {"refreshing", "subscribing", "running"}
    /\ Freed(j)
    /\ Answer(job[j].page, page[job[j].page], job[j].for, "failed")
    /\ UNCHANGED <<initialized, handler, live, feeds, tick, kills>>

\* withTimeout: the error is the answer, the work goes on.
HandlingTimesOut(j) ==
    /\ job[j].stage \notin {"idle", "stopping", "building"} /\ job[j].for # Nobody
    /\ \/ "slow" \in Events /\ job[j].stage \in {"running", "clearing"}
       \/ "interrupt" \in Events
    /\ job' = [job EXCEPT ![j].for = Nobody]
    /\ Answer(job[j].page, page[job[j].page], job[j].for, "timeout")
    /\ UNCHANGED <<initialized, handler, live, feeds, tick, kills>>

-----------------------------------------------------------------------------
(* The scheduler, and the end of the worker. *)

TickStarts ==
    /\ tick = "armed"
    /\ tick' = "running"
    /\ UNCHANGED <<page, call, initialized, handler, live, feeds, job, kills>>

\* However the handlers' ticks end, the next one is scheduled.
TickEnds ==
    /\ tick = "running"
    /\ tick' = "armed"
    /\ UNCHANGED <<page, call, initialized, handler, live, feeds, job, kills>>

\* The system kills the worker; the next message starts a new one.  What was
\* posted and not yet taken may be lost with it.
Kill ==
    /\ "kill" \in Events /\ kills < MaxKills
    /\ "interrupt" \in Events \/ \A p \in Pages : page[p].setup = "none"
    /\ kills' = kills + 1
    /\ initialized' = FALSE
    /\ handler' = NewHandler
    /\ live' = {} /\ feeds' = 0 /\ tick' = "none"
    /\ job' = [j \in Jobs |-> IdleJob]
    /\ \/ UNCHANGED page
       \/ page' = [p \in Pages |-> [page[p] EXCEPT !.inbox = <<>>]]
    /\ UNCHANGED call

-----------------------------------------------------------------------------
PageStep(p) == Create(p) \/ PingTimesOut(p) \/ SetupTimesOut(p) \/ Close(p)

CallStep(c) ==
    Post(c) \/ CallTimesOut(c) \/ \E r \in Requests : Begin(c, r)

Take(j, p) ==
    \/ TakeInit(j, p) \/ TakeInitWallet(j, p)
    \/ \E r \in Requests : TakeRequest(j, p, r)

Work(j) ==
    \/ HandlersStopped(j) \/ ServicesBuilt(j) \/ ContractsReady(j) \/ Refreshed(j)
    \/ Subscribed(j) \/ RequestDone(j) \/ Cleared(j)

Trouble(j) == BuildFails(j) \/ HandlingFails(j) \/ HandlingTimesOut(j)

Next ==
    \/ \E p \in Pages : PageStep(p) \/ TakePing(p)
    \/ \E c \in Calls : CallStep(c)
    \/ \E j \in Jobs : Work(j) \/ Trouble(j)
    \/ \E j \in Jobs, p \in Pages : Take(j, p)
    \/ TickStarts \/ TickEnds
    \/ Kill

Spec == Init /\ [][Next]_vars

\* Messages are taken, awaits end, timers fire.  Strong where a bound on jobs,
\* wallets or messages may hold a step up.  The user and the system owe nothing.
Fairness ==
    /\ \A p \in Pages :
         /\ WF_vars(TakePing(p)) /\ SF_vars(\E j \in Jobs : Take(j, p))
         /\ SF_vars(PingTimesOut(p)) /\ WF_vars(SetupTimesOut(p))
    /\ \A c \in Calls : SF_vars(Post(c)) /\ WF_vars(CallTimesOut(c))
    /\ \A j \in Jobs : SF_vars(Work(j))
    /\ WF_vars(TickStarts) /\ WF_vars(TickEnds)

FairSpec == Spec /\ Fairness

-----------------------------------------------------------------------------
(* Properties of any use. *)

\* A request is repeated only after it was refused: no retry, timeout or
\* restart makes the wallet send or settle twice for one call.
HandledOnce == \A c \in Calls : call[c].runs <= 1

\* Every call ends, whoever was killed, closed, or failed meanwhile.
CallsEnd == \A c \in Calls : (call[c].stage # "idle") ~> (call[c].stage = "idle")

-----------------------------------------------------------------------------
(* A property of one page whose initialisations are not interrupted. *)

\* However often the worker is initialised, and whatever fails meanwhile: a
\* wallet that was replaced is disposed of, else two of them would renew and
\* settle; funds are reported once, by the feed the handler will drop, and
\* contract events by the wallet that answers requests.  waitForInit: "Stop
\* existing handlers before re-initializing."
OneWalletReports ==
    /\ live \subseteq {handler.wallet}
    /\ feeds = IF handler.funds = "live" THEN 1 ELSE 0
    /\ handler.wallet \in live => handler.contracts \in {handler.wallet, NoWallet}
=============================================================================
