----------------------------- MODULE SwapWorker -----------------------------
(***************************************************************************)
(* Swaps behind a service worker (packages/boltz-swap, serviceWorker/): the *)
(* pages' ServiceWorkerArkadeSwaps (arkade-swaps-runtime.ts) and the        *)
(* worker's ArkadeSwapsMessageHandler (arkade-swaps-message-handler.ts),    *)
(* which is one of the handlers of the MessageBus of packages/ts-sdk.       *)
(*                                                                          *)
(* The bus is initialised by the wallet's page, not by this one: WorkerWallet*)
(* models that side.  Here it is down, being initialised or ready.  Each    *)
(* INIT_ARKADE_SWAPS makes a new ArkadeSwaps, a "service", whose SwapManager *)
(* starts by itself once the stored swaps are loaded.                       *)
(*                                                                          *)
(* Messages of a page are taken in order.  An answer and its receipt are    *)
(* one step; an answer nobody waits for any more is dropped (ids differ).   *)
(***************************************************************************)
EXTENDS Naturals, Sequences

CONSTANTS
    Pages, Calls,
    PageOf,             \* the page each call is made on
    KindsOf,            \* the requests it can be
    Services,           \* ArkadeSwaps objects a worker can hold
    NoService, Nobody, Setup, Ping,
    MaxTroubles,        \* bound on the kills of the worker and the slow answers
    MaxInits            \* bound on initialisations of the bus and slow answers

MaxRetries == 2

\* Requests, by what they do.  "read": those of DEDUPABLE_REQUEST_TYPES, with
\* one payload; "act": the others that are handed to the service, reads with
\* another payload included; "start", "stop": SM-START and SM-STOP.
RequestKind == {"read", "act", "start", "stop"}

ASSUME SwapWorkerAssumption ==
    /\ PageOf \in [Calls -> Pages] /\ KindsOf \in [Calls -> SUBSET RequestKind]
    /\ NoService \notin Services
    /\ {Nobody, Setup, Ping} \cap Calls = {}
    /\ Nobody # Setup /\ Setup # Ping /\ Ping # Nobody
    /\ {MaxTroubles, MaxInits} \subseteq Nat

VARIABLES
    page,       \* the proxy object of each page
    call,       \* the calls of its methods
    ready,      \* MessageBus.initialized
    building,   \* the wallet's page is initialising the bus
    handler,    \* handler, swapManager of the message handler
    service,    \* the ArkadeSwaps objects of this life of the worker
    jobs,       \* requests the worker is handling
    count       \* what the bounds limit

worker == <<ready, building, handler, service, jobs>>
workerVars == <<page, call, worker, count>>

Waiter == Calls \cup {Nobody, Setup, Ping}

\* open: create() has not been called, is under way, or has set initPayload.
\* setup: create() or reinitPromise waits for INIT_ARKADE_SWAPS.
NewPage == [open |-> "no", setup |-> FALSE, pinging |-> FALSE, inbox |-> <<>>]

\* runs: how often the handler was given the call (history).
IdleCall == [stage |-> "idle", kind |-> "act", attempt |-> 0, runs |-> 0]

\* running: SwapManager.isRunning; loading: getAllSwaps of the constructor's
\* start is under way; left: nothing refers to it although nobody stopped it,
\* or it was stopped while a start of it was under way (history).
Unused == [running |-> FALSE, loading |-> FALSE, left |-> FALSE]

\* stage: "load" and "connect" are the awaits of startSwapManager.
Job == [for : Calls \cup {Nobody}, service : Services,
        stage : {"load", "connect", "work"}]

WorkerTypeOK ==
    /\ \A p \in Pages :
         /\ page[p].open \in {"no", "creating", "yes"}
         /\ page[p].setup \in BOOLEAN /\ page[p].pinging \in BOOLEAN
         /\ page[p].inbox \in Seq([kind : RequestKind \cup {"PING", "INIT"}, for : Waiter])
    /\ call \in [Calls -> [stage : {"idle", "ping", "reinit", "post", "sent", "joined"},
                           kind : RequestKind, attempt : 0 .. MaxRetries, runs : Nat]]
    /\ ready \in BOOLEAN /\ building \in BOOLEAN /\ ~(ready /\ building)
    /\ handler \in Services \cup {NoService}
    /\ service \in [Services -> [running : BOOLEAN, loading : BOOLEAN,
                                 left : BOOLEAN]]
    /\ jobs \subseteq Job
    /\ count \in [kills : 0 .. MaxTroubles, inits : 0 .. MaxInits, slow : 0 .. MaxTroubles]

WorkerInit ==
    /\ page = [p \in Pages |-> NewPage]
    /\ call = [c \in Calls |-> IdleCall]
    /\ ready = FALSE /\ building = FALSE
    /\ handler = NoService
    /\ service = [s \in Services |-> Unused]
    /\ jobs = {}
    /\ count = [kills |-> 0, inits |-> 0, slow |-> 0]

-----------------------------------------------------------------------------
(* The page.                                                                *)

Posted(pg, kind, w) == [pg EXCEPT !.inbox = Append(@, [kind |-> kind, for |-> w])]

\* reinitialize: an initialisation under way is shared.
Reinitialized(pg) ==
    IF pg.setup THEN pg ELSE Posted([pg EXCEPT !.setup = TRUE], "INIT", Setup)

\* What the page posted for w is answered to nobody from now on.
Forgotten(pg, w) ==
    [pg EXCEPT !.inbox = [i \in DOMAIN @ |-> IF @[i].for = w
                                             THEN [@[i] EXCEPT !.for = Nobody] ELSE @[i]]]

Waiting(p, stage) == {c \in Calls : PageOf[c] = p /\ call[c].stage = stage}
MovedOn(cs, stage) ==
    [c \in Calls |-> IF c \in cs THEN [call[c] EXCEPT !.stage = stage] ELSE call[c]]

\* The calls of cs end; a read ends with those that share its promise.
Sharing(cs) == {d \in Calls : /\ call[d].stage = "joined"
                              /\ \E c \in cs : PageOf[c] = PageOf[d] /\ call[c].kind = "read"}
Ended(cs) == [c \in Calls |-> IF c \in cs \cup Sharing(cs) THEN IdleCall ELSE call[c]]

\* create: without initPayload there is neither a ping nor another attempt.
Create(p) ==
    /\ page[p].open = "no"
    /\ page' = [page EXCEPT ![p] = Posted([@ EXCEPT !.open = "creating", !.setup = TRUE],
                                          "INIT", Setup)]
    /\ UNCHANGED <<call, worker, count>>

\* The ping of sendMessageWithRetry: a ping under way is shared.
SendWithRetry(c, kind) ==
    /\ call' = [call EXCEPT ![c] = [IdleCall EXCEPT !.stage = "ping", !.kind = kind]]
    /\ page' = [page EXCEPT ![PageOf[c]] =
                  IF @.pinging THEN @ ELSE Posted([@ EXCEPT !.pinging = TRUE], "PING", Ping)]

CanMake(c, kind) == /\ kind \in KindsOf[c]
                    /\ page[PageOf[c]].open = "yes" /\ call[c].stage = "idle"

InFlight(p) == {d \in Calls : /\ PageOf[d] = p /\ call[d].kind = "read"
                              /\ call[d].stage \notin {"idle", "joined"}}

\* sendMessage: a read joins one that is under way on its page.
Read(c) ==
    /\ CanMake(c, "read")
    /\ IF InFlight(PageOf[c]) = {}
       THEN SendWithRetry(c, "read")
       ELSE /\ call' = [call EXCEPT ![c] = [IdleCall EXCEPT !.stage = "joined", !.kind = "read"]]
            /\ page' = page
    /\ UNCHANGED <<worker, count>>

\* Creations, payments, claims, refunds, waits, restoreSwaps, addSwap ...
Act(c) == CanMake(c, "act") /\ SendWithRetry(c, "act") /\ UNCHANGED <<worker, count>>

\* startSwapManager, stopSwapManager (also of dispose) and the manager's proxy.
Control(c, kind) == CanMake(c, kind) /\ SendWithRetry(c, kind) /\ UNCHANGED <<worker, count>>

\* sendMessageDirect.
Post(c) ==
    /\ call[c].stage = "post"
    /\ call' = [call EXCEPT ![c].stage = "sent"]
    /\ page' = [page EXCEPT ![PageOf[c]] = Posted(@, call[c].kind, c)]
    /\ UNCHANGED <<worker, count>>

\* Fault: any error is retried.
RetriesAnyError(c, outcome) == outcome # "ok" /\ call[c].attempt < MaxRetries

\* The catch of sendMessageWithRetry.
Retries(c, outcome) == outcome = "notInitialized" /\ call[c].attempt < MaxRetries

CallAnswered(c, pg, outcome) ==
    LET p == PageOf[c] IN
    IF Retries(c, outcome)
    THEN /\ call' = [call EXCEPT ![c].stage = "reinit", ![c].attempt = @ + 1]
         /\ page' = [page EXCEPT ![p] = Reinitialized(pg)]
    ELSE /\ call' = Ended({c})
         /\ page' = [page EXCEPT ![p] = pg]

\* INIT_ARKADE_SWAPS is answered, to create() or to reinitialize().
SetupAnswered(p, pg, outcome) ==
    /\ page' = [page EXCEPT ![p] =
                  [pg EXCEPT !.setup = FALSE,
                             !.open = IF @ # "creating" THEN @
                                      ELSE IF outcome = "ok" THEN "yes" ELSE "no"]]
    /\ call' = IF outcome = "ok" THEN MovedOn(Waiting(p, "reinit"), "post")
               ELSE Ended(Waiting(p, "reinit"))

PingAnswered(p, pg) ==
    /\ page' = [page EXCEPT ![p] = [pg EXCEPT !.pinging = FALSE]]
    /\ call' = MovedOn(Waiting(p, "ping"), "post")

Answered(p, pg, w, outcome) ==
    CASE w = Setup -> SetupAnswered(p, pg, outcome)
      [] w = Ping -> PingAnswered(p, pg)
      [] w = Nobody -> page' = [page EXCEPT ![p] = pg] /\ call' = call
      [] OTHER -> CallAnswered(w, pg, outcome)

MayBeSlow ==
    count.kills + count.slow < MaxTroubles /\ count.inits + count.slow < MaxInits

\* Two seconds without a pong: the calls that wait initialise the worker again.
PingTimeout(p) ==
    /\ page[p].pinging /\ MayBeSlow
    /\ page' = [page EXCEPT ![p] =
                  Reinitialized(Forgotten([@ EXCEPT !.pinging = FALSE], Ping))]
    /\ call' = MovedOn(Waiting(p, "ping"), "reinit")
    /\ count' = [count EXCEPT !.slow = @ + 1]
    /\ UNCHANGED worker

SetupTimeout(p) ==
    /\ page[p].setup /\ MayBeSlow
    /\ SetupAnswered(p, Forgotten(page[p], Setup), "timeout")
    /\ count' = [count EXCEPT !.slow = @ + 1]
    /\ UNCHANGED worker

\* Thirty seconds without an answer.  The worker goes on with the request, or
\* has yet to take it: this still matters if it is to start the SwapManager.
Underway(c) == {j \in jobs : j.for = c}
Orphans(js) == {[j EXCEPT !.for = Nobody] : j \in {i \in js : i.stage = "load"}}
Untaken(c) == LET inbox == page[PageOf[c]].inbox IN \E i \in DOMAIN inbox : inbox[i].for = c
\* Fault: only a request the worker is known to handle times out.
TimesOutWhileHandled(c) == call[c].stage = "sent" /\ Underway(c) # {}

TimesOut(c) == call[c].stage = "sent"
CallTimeout(c) ==
    /\ TimesOut(c)
    /\ CallAnswered(c, Forgotten(page[PageOf[c]], c), "timeout")
    /\ jobs' = (jobs \ Underway(c)) \cup Orphans(Underway(c))
    /\ IF Untaken(c) THEN MayBeSlow /\ count' = [count EXCEPT !.slow = @ + 1] ELSE count' = count
    /\ UNCHANGED <<ready, building, handler, service>>

-----------------------------------------------------------------------------
(* The worker.                                                              *)

\* A service whose start awaits getAllSwaps: stop() does nothing to it.
Starting(s) == service[s].loading \/ \E j \in jobs : j.service = s /\ j.stage = "load"

Stopped(s) == [service EXCEPT ![s].running = FALSE, ![s].left = @ \/ Starting(s)]

\* An object that does nothing any more is garbage.
Free(s) == /\ s # handler /\ ~service[s].running /\ ~service[s].loading
           /\ \A j \in jobs : j.service # s

\* handleInit replaces the service; the one before is not stopped.
Replaced(s) == [t \in Services |-> CASE t = s -> [Unused EXCEPT !.loading = TRUE]
                                      [] t = handler /\ t # s -> [service[t] EXCEPT !.left = TRUE]
                                      [] OTHER -> service[t]]

HandleInit(p, pg, w) ==
    /\ \/ /\ \E s \in Services : Free(s) /\ handler' = s /\ service' = Replaced(s)
          /\ Answered(p, pg, w, "ok")
       \/ \* A provider cannot be made from the payload.
          /\ UNCHANGED <<handler, service>>
          /\ Answered(p, pg, w, "failed")
    /\ UNCHANGED <<ready, building, jobs, count>>

\* The cases of handleMessage that are answered at once, and those that await.
HandleStop(p, pg, w) ==
    /\ service' = Stopped(handler)
    /\ Answered(p, pg, w, "ok")
    /\ UNCHANGED <<ready, building, handler, jobs, count>>

Awaits(p, pg, w, stage) ==
    /\ LET job == [for |-> w, service |-> handler, stage |-> stage]
       IN jobs' = jobs \cup (IF w = Nobody THEN Orphans({job}) ELSE {job})
    /\ page' = [page EXCEPT ![p] = pg]
    /\ call' = IF w = Nobody THEN call ELSE [call EXCEPT ![w].runs = @ + 1]
    /\ UNCHANGED <<ready, building, handler, service, count>>

HandleRead(p, pg, w) == Awaits(p, pg, w, "work")
HandleAct(p, pg, w) == Awaits(p, pg, w, "work")
HandleStart(p, pg, w) == Awaits(p, pg, w, "load")

\* processMessage of the bus and handleMessage.
Take(p) ==
    /\ page[p].inbox # <<>>
    /\ LET msg == Head(page[p].inbox)
           pg == [page[p] EXCEPT !.inbox = Tail(@)]
           refuse(outcome) == /\ Answered(p, pg, msg.for, outcome)
                              /\ UNCHANGED <<worker, count>>
       IN CASE msg.kind = "PING" -> refuse("ok")
            [] msg.kind # "PING" /\ ~ready -> refuse("notInitialized")
            [] ready /\ msg.kind = "INIT" -> HandleInit(p, pg, msg.for)
            [] ready /\ msg.kind \in RequestKind /\ handler = NoService -> refuse("noService")
            [] ready /\ msg.kind = "read" /\ handler # NoService -> HandleRead(p, pg, msg.for)
            [] ready /\ msg.kind = "act" /\ handler # NoService -> HandleAct(p, pg, msg.for)
            [] ready /\ msg.kind = "start" /\ handler # NoService -> HandleStart(p, pg, msg.for)
            [] ready /\ msg.kind = "stop" /\ handler # NoService -> HandleStop(p, pg, msg.for)

\* The page tells apart only the answer that is worth another attempt: "ok"
\* stands for the error of a request that failed too.
JobAnswered(j, outcome) ==
    IF j.for = Nobody THEN UNCHANGED <<page, call>>
    ELSE CallAnswered(j.for, page[PageOf[j.for]], outcome)

\* startSwapManager: the swaps are loaded, start() runs up to its connection.
StartLoaded(j) ==
    /\ j.stage = "load"
    /\ service' = [service EXCEPT ![j.service].running = TRUE]
    /\ jobs' = (jobs \ {j}) \cup {[j EXCEPT !.stage = "connect"]}
    /\ UNCHANGED <<page, call, ready, building, handler, count>>

JobDone(j) ==
    /\ j.stage # "load"
    /\ JobAnswered(j, "ok")
    /\ jobs' = jobs \ {j}
    /\ UNCHANGED <<ready, building, handler, service, count>>

\* withTimeout of the bus: the page is told, the work goes on.
BusTimeout(j) ==
    /\ j.for # Nobody
    /\ JobAnswered(j, "timeout")
    /\ jobs' = (jobs \ {j}) \cup Orphans({j})
    /\ UNCHANGED <<ready, building, handler, service, count>>

\* The start of the constructor has loaded the stored swaps.
Autostarted(s) ==
    /\ service[s].loading
    /\ service' = [service EXCEPT ![s].running = TRUE, ![s].loading = FALSE]
    /\ UNCHANGED <<page, call, ready, building, handler, jobs, count>>

\* Fault: the handler is dropped and its SwapManager goes on.
DropsHandler == /\ service' = service
                /\ handler' = NoService

\* stop() of the handler.
StopHandler ==
    /\ service' = IF handler = NoService THEN service ELSE Stopped(handler)
    /\ handler' = NoService

\* The wallet's page initialises the bus: waitForInit stops the handlers if it
\* was initialised, builds a wallet and starts them.
BusInit ==
    /\ ~building /\ count.inits + count.slow < MaxInits
    /\ building' = TRUE /\ ready' = FALSE
    /\ IF ready THEN StopHandler ELSE UNCHANGED <<service, handler>>
    /\ count' = [count EXCEPT !.inits = @ + 1]
    /\ UNCHANGED <<page, call, jobs>>

BusReady ==
    /\ building
    /\ building' = FALSE /\ ready' = TRUE
    /\ UNCHANGED <<page, call, handler, service, jobs, count>>

BusFails ==
    /\ building
    /\ building' = FALSE
    /\ UNCHANGED <<page, call, ready, handler, service, jobs, count>>

\* The browser kills the worker; the next message starts a new one.
Kill ==
    /\ count.kills + count.slow < MaxTroubles
    /\ count' = [count EXCEPT !.kills = @ + 1]
    /\ ready' = FALSE /\ building' = FALSE
    /\ handler' = NoService
    /\ service' = [s \in Services |-> Unused]
    /\ jobs' = {}
    /\ UNCHANGED <<page, call>>

WorkerNext ==
    \/ \E p \in Pages : Create(p) \/ PingTimeout(p) \/ SetupTimeout(p) \/ Take(p)
    \/ \E c \in Calls : Read(c) \/ Act(c) \/ Control(c, "start") \/ Control(c, "stop")
    \/ \E c \in Calls : Post(c) \/ CallTimeout(c)
    \/ \E j \in jobs : StartLoaded(j) \/ JobDone(j) \/ BusTimeout(j)
    \/ \E s \in Services : Autostarted(s)
    \/ BusInit \/ BusReady \/ BusFails \/ Kill

WorkerSpec == WorkerInit /\ [][WorkerNext]_workerVars

\* The event loops of the pages and of the worker go on and timers fire.  Nothing
\* is assumed of the work itself: an answer of the service may never come, and
\* the bus may never be initialised.
WorkerFairness ==
    /\ \A p \in Pages : WF_workerVars(Take(p))
    /\ \A c \in Calls : WF_workerVars(Post(c)) /\ WF_workerVars(CallTimeout(c))
WorkerFairSpec == WorkerSpec /\ WorkerFairness

-----------------------------------------------------------------------------
(* Properties.                                                              *)

\* A call is posted up to three times, but the worker is given it only once:
\* it is repeated only after an answer that says it was not handled.
HandledOnce == \A c \in Calls : call[c].runs <= 1

\* A SwapManager that runs although the handler no longer refers to it, so that
\* no page can stop it, was left by one of two causes: another INIT_ARKADE_SWAPS
\* came to a worker that had a service (several pages, a slow pong), or it was
\* stopped while a start of it still loaded the swaps.
StraysHaveACause ==
    \A s \in Services : service[s].running => s = handler \/ service[s].left

\* Every call ends, whatever is killed, lost or late (sendMessageDirect,
\* pingServiceWorker, reinitialize).
CallsEnd == \A c \in Calls : call[c].stage # "idle" ~> call[c].stage = "idle"

=============================================================================
