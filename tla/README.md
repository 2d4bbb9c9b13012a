# Formal models of the Arkade SDK and its Boltz swaps

TLA+ specifications of the two packages of this repository, `packages/boltz-swap`
(swaps between Arkade, Lightning and Bitcoin through the Boltz service) and
`packages/ts-sdk` (the wallet the swaps run on), the TLC configurations that check
them on small instances, and proofs checked by TLAPS.

Run a model with `tlc -workers 2 -config <run>.cfg <module>.tla`, a proof with
`tlapm <module>.tla`.  `PROJECT.json` lists runs, mutants, hazards, theorems, and
for each definition the source lines it stands for.

## 1. Inventory

Both packages are single-threaded TypeScript: no two statements run at the same time,
but every `await`, timer, socket message and service-worker message lets another
invocation run in between.  The hard behaviour is all there: state read before an
`await` and used after it, guards re-checked or not, answers overtaken by newer
messages, timers that outlive what they were for, and a process (a browser tab, a
service worker, a phone app) that can die at any `await` and start again from what
its repositories committed.

### packages/boltz-swap

| component | state | operations | interacts with | correct when |
|---|---|---|---|---|
| statuses (`boltz-swap-provider.ts`) | - | predicates over a status | everything | the predicates fit the lifecycles |
| Boltz service (external) | status, lockup and payout of each swap | moves a swap on, locks, claims and returns coins | REST, WebSocket | assumed as modelled |
| SwapManager (`swap-manager.ts`): swaps | map of monitored swaps, shared swap objects, `swapsInProgress` | add, remove, status updates, polls, autonomous actions, resume | repository, callbacks, Boltz | one action per swap at a time; nothing ends early; ended swaps leave; payouts are collected |
| SwapManager: connection | socket, four kinds of timer, four flags | start, stop, connect, reconnect, poll, fall back | WebSocket runtime | a running manager always has a source of updates, a stopped one none |
| ArkadeSwaps (`arkade-swaps.ts`) | swap repository | create, claim, refund, sign, wait, restore | manager, wallet, Ark server, Boltz | coins move once; what is stored matches |
| swap repositories | one record per swap | save, delete, query, migrate | IndexedDB, realm, sqlite | last write wins |
| swap waits (`arkade-swaps.ts`, `monitorSwap`) | one promise, its socket or its subscription | wait, claim, refund, reject | Boltz, manager, Ark server | ends with the swap; one claim; a failed payment is refunded |
| VHTLC batch handler (`batch.ts`) | one session | the phases of a batch | Ark server | signs what it joined |
| Expo poll processor | - | poll stored swaps in the background | repository, task queue, the open app | what is stored catches up, claims follow |
| service-worker runtime and handler | proxies, ArkadeSwaps objects | proxy calls, start and stop of the manager | MessageBus | a request is handled once, every call ends |

### packages/ts-sdk

| component | state | operations | interacts with | correct when |
|---|---|---|---|---|
| Wallet (`wallet/wallet.ts`) | transaction lock, repositories | send, settle, sync, notify | Ark server, indexer | coins are not spent twice; pending work is finalised |
| Batch (`wallet/batch.ts`) | batch session, trees | events of a batch | event stream, handler | phases in order, trees complete |
| VtxoManager | renewal, sweep and boarding bookkeeping | renew, recover, sweep, poll | wallet, contract manager | no double settlement, no lost retry |
| ContractWatcher | watched contracts, subscription, timers | watch, listen, poll, reconnect | indexer | events reach the callback; one listener |
| ContractManager | contract cache | create, sync, events | watcher, repositories | repository and watcher agree |
| MessageBus (`worker/messageBus.ts`) | handlers, tick loop, init state | start, stop, route, tick | service worker clients | each request answered once |
| service-worker wallet | proxies, handler state | init, requests, migration | MessageBus | reinitialises after the worker died |
| sync cursors | cursor per script set | read, advance, clear | wallet repository | never skips what it has not fetched |
| Expo tasks | queue, outbox | enqueue, run, acknowledge | storage | tasks are done and acknowledged |
| delegator, unroll, ramps | - | sequences of server calls | Ark server, chain | steps in order |
| repositories, migrations, storage adapters | records | CRUD | databases | migrated once |
| tree, musig2, script, intent, bip322, extension, arkfee, arknote, identity | - | pure encoding and cryptography | - | - |

`PROJECT.json` `hazards` lists, at its line, what is hard to test in this code.

## 2. Plan

Done, in this order: `SwapStatus`, `BoltzServer`, `SwapManager`, `SwapLock`, `SwapConnection`
(the swaps' manager); `WorkerWallet` (pages, bus, life cycle of the wallet's handler);
`BatchSession`, `WalletFunds`, `VtxoManager`, `ContractSync` (the wallet's coins);
`SwapWaits`, `SwapWorker`, `ExpoTasks` (the other users of swaps); `Storage`.

The models meet at interfaces rather than in one composition, which no checker could
explore: a settlement is a `BatchSession` that the lock of `WalletFunds` encloses; the
`VtxoManager` sees a settlement as an answer, good or bad, that may take any time but
comes (where it does, is `SettleEnds` of `BatchSession`); the waits and the background rounds see the `SwapManager` as one step per save or action;
the `SwapWorker` sees the bus of `WorkerWallet` as down, being initialised or ready.
`SwapManager` and `SwapLock` are composed by refinement, the others by assuming of the
neighbour no more than its own module shows.

The runs are twelve, one per question; what only documents a divergence has no run and is
in section 6.

Proofs keep modules of their own: `SwapManagerProofs`, `SwapWaitsProofs`,
`WorkerWalletProofs`, `BatchSessionProofs`, `WalletFundsProofs`, `ContractSyncProofs` and
`StorageProofs` beside the models they are named after, and `BackgroundProofs` for what
runs in the background of an application, one part each for `SwapConnection`,
`SwapWorker`, `VtxoManager` and `ExpoTasks` (they share no variable; the last three name
their specifications `WorkerSpec`, `ManagerSpec` and `TaskSpec` so that they can be
extended together).  Not modelled yet
and worth it: unroll's step machine and the restoration of swaps.

## 3. Modules

Every module models the code at the grain of its `await`s: what runs between two of
them is one action.  An action is named after its function or handler; where a function
awaits, the action that follows the await has a name of its own.  Definitions under a
comment "Fault" are plausible mistakes, used only to show that a property notices them.

### SwapStatus, BoltzServer

`SwapStatus` has the statuses and the predicates of `boltz-swap-provider.ts`, per kind
of swap.  `BoltzServer` is the environment: which status Boltz may report next, from the
lifecycles in the comments of the same file, and what each does to two coins, `lockup`
(what the client pays) and `payout` (what it is paid).  It contains no client code.

### SwapManager

| variable | code |
|---|---|
| `mem`, `monitored` | the shared swap objects and the map `monitoredSwaps` |
| `inProgress` | `swapsInProgress` |
| `task` | asynchronous invocations under way: a poll, an update handler, a callback |
| `writeQ`, `stored` | writes the repository has been asked for, and what it has committed |
| `resumeTodo` | the rest of the loop of `resumeActionableSwaps` |
| `ws` | WebSocket messages on their way |
| `completed` | `onSwapCompleted` events |

`HandleStatus` is `handleSwapStatusUpdate` up to its first await, and is used by socket
messages, polls and retries alike; `WriteCommits` continues after the save with
`executeAutonomousAction` and the final check.  `ClaimCoins`, `RefundCoins`, `SkipRefund`,
`SignServerClaim`, `ActionFails` are the callbacks of `ArkadeSwaps`, whose saves of a
*copy* of the swap go through the same queue.  `Crash` loses everything but `stored`;
`Start` rebuilds the map from it.  `Events` says which of the events (failing callbacks
and saves, restarts, lost messages, failing polls, refreshes, removals, manual calls) a
kind of swap meets.

Left out or merged: an async function that continues without awaiting anything real does
so in the same step; a poll's request and the server's answer are one step, its
application another; the resume loop may let anybody run between two swaps; a swap has
one coin on each side; stopping and starting inside one process is `SwapConnection`'s.

`SwapLock` is what `swapsInProgress` promises, in one variable.

### SwapConnection

| variable | code |
|---|---|
| `websocket`, `socket` | the field `websocket`, and every socket object with its state |
| `connecting`, `fallback`, `unavailable` | `isReconnecting`, `usePollingFallback`, `webSocketUnavailable` |
| `pollTimer`, `initialTimer`, `retryTimer`, `reconnectTimer`, `timeouts` | the timers |
| `interval`, `retryDelay`, `reconnectDelay` | the delays and back-offs |
| `rounds` | polling rounds under way, by what began them |
| `subscribed` | the swaps each socket has been asked to report |

Swaps are bare names here.  A round is an action where it begins and one where it ends.
The error and the close event of a socket are one step, which may come at any time.
`runtime` says whether there is a WebSocket class, there is none, or its constructor
throws.

### WorkerWallet

| variable | code |
|---|---|
| `page` | a proxy object: `pingPromise`, `reinitPromise`, what it has posted |
| `call` | a call of one of its methods: `sendMessageWithRetry` with its attempts |
| `initialized`, `tick` | the MessageBus |
| `handler` | the fields of `WalletMessageHandler` |
| `live`, `feeds` | wallet objects and subscriptions that nobody has disposed of |
| `job` | messages being handled, at the await they have reached |

Every request is `read` or `clear`: what matters is that it runs on the handler's
wallet.  `runs` counts how often a call's request was routed.  An answer and its receipt
are one step, the messages of a page are taken in order, requests overlap as they do in
the code.  Left out: sharing of equal reads (it only merges calls), `MessageBus.stop`
(nothing calls it), broadcasts, migrations, the contents of ticks (the ticks run one
after another, and the next is scheduled in any case).

### BatchSession

`Batch.join` with the handlers of the wallet (`createBatchHandler`) and of the swaps
(`batch.ts` of boltz-swap), the signing session, and the callers that register and delete
the intent.  `step`, `vtxoChunks`, `connectorChunks`, `vtxoTree` are the locals of `join`;
`request` is what it awaits; `stream` and `inbox` are the connection and the events it has
delivered; `intent`, `phase`, `outbox`, `given` are the server's side.  A transaction of a
tree is a name, a chunk a name and its batch, so a tree that mixes two batches is visible.
The server selects the intent or not, drops it, fails a batch, and starts the next.

`Provider` tells apart the REST provider, which opens its stream when asked, and the Expo
provider, which fetches when the stream is first read and again whenever it ends, so that
events are lost in between.  Left out: the arithmetic of musig2, and the amounts and
scripts of outputs (they decide whether a tree is the batch's own).

### WalletFunds

A VTXO has the state the server gives it (`ledger`) and the one in the repository
(`cache`).  `flag` and `cursor` are in the stored wallet state; `fresh` is the set of
VTXOs changed since the cursor, that is, what a delta query returns, and replaces times.
`job` has the stage of each call, at its awaits: queued for `_txLock`, synchronising,
picking, building, submitting, finalizing, booking.  `sync` is the one synchronisation
under way, that later calls join.  A crash loses `job`, `queue` and `sync`.

`Boot` is `finalizePendingTxs`, which runs at every initialization of the wallet, takes no
lock, and has any calls beside it: the bus and the handler have their wallet before it
ends.  `beside` marks a call that a recovery ran beside, `overtaken` a transaction whose
flag others may have cleared since it was set: another call that has completed, or a
recovery beside the call that sent it.

Bounds of the model: one recovery at a time, and one lock, since all calls are those of one
`Wallet` object.  Two INIT_WALLETs that overlap, or a wallet in another tab, have a
lock and a synchronisation of their own and are left out.

Merged: `Reconcile` (the deletions after a full fetch) is one step; a settlement's batch
is one step, answered or not; only VTXOs of settled batches are swept.  Amounts, fees and
assets are choices: a call picks any VTXOs it may.

### VtxoManager

`chain` is the chain's view of each boarding output, `known` and `swept` the manager's two
sets, `poll` the poll in progress with what it listed and chose, `timer` the one armed
timer.  `vtxo`, `events`, `renewal`, `cooled` are the renewal side; `disposed` is how far
`dispose()` has come.  Delays are any time; the back-off counts failures up to its cap.

A wallet is `eager` when no batch lives longer than its `vtxoThreshold`: what a renewal
makes is then eligible at once, and the event that reports it (`echoes`) would start the
next renewal if `renewalInProgress` or the cooldown did not drop it.  Of an eager wallet
that event is assumed to come while the renewal is in progress or within the cooldown of
30 s (`CooldownPasses`); otherwise each late one would start another renewal (section 6).
The application may ask for a renewal at any time, also after `dispose()` (`UserRenews`).

### ContractSync

`ContractWatcher` and `ContractManager` together, with the wallet's own synchronisation
that shares their cursors.  `held` and `known` are the watcher's contracts and the VTXOs it
has seen of each; `stored`, `cache`, `cursor`, `fresh` the repositories.  Requests
(`jobs`), polls and updates of the subscription are records in sets, since any number may
be under way; each has what it read when it was asked.  The indexer has subscriptions
(`subs`), which it may forget, and a stream.

Merged or left out: a paged answer is one answer; the overlap window covers the requests
under way when a request is asked; one call of the application per script at a time;
`refreshVtxos` with a time window; the frontier of pending VTXOs is all the unspent ones;
`sweptVtxos` of an update are ignored, as in the code.  Updates that name two scripts are
modelled, but no instance has one.

### SwapWorker

The pages' `ServiceWorkerArkadeSwaps` and the worker's `ArkadeSwapsMessageHandler`.  A
`service` is an `ArkadeSwaps` object, with its manager running, loading, or left behind by
the handler.  The bus is the environment: `ready`, `building`.  Requests differ by what
they do: reads that share an answer, start, stop, others.  A request of an old life of the
worker is only followed while it still loads swaps.  A call times out 30 s after its post,
whether the worker has taken it, lost it or has yet to take it (`CallTimeout`).

### ExpoTasks

The stored queue (`inbox`, `config`), the rounds of the app and of the background task
over it (`runner`, at its awaits), the stored swaps, their kinds (`kindOf`) and Boltz.  A change of a stored list
is a read and, later, a write.  The OS ends a round, the user the app, at any await.  The
open app's manager saves and claims beside them.  A refund may be skipped before its
locktime, which is no error.  Left out: results (they are acknowledged
unread), chain swaps (never polled in the background).

### SwapWaits

One swap and one promise: `waitAndClaim`, `waitAndClaimArk`, `waitAndClaimBtc`, or
`waitForSwapSettlement` in `sendLightningPayment`; over a socket of its own or, when
`managed`, over `waitForSwapCompletion`.  `steps` are the callbacks and claims under way,
which overlap, because the socket awaits none of them.  `refundVHTLC` refunds, throws, or
skips coins before the locktime (`skipped`) without an error; `stored` and `refunded` are
the record it leaves.

### Storage

A call of a repository is the sequence of atomic changes its store makes of it
(`IndexedDBSteps`, `SQLiteSteps`, `RealmSteps`, `MemorySteps`), each row under the key of
that store (`IndexedDBKey` ...).  On IndexedDB a call mostly resolves before its
transaction commits (`uncommitted`), and repositories share connections by a count of users
(`db`, `handle`).  A disposal is under way (`disposing`) until the connection it closes is
closed; the same repository may be disposed of again meanwhile, which takes another count
(`overlapped`).  `mig`, `flag`, `unread` are `migrateWalletRepository`.  Queries are
operators compared with a reference in every reachable state.  Left out: what reading back
converts or loses, two pages that migrate at once, WebSQL.

## 4. Runs

| run | instance | shows |
|---|---|---|
| `swap_manager` | a swap of each kind in turn, two tasks; every event, shared out over the kinds | `LockIsExact`; `FinalIsTrue`: nothing is final before Boltz has ended it, in memory, in storage or by an event; the manager implements `SwapLock` (`LockIsImplemented`) |
| `swap_manager_live` | fair; restarts and lost messages | `EndedSwapsLeave` the map; `PayoutIsCollected` |
| `connection` | fair; one start, one stop, two sockets, two swaps, three runtimes | `ReportedOnce`: a swap is reported over one connection; `StoppedStaysDown`; `KeepsLooking`: it goes on polling and connecting |
| `worker` | fair; one page, two calls, a kill, reloads, failures, slow requests | `HandledOnce`; `OneWalletReports`; `CallsEnd` |
| `batch_session` | fair; five callers, two providers, three batch ids, errors, broken streams, a stale intent | `SignsItsTree`; `ForfeitsComeLast`; `ResolvesSettled` (REST); `SettleEnds` |
| `wallet_funds` | fair; three VTXOs; a send beside a send, settlement, renewal or clearing of the cursors, and an asset operation beside a read; an initialization at any time, a restart, a failing request | `FlagCoversPending`: an unfinished transaction can be found again, unless others cleared its flag; `Repairable`: a wrong cache is put right by the next query; `OwnSyncSuffices`; `CallsEnd`: nothing is under way for ever, at the lock or elsewhere |
| `vtxo_manager` | fair; two boarding outputs, or two VTXOs; a failing request | `QuietAfterDispose`; `RenewalsRest`: renewals and their own events come to rest, also when what they make is eligible at once; `BoardingHandled` |
| `contract_sync` | fair; two scripts with a VTXO each, four subscription ids | `CursorCovers`; `NotifiedIsCached`; `WatcherAgrees` with the repository in the end; `ListensAgain` |
| `swap_worker` | fair; one page, two calls, two services; two initialisations, a kill or slow pong | `HandledOnce`; `StraysHaveACause`; `CallsEnd` |
| `expo_tasks` | fair; one swap, reverse or submarine, four task ids, skipped refunds, one interruption or failure | `StoredCatchesUp`; `ClaimsFollow`; `DoneIsRight`: what makes a round pass a swap by, a final status or the mark of a refund, is true, and its coins have moved only when it was time |
| `swap_waits` | fair; four kinds, with and without manager, two failures, one loss | `ResolvedIsDone`; `ClaimsOnce`; `NothingLeftLocked`: the coins of a payment that returns are taken or refunded, or their refund was put off and the record still asks for it; `WaitEnds` |
| `storage` | four stores, two calls over a migration, two of: failure, end, disposals | `AcknowledgedSurvives`; `HandleIsOpen`; `AnswersAgree`; `DoneIsComplete` |

Each property has a mutant of the code in `PROJECT.json` under which the same run finds it
violated.

**Bounds.**

- *Manager.*  Swaps share only the task slots and the write queue, so one swap shows what
  several do; the proofs are for any number.  Two tasks are the least at which two
  invocations interleave; whatever needs a third is left to the proofs.  One message in
  flight (`MaxWs`) still lets a message overtake a poll, since the poll's answer waits in a
  task.  `MaxEmitted = 1` is enough because only "announced or not" is asked.  All events
  at once are too many for one swap: each kind has its share, and between the two
  Lightning kinds, and the two chain kinds, every event occurs (`AllEvents`).
- *Connection.*  Two sockets are the old and the new one of a reconnection.  `MaxRounds` 1
  per origin: a poll of each origin may overlap the others.  Delays are small numbers with
  a ceiling, reached after one or two doublings.
- *Worker.*  `Jobs = 2` lets an initialisation overlap another or a request; `Wallets = 2`
  is an old and a new one; `MaxKills = 1` is what the two retries are for; `MaxFeeds`,
  `MaxInbox` never stop what the properties speak of.  The event `interrupt` (premature
  timeouts, kills within an initialisation) is not in the run: with it `OneWalletReports`
  does not hold (section 6).  The proof of `HandledOnce` includes it.  A second page may initialise
  while the first one does, which is the same thing: the run, and the proof of
  `OneWalletReports`, have one page.
- *Batches.*  Three numbers: the batch of the intent and those before and after it; a number
  nobody remembers is used again, so batches go on for ever.  A tree of a root and a leaf can be incomplete and can be mixed.
  `MaxEvents` holds the server back, not the client.
- *Funds.*  Three outpoints: an input, its output, and one for the other call.  Two calls
  compete for the lock; one initialization, one restart and one failure reach every await of
  either.  The safety properties except asset operations, so those run beside a read only,
  for `CallsEnd`.  1.9 million states.
- *VtxoManager.*  One output is below dust, so both the single and the joint settlement
  occur.  Wallets are eager or not from the start.  Polls and renewals share only `dispose()`: a behaviour has either.
- *ContractSync.*  One contract is there from before, the other may be created; two
  transactions or calls, or one and a failure.  Four ids: a stale one, the current one and
  those of two overlapping updates.
- *SwapWorker.*  One call reads, the other reads, acts, starts or stops: reads share an
  answer, a start or stop overlaps them.  Two services are the one that is replaced and the
  new one.  A call that times out before the worker takes it counts as a slow answer.
- *Expo.*  Tasks of two rounds and their successors; one swap of either kind that is
  polled, since swaps share nothing but the round.  The app's own poll of `ExpoWallet`
  (`AppRunsTasks`) is off, as in `ExpoArkadeSwaps`.
- *Storage.*  Rows with the same outpoint under two addresses, two rows in one call, and
  each operation on each repository at least once.  Two disposals are of two repositories,
  or of one, overlapping or not.

**Symmetry** is used in safety runs only.  **Deadlock** is not checked: when all swaps
have ended, after `stop()` or `dispose()`, or when the bounds are used up, nothing more has
to happen.

**Fairness.**  Timers fire, requests are answered or time out, repositories answer, a
closed socket says so, messages to a worker are taken, an application that died is opened
again, the OS wakes background tasks again, locktimes pass, transactions confirm.  Strong
fairness is used where a bound of the model (a task slot, a socket, a job, room in an
inbox) may block what the code would do at once.  The Ark server goes on with its batches,
selects what is queued again and again, and gives a batch up whose participants do not
answer.  Nothing is assumed of Boltz's progress, of users, of sockets opening, of calls
being made, or of failures ceasing, and in `SwapWorker` only that event loops and timers
run: the work a worker does on a request may never answer - except by the bounds on failures and restarts, and
that `PayoutIsCollected` asks for a process that in the end stays up.

## 5. Proofs

For any value of the constants that satisfies the named assumptions of the modules:

| theorem | states | along |
|---|---|---|
| `TypeCorrect` | every state of SwapManager is typed | one case per action |
| `LockExact` | `inProgress` is exactly the swaps with a running action, and no swap has two | `LockInv`: types, the lock, and that polls hold no action (`PollsOnlySave`) - without it a poll's answer could release what it never took |
| `FinalTrue` | nothing final, in memory, in storage or announced, of a swap that Boltz has not ended | `FinalInv`: every copy of a status anywhere (object, storage, messages, tasks with their copies on the way to storage) is true if it is final; final statuses of Boltz are stable |
| `LockImplemented` | `SwapManager` implements `SwapLock`: each step takes the lock for one action of one swap, gives one back, or leaves them | `LockInv`, and that a step changes the running actions of one swap at most (`SwapKept`, `SingleStep`) |
| `CallsHandledOnce` | no request of a page runs twice | `OnceInv`: a call that was sent is in one place, its page's inbox (not run yet) or one job (run once); retries leave from where neither is left, because only a refusal, which runs nothing, is retried |
| `OneWallet` | `OneWalletReports`: only the handler's wallet is live, and its feeds are the ones the handler knows; where one page initialises and no initialisation is interrupted | `ReportInv`: beside `OnceInv`, at most one initialisation is under way (`Protocol`: the page is in one place of its exchange and a request answers to it), and what the handler holds fits the step of that initialisation (`HandlerFits`) |
| `BusKeepsTicking` | `KeepsTicking`: an initialised bus has a tick armed or running, also with premature timeouts and kills within an initialisation; no run checks it | inductive as it is |
| `CursorsCover` | what the repository has wrong of a VTXO is newer than the cursor, or known to a request that will save it; assumes that the wallet synchronises one script (section 6 says what goes wrong with two) | `CursorInv`: an answer is as new as all that was known when it was asked, and what it leaves out or saves is right as of then |
| `ToldIsCached` | `NotifiedIsCached`: a VTXO the application is told of is in the repository at that moment; same assumption | `CursorInv` and `NewsInv`: what the wire and the requests under way carry is true (`WireTrue`) and stays so until it is saved (`ReadsStay`), an answer tells only what it will save (`AnswersTell`), and nothing takes back what was told (`ToldIsKept`) |
| `OneConnection`, `StaysDown` | `ReportedOnce`, `StoppedStaysDown`, where the manager is started once in a process (`"restart" \notin Events`, as in the run; section 6 says what a second start does) | types; `OneSocket`: at most one socket is on its way or open, and `websocket` is it; `AllSubscribed`; `NothingBefore` the start |
| `SwapCallsHandledOnce`, `StraysAreLeft` | `HandledOnce` of the swaps' worker; `StraysHaveACause`: a manager that runs and is not the handler's was left by an initialisation over it, or by a stop while it loaded | `SwapWorkerInv`: a call's request is in one place, the inbox (not run yet) or one job (run once), also across a restart of the worker (`OnceInv`, `BusTypes`); a manager that runs, or is loaded by a job, is the handler's or marked as left (`StraysMarked`) |
| `DisposedIsQuiet` | `QuietAfterDispose`: after `dispose()` has begun no poll begins and no timer is armed, and when it is done no renewal starts | `ManagerInv`: types; what a poll picked is among what it listed; disposing has stopped the timer, and done has stopped the subscription (`Disposed`) |
| `DoneOnExpoIsRight` | `DoneIsRight` | `TaskInv`: a round holds a swap and an answer only between the awaits that use them (`Held`); every copy of a status or of a refund's mark, stored, loaded by a round long ago or just answered, is true as long as it matters (`CopiesTrue`): final ones are the last, a refundable swap is never paid; a reverse swap is settled only after its coins were claimed (`SettledIsSpent`); hence coins move in time (`SpentInTime`), whatever was read before |
| `ResolvesOnlyDone`, `ClaimedOnce`, `PaymentIsSettled` | `ResolvedIsDone`, `ClaimsOnce`, `NothingLeftLocked` | `SuccessIsTrue`: success is the last status Boltz reports, so every copy of it (messages, callbacks, the manager's) says that the swap is done; `OneClaim`: `claimStarted` admits one step to the claim; `PaymentFollows`: where the coins are at each await; `RefundIsKept`: once a payment is refused it stays refused, in the messages, at Boltz and in the record, and only refunded coins are marked so, hence a refund put off (`skipped`) leaves a record that asks for it |
| `SignsOwnTree`, `ForfeitsAfterSignatures`, `ResolvesOnlySettled` | `SignsItsTree`, `ForfeitsComeLast`, `ResolvesSettled` | what the server and `join` know of each other: events of a batch are on their way in order (`EventsInOrder`), the answer that `join` awaits belongs to its step (`RequestInOrder`), the session is of the tree under way (`SigningFits`, `NoncesAreCurrent`, `TreeStays`), aggregated nonces and connectors come only after the client's own (`AggregatedHasNonces`, `ConnectorsAreEarned`), and after its last contribution the batch settles or its failure is the next thing it hears (`CommitmentHolds`) |
| `FlagCovers`, `CacheRepairable`, `OwnSyncIsEnough` | `FlagCoversPending`, with the exceptions it states (a flag that others may have cleared, inputs that are all of settled batches), `Repairable`, and `OwnSyncSuffices` of calls that no recovery runs beside; all while no asset operation runs (it takes no lock) | `IInv`: who is past the wait for the lock is its head (`LineInv`), transactions do not share inputs (`TxsApart`), what was booked is true (`BooksTruth`), an answer is as new as what was known when it was asked (`SyncCovers`), the flag stands from before the submission to after the booking (`FlagHolds`), the recovery asks about all it must (`RecoveryFinds`), and an own synchronisation sees every spend before it (`OwnIsEnough`).  A recovery runs beside calls, which know it (`CallsKnow`): it may finalize what a call sent, so what a call books is what the server has made of it, whoever asked (`BooksTruth`), and the cache may be behind the server but never beside it (`CacheBehind`), or the recovery would ask about too little |
| `HandlesStayOpen` | `HandleIsOpen`: of every database none of whose repositories was disposed of again during its disposal | `Connected`: on IndexedDB the calls that await a database and the repositories that hold it are no more than its users (`Counted`), so that the last user to go is the only one; all of them have the cached connection, and what a disposal closes is another (`Shares`), since connections are new each time (`Numbered`) |
| `ToldSurvives` | `AcknowledgedSurvives`; on IndexedDB of the transaction history, whose calls alone wait for the commit | `Kept`: what was told is committed, and no transaction under way takes it away (`ToldIsKept`); the transactions of IndexedDB under way keep off each other's tables (`Apart`), and one that a call waits for saves what the call asked (`Awaited`, `LateCalls`) |
| `MigrationIsComplete` | `DoneIsComplete` (on IndexedDB of the transaction history), where the rows of the old storage have distinct keys (`LegacyIsDistinct`: the old storage keeps an output once for its address, and an output has one address) | `Migrating`: the application's calls wait for the migration (`AppWaits`); its own save rows of the old storage and nothing else (`CopiesGo`), so none takes away what another saved; a row that was read is in the store once the call of its group ended well, and before that in the store or among what the call has still to save (`RowGoes`) |
| `QueriesAgree` | `AnswersAgree` | each store narrows by an index first, or drops a condition, and then filters: for every content and query (`ContractsAgree`, `SwapsAgree`) |

The assumptions on constants say what their values are (kinds, events and providers the code
knows, positive delays, finite trees and sets of calls) and that a name for "nothing" is not
also something.  Beyond them only `OneConnection`, `StaysDown`, `CursorsCover`,
`ToldIsCached`, `OneWallet` and `MigrationIsComplete` have a hypothesis, the one the table
names; the instances of the runs satisfy them.  Type correctness is proved also of
`SwapConnection`, `BatchSession`, `SwapWaits` (`TypesHold`), `SwapWorker`
(`SwapWorkerTypes`), `VtxoManager` (`ManagerTypes`) and `ExpoTasks` (`ExpoTaskTypes`), and
is part of the invariants of the others.

Every invariant and every safety property of steps that a run checks is thus also proved.
Only model-checked: liveness, which is out of the prover's reach.

## 6. Divergences and hazards seen while modelling

None of these has a run; each was met while translating the code, most with a TLC
counterexample at the time.  Lines are of the commit modelled.

Swaps (`packages/boltz-swap/src`):

- a refund skipped before the locktime "will be retried after locktime"
  (arkade-swaps.ts:899, :946), but the swap's final status takes it out of the map
  (swap-manager.ts:906), and it is not loaded again;
- `refunded: true` is saved in a copy, and the next save of the shared object overwrites it
  (arkade-swaps.ts:973; types.ts:138);
- `stop()` during a connection attempt leaves `isReconnecting` set, and later starts do
  nothing (swap-manager.ts:658); a close event of an old socket after a new start forgets
  the new one, which then stays open after `stop()` (:733); where the constructor throws no
  reconnection is scheduled; a 429 that arrives after `stop()` arms a retry timer (:1275);
- a save that rejects skips the action and the final check (:900); a poll's late answer
  can take a final object back to an earlier status (:1257, :1310); `onSwapCompleted` is
  emitted for failed swaps too (:916, :82); manual calls do not look at `swapsInProgress`;
  a refresh can store a final status while a refund is due (arkade-swaps.ts:2149);
- `waitAndClaim` claims at mempool and again at confirmed, and the second claim's error
  rejects the wait although the coins were claimed (arkade-swaps.ts:608, :564); a
  connection that closes without an error leaves the wait unsettled, so the payment is
  never refunded; a swap that leaves the manager between `hasSwap` and
  `waitForSwapCompletion` gives "not found"; when the manager refunds first,
  `sendLightningPayment` throws the refund's error; its last save spreads the `pendingSwap`
  it has from before the refund (arkade-swaps.ts:705), so the record of a full refund loses
  `refunded: true` and `isSubmarineSwapRefundable` goes on asking for it
  (boltz-swap-provider.ts:208);
- after a restart of the worker "handler not initialized" is not retried, so the swaps stay
  down until a page is opened (arkade-swaps-runtime.ts:1067); an initialisation over an
  existing handler, or a stop while the autostart loads, leaves a manager no page can stop;
  a wait through the worker ends with the timeout of 30 s although it "Blocks until the
  swap reaches a final status" (swap-manager.ts:559);
- in the background a chain swap is never polled, a failed refund on a final status is not
  tried again, and a save of a stale record can take a status back until the next round.

Wallet (`packages/ts-sdk/src`):

- two overlapping initialisations of the bus leave a wallet nobody disposes of
  (worker/messageBus.ts:252); an INIT_WALLET answered after 30 s beside a new
  initialisation keeps the old wallet's contract subscription; `clear()` beside an
  initialisation forgets the new wallet (wallet-message-handler.ts:1384); the bus gives up
  a request after 30 s though the page resets its 50 s at each event of a settlement
  (messageBus.ts:468, wallet/serviceWorker/wallet.ts:599);
- with the Expo provider events between two connections are lost, so that `join` can
  resolve with the commitment of another batch (wallet/batch.ts:160, providers/expoArk.ts:63),
  and a wait of a VHTLC's batch, which opens its stream after the registration, may not end;
- `finalizePendingTxs` asks only about VTXOs that are not in settled batches, and clears
  the flag over the transactions it did not ask about (wallet.ts:2182, :2578); it runs
  beside the calls of an initialized wallet without their lock
  (wallet-message-handler.ts:1107), and clears the flag a send has just set
  (wallet.ts:2264), so that a crash before the send's finalization leaves a transaction
  nobody looks for; a successful
  send clears the flag of an earlier one whose answer was lost (:2611); asset operations
  take no lock, contrary to the comment at wallet.ts:1187; renewals choose before they
  hold the lock; a send that joins an older synchronisation can pick a coin already spent;
- the sweep uses the list made before the settlement, and may sweep what is being settled
  (vtxo-manager.ts:764, :1030); "renewal will retry on the next cycle" (:947), but only a
  received VTXO triggers one; `dispose()` does not await a renewal; where no batch lives
  longer than `vtxoThreshold`, every event that comes after the cooldown starts a renewal
  (:925), also the late echo of the last one; `renewVtxos` works after `dispose()` (:625);
- the failsafe poll reads only the repository, so what arrives while nobody listens waits
  for the next reconnection (contractWatcher.ts:492); the old VTXOs of a second
  script of the wallet are saved under its contract's address, advance the cursor both
  share, and then never show in `getVtxos` (contractManager.ts:866, wallet.ts:1083); inactive contracts with VTXOs are not watched after a restart, though
  contractWatcher.ts:124 says so; a `createContract` that fails after its save leaves a
  contract that is stored and not watched; a refresh of a time window advances cursors past
  what it did not fetch (syncCursors.ts:165); overlapping updates leak subscriptions;
  `updateContract` is a read and a later write, so updates can be lost;
- SQLite and Realm key VTXOs by outpoint alone, IndexedDB and memory by address and
  outpoint; SQLite saves row by row and clears table by table; SQLite keeps the rejected
  promise of a failed initialisation; a repository on IndexedDB that is disposed of again
  before its disposal has ended still has its connection (walletRepository.ts:78), takes a
  second user from the count (manager.ts:97) and closes the connection under another
  repository; calls of IndexedDB other than `saveTransactions` answer when their requests
  succeed, and a commit that fails after that is not reported; IndexedDB answers a query with nothing when its
  database cannot be opened; empty lists in a filter and a missing direction of `orderBy`
  mean different things to the four stores; items of the old storage that cannot be read
  are taken for missing by the migration.

## 7. Not modelled

`PROJECT.json` lists each part with its reason.  Left out for good: pure encoding and
cryptography (trees, musig2, scripts, intents, assets' packets, invoices), HTTP clients,
the contract handlers (which path can be spent when: a function of the contract and the
time), and the registration of the service worker: they have no interleavings of their own,
and what they compute is better tested with vectors.  Sequences of requests by one caller
(delegator, ramps, unroll; restoration, quotes and fees) have one actor each; of these
only unroll, which waits for confirmations, would repay a model.
