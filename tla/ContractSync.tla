---------------------------- MODULE ContractSync ----------------------------
(* Contracts and their VTXOs (ts-sdk contracts/contractManager.ts and          *)
(* contractWatcher.ts): the watcher's subscription, its reconnections and its  *)
(* poll of the repository; the manager's synchronisation of the repository     *)
(* with the indexer, by a cursor for each script; and the wallet's own         *)
(* synchronisation, which shares the cursors.                                  *)
(*                                                                             *)
(* Requests, polls and updates of the subscription are under way side by side: *)
(* each is a record in a set, and every await ends a step.                     *)
EXTENDS Naturals, FiniteSets, Sequences

CONSTANTS Scripts, Vtxos,
          Of,             \* the script of each VTXO
          Mine,           \* the script of the wallet's address
          WalletScripts,  \* scripts the wallet synchronises itself
          Expiring,       \* scripts of contracts with expiresAt
          Ids,            \* subscription ids
          MaxHappens,     \* transactions, and calls of the program
          MaxLost         \* requests, streams and subscriptions that fail

ASSUME SyncAssumption ==
  /\ Of \in [Vtxos -> Scripts] /\ Mine \in Scripts
  /\ WalletScripts \subseteq Scripts /\ Expiring \subseteq Scripts
  /\ MaxHappens \in Nat /\ MaxLost \in Nat

VARIABLES
  ledger,   \* the indexer's VTXOs
  subs,     \* the scripts of each subscription of the indexer; none: it is gone
  wire,     \* updates in the open stream
  stored,   \* ContractRepository: the state of each contract
  cache,    \* WalletRepository: the VTXOs under the address of each script
  cursor,   \* scripts with a cursor
  fresh,    \* VTXOs changed since the cursor of their script: a delta query's answer
  life,     \* the manager and its watcher, from create() to dispose()
  phase,    \* the watcher's connection
  subId,    \* subscriptionId
  loopId,   \* the subscription the listening loop reads
  held,     \* the watcher's contracts: the state of each
  known,    \* lastKnownVtxos of each contract
  jobs,     \* requests for VTXOs under way
  polls,    \* polls under way
  updates,  \* updates of the subscription under way
  calls,    \* the call under way for each script
  happened, lost

server == <<ledger, subs>>
repo == <<stored, cache, cursor, fresh>>
link == <<phase, subId, loopId, wire>>
watcher == <<held, known>>
vars == <<server, repo, life, link, watcher, jobs, polls, updates, calls, happened, lost>>

None == "none"
State == {None, "unspent", "spent"}
Contracts == {s \in Scripts : stored[s] # None}
Active == {s \in Scripts : held[s] = "active"}
IsWatching == life \in {"starting", "watching"}
HasCallback == IsWatching \/ life = "stopping"
Happens == happened < MaxHappens /\ happened' = happened + 1
MayLose == lost < MaxLost /\ lost' = lost + 1
Event(type, s, V) == [type |-> type, script |-> s, vtxos |-> V]

Init ==
  /\ ledger \in [Vtxos -> State]
  /\ subs = [i \in Ids |-> {}] /\ wire = <<>>
  /\ stored \in [Scripts -> {None, "active", "inactive"}]
  /\ cache = [s \in Scripts |-> [v \in Vtxos |-> IF Of[v] = s /\ s \in Contracts THEN ledger[v] ELSE None]]
  /\ cursor = Contracts /\ fresh = {v \in Vtxos : Of[v] \notin Contracts}
  /\ life = "off" /\ phase = "off" /\ subId = None /\ loopId = None
  /\ held = [s \in Scripts |-> None] /\ known = [s \in Scripts |-> {}]
  /\ jobs = {} /\ polls = {} /\ updates = {} /\ calls = [s \in Scripts |-> None]
  /\ happened \in 0 .. MaxHappens /\ lost \in 0 .. MaxLost

----------------------------------------------------------------------------
(* The indexer. *)

\* An update tells of a transaction, with the scripts of it that are subscribed.
Transact(ins, outs) ==
  LET scripts == {Of[v] : v \in ins \cup outs}
  IN /\ Happens /\ ins \cup outs # {} /\ Cardinality(ins) <= 1 /\ Cardinality(outs) <= 1
     /\ \A v \in ins : ledger[v] = "unspent"
     /\ \A v \in outs : ledger[v] = None
     /\ ledger' = [v \in Vtxos |-> IF v \in ins THEN "spent"
                                   ELSE IF v \in outs THEN "unspent" ELSE ledger[v]]
     /\ fresh' = fresh \cup ins \cup outs
     /\ jobs' = {[j EXCEPT !.since = @ \cup ins \cup outs] : j \in jobs}
     /\ wire' = IF phase = "listening" /\ subs[loopId] \cap scripts # {}
                THEN Append(wire, [new |-> outs, spent |-> ins, scripts |-> subs[loopId] \cap scripts])
                ELSE wire
     /\ UNCHANGED <<subs, stored, cache, cursor, life, phase, subId, loopId, watcher,
                    polls, updates, calls, lost>>

\* It forgets a subscription, as in a restart.
Forget(i) ==
  /\ subs[i] # {} /\ MayLose /\ subs' = [subs EXCEPT ![i] = {}]
  /\ UNCHANGED <<ledger, repo, life, link, watcher, jobs, polls, updates, calls, happened>>

----------------------------------------------------------------------------
(* Requests for VTXOs.  Each asks, saves what it got under the address of the  *)
(* contract, and moves the cursors to the start of the request.                *)

\* Fault: the window begins where the cursor of the last request ends.
WindowExact == {}

\* The overlap of a window covers the requests that are under way when it is asked for.
Window == UNION {j.since : j \in jobs}

\* The scripts a request asks for by the cursor; the others are fetched in full.
ByCursor(why, S) ==
  IF why \in {"init", "wallet", "vtxo_received", "vtxo_spent"} THEN S \cap cursor ELSE {}

\* What the answer tells of: all that changed since the cursor, or everything.
Asked(why, S) ==
  {v \in Vtxos : /\ Of[v] \in S
                 /\ Of[v] \in ByCursor(why, S) => v \in fresh
                 /\ ledger[v] \in IF why \in {"list", "frontier"} THEN {"unspent"} ELSE {"unspent", "spent"}}

\* An answer may come later and tell of more: what it adds is in "since" as well.
Job(why, scripts, about) ==
  [why |-> why, scripts |-> scripts, about |-> about, stage |-> "fetching", since |-> Window,
   answer |-> [v \in Asked(why, scripts) |-> ledger[v]]]

\* The address the VTXOs of a script are saved under.
Address(j, s) == IF j.why = "wallet" THEN Mine ELSE s

SaveVtxos(j) ==
  /\ j \in jobs /\ j.stage = "fetching" /\ j.why # "contract_expired"
  /\ cache' = [s \in Scripts |-> [v \in Vtxos |->
                 IF v \in DOMAIN j.answer /\ Address(j, Of[v]) = s THEN j.answer[v] ELSE cache[s][v]]]
  /\ jobs' = (jobs \ {j}) \cup {[j EXCEPT !.stage = "saved"]}
  /\ UNCHANGED <<server, stored, cursor, fresh, life, link, watcher, polls, updates, calls,
                 happened, lost>>

AdvanceSyncCursors(S, since) ==
  /\ cursor' = cursor \cup S
  /\ fresh' = {v \in fresh : Of[v] \notin S} \cup {v \in since : Of[v] \in S}

\* After a connection_reset, and for getContractsWithVtxos, cursors stay.
Advanced(j) == IF j.why \in {"connection_reset", "list"} THEN UNCHANGED <<cursor, fresh>>
               ELSE AdvanceSyncCursors(j.scripts, j.since)

Finish(j, next) == jobs' = (jobs \ {j}) \cup next

\* Fault: listeners hear of an event that is not synchronised.
HandledAtOnce(j) ==
  /\ j \in jobs /\ j.why \in {"vtxo_received", "vtxo_spent", "connection_reset"}
  /\ Finish(j, {})
  /\ UNCHANGED <<server, repo, life, link, watcher, polls, updates, calls, happened, lost>>

\* handleContractEvent: listeners hear of an event when its request is done.
HandledContractEvent(j) ==
  /\ j \in jobs /\ j.stage = "saved" /\ j.why \in {"vtxo_received", "vtxo_spent", "connection_reset"}
  /\ Advanced(j) /\ Finish(j, {})
  /\ UNCHANGED <<server, stored, cache, life, link, watcher, polls, updates, calls, happened, lost>>

\* A contract found expired is stored as it is in memory.
ContractExpired(j) ==
  /\ j \in jobs /\ j.why = "contract_expired"
  /\ stored' = [s \in Scripts |-> IF s \in j.scripts THEN "inactive" ELSE stored[s]]
  /\ Finish(j, {})
  /\ UNCHANGED <<server, cache, cursor, fresh, life, link, watcher, polls, updates, calls, happened, lost>>

\* doSyncVtxos and getVtxos of the wallet: after a delta query, what its address has.
WalletSynced(j) ==
  /\ j \in jobs /\ j.stage = "saved" /\ j.why = "wallet"
  /\ Advanced(j) /\ Finish(j, {})
  /\ UNCHANGED <<server, stored, cache, life, link, watcher, polls, updates, calls, happened, lost>>

\* refreshVtxos and getContractsWithVtxos return.
Returned(j) ==
  /\ j \in jobs /\ j.stage = "saved" /\ j.why \in {"refresh", "list"}
  /\ Advanced(j) /\ Finish(j, {})
  /\ UNCHANGED <<server, stored, cache, life, link, watcher, polls, updates, calls, happened, lost>>

\* A request, or a save, fails: what follows does not happen.
JobFails(j) ==
  /\ j \in jobs /\ j.stage = "fetching" /\ MayLose /\ Finish(j, {})
  /\ life' = IF j.why \in {"init", "frontier"} THEN "off" ELSE life
  /\ calls' = IF j.why = "create" THEN [s \in Scripts |-> IF s \in j.scripts THEN None ELSE calls[s]]
              ELSE calls
  /\ UNCHANGED <<server, repo, link, watcher, polls, updates, happened>>

----------------------------------------------------------------------------
(* The subscription. *)

Connect == "connect"
ToWatch(h, k) == {s \in Scripts : h[s] = "active" \/ (h[s] # None /\ k[s] # {})}
InUse == {subId, loopId} \cup {u.got : u \in updates}

\* A request to the indexer, which creates a subscription or adds to one.  An id that
\* nobody holds any more will do for a new one.
Subscribe(by, want, id, again, others) ==
  LET Update(got) == updates' = others \cup {[by |-> by, want |-> want, got |-> got, again |-> again]}
      free == Ids \ InUse
  IN \/ id = None /\ free # {} /\ UNCHANGED lost
        /\ LET i == CHOOSE i \in free : TRUE IN subs' = [subs EXCEPT ![i] = want] /\ Update(i)
     \/ id # None /\ subs[id] # {} /\ subs' = [subs EXCEPT ![id] = @ \cup want] /\ Update(id)
        /\ UNCHANGED lost
     \/ id # None /\ subs[id] = {} /\ Update("stale") /\ UNCHANGED <<subs, lost>>
     \/ MayLose /\ Update("failed") /\ UNCHANGED subs

\* updateSubscription, up to its first await.
UpdateSubscription(by, want) ==
  IF want # {} THEN Subscribe(by, want, subId, FALSE, updates)
  ELSE /\ subs' = IF subId = None THEN subs ELSE [subs EXCEPT ![subId] = {}]
       /\ updates' = updates \cup {[by |-> by, want |-> {}, got |-> None, again |-> FALSE]}
       /\ UNCHANGED lost

\* What reads after an await of updateSubscription: the connection, or a call.
PollRead(by, scripts) ==
  [by |-> by, scripts |-> scripts,
   read |-> [s \in scripts |-> {v \in Vtxos : cache[s][v] = "unspent"}]]

\* listenLoop begins: on the subscription of now.
Listen ==
  /\ phase' = IF ~IsWatching THEN "off" ELSE IF subId' = None THEN "waiting" ELSE "listening"
  /\ loopId' = IF phase' = "listening" THEN subId' ELSE None
  /\ wire' = <<>>
  /\ life' = IF life = "starting" THEN "watching" ELSE life

\* A connection that fails is reported, and tried again later.
ResetJobs == IF HasCallback THEN {Job("connection_reset", Active, {})} ELSE {}

Reset ==
  /\ jobs' = jobs \cup ResetJobs
  /\ phase' = IF IsWatching THEN "waiting" ELSE "off"
  /\ loopId' = None /\ wire' = <<>>
  /\ life' = IF life = "starting" THEN "watching" ELSE life

Subscribed(u) == /\ u \in updates /\ (u.got \in Ids \/ u.want = {}) /\ subId' = u.got
                 /\ updates' = updates \ {u}

\* connect: the contracts are polled, then the loop listens.
Connected(u) ==
  /\ u.by = Connect /\ Subscribed(u)
  /\ IF HasCallback /\ Active # {}
     THEN /\ polls' = polls \cup {PollRead(Connect, Active)} /\ phase' = "polling"
          /\ UNCHANGED <<loopId, wire, life>>
     ELSE Listen /\ UNCHANGED polls
  /\ UNCHANGED <<server, repo, watcher, jobs, calls, happened, lost>>

CallSubscribed(u) ==
  /\ u.by \in Scripts /\ Subscribed(u) /\ calls' = [calls EXCEPT ![u.by] = None]
  /\ UNCHANGED <<server, repo, life, phase, loopId, wire, watcher, jobs, polls, happened, lost>>

\* Fault: a subscription the indexer has forgotten is asked for again and again.
StaleIdKept(u) ==
  /\ u \in updates /\ u.got = "stale" /\ ~u.again /\ subId # None
  /\ Subscribe(u.by, u.want, subId, TRUE, updates \ {u})
  /\ UNCHANGED <<ledger, repo, life, link, watcher, jobs, polls, calls, happened>>

\* A stale id is dropped for a new subscription, once.
StaleId(u) ==
  /\ u \in updates /\ u.got = "stale" /\ ~u.again /\ subId # None
  /\ subId' = None /\ Subscribe(u.by, u.want, None, TRUE, updates \ {u})
  /\ UNCHANGED <<ledger, repo, life, phase, loopId, wire, watcher, jobs, polls, calls, happened>>

UpdateFailed(u) == /\ u \in updates /\ updates' = updates \ {u}
                   /\ u.got = "failed" \/ (u.got = "stale" /\ (u.again \/ subId = None))

ConnectFailed(u) ==
  /\ u.by = Connect /\ UpdateFailed(u) /\ Reset
  /\ UNCHANGED <<server, repo, subId, watcher, polls, calls, happened, lost>>

\* tryUpdateSubscription: nothing, the connection will be retried later.
CallNotSubscribed(u) ==
  /\ u.by \in Scripts /\ UpdateFailed(u) /\ calls' = [calls EXCEPT ![u.by] = None]
  /\ UNCHANGED <<server, repo, life, link, watcher, jobs, polls, happened, lost>>

\* connect(), when the timer of scheduleReconnect fires.
Reconnect ==
  /\ phase = "waiting" /\ IsWatching /\ phase' = "subscribing"
  /\ UpdateSubscription(Connect, ToWatch(held, known))
  /\ UNCHANGED <<ledger, repo, life, subId, loopId, wire, watcher, jobs, polls, calls, happened>>

\* A stream breaks, or the indexer has no subscription for it.
Closed == phase = "listening" /\ subs[loopId] = {}
MayEnd == IF Closed THEN UNCHANGED lost ELSE phase = "listening" /\ MayLose

\* The stream ends with an error, which is reported, or without.
StreamFails ==
  /\ MayEnd
  /\ Reset
  /\ UNCHANGED <<server, repo, subId, watcher, polls, updates, calls, happened>>

StreamEnds ==
  /\ MayEnd
  /\ phase' = "waiting" /\ loopId' = None /\ wire' = <<>>
  /\ UNCHANGED <<server, repo, life, subId, watcher, jobs, polls, updates, calls, happened>>

----------------------------------------------------------------------------
(* Events. *)

\* emitVtxoEvent: contracts whose time has come are found on the way.
Emit(events) ==
  IF events = {} \/ ~HasCallback THEN UNCHANGED <<jobs, held>>
  ELSE \E S \in SUBSET (Expiring \cap Active) :
         /\ held' = [s \in Scripts |-> IF s \in S THEN "inactive" ELSE held[s]]
         /\ jobs' = jobs \cup {Job(e.type, {e.script}, e.vtxos) : e \in events}
                         \cup {Job("contract_expired", {s}, {}) : s \in S}

Changes(type, change) ==
  {Event(type, s, change[s]) : s \in {s \in DOMAIN change : held[s] # None /\ change[s] # {}}}

\* handleSubscriptionUpdate: the VTXOs are taken for those of each script told.
HandleSubscriptionUpdate ==
  /\ phase = "listening" /\ wire # <<>> /\ wire' = Tail(wire)
  /\ LET u == Head(wire)
     IN /\ known' = [s \in Scripts |-> IF s \in u.scripts /\ held[s] # None
                                       THEN (known[s] \cup u.new) \ u.spent ELSE known[s]]
        /\ Emit(Changes("vtxo_received", [s \in u.scripts |-> u.new])
                \cup Changes("vtxo_spent", [s \in u.scripts |-> u.spent]))
  /\ UNCHANGED <<server, repo, life, phase, subId, loopId, polls, updates, calls, happened, lost>>

\* Fault: what is missing from the repository stays known.
PollSeesNewOnly(p) ==
  LET new == [s \in p.scripts |-> p.read[s] \ known[s]]
  IN /\ known' = [s \in Scripts |-> IF s \in p.scripts /\ held[s] # None
                                    THEN known[s] \cup p.read[s] ELSE known[s]]
     /\ Emit(Changes("vtxo_received", new))

\* pollContracts, after its reads: what it read against what is known by now.
PollContracts(p) ==
  LET new == [s \in p.scripts |-> p.read[s] \ known[s]]
      gone == [s \in p.scripts |-> known[s] \ p.read[s]]
  IN /\ known' = [s \in Scripts |-> IF s \in p.scripts /\ held[s] # None THEN p.read[s] ELSE known[s]]
     /\ Emit(Changes("vtxo_received", new) \cup Changes("vtxo_spent", gone))

FailsafePoll ==
  /\ life = "watching" /\ Active # {} /\ \A p \in polls : p.by # "timer"
  /\ polls' = polls \cup {PollRead("timer", Active)}
  /\ UNCHANGED <<server, repo, life, link, watcher, jobs, updates, calls, happened, lost>>

TimerPolled(p) ==
  /\ p \in polls /\ p.by = "timer" /\ polls' = polls \ {p} /\ PollContracts(p)
  /\ UNCHANGED <<server, repo, life, link, updates, calls, happened, lost>>

ConnectPolled(p) ==
  /\ p \in polls /\ p.by = Connect /\ polls' = polls \ {p} /\ PollContracts(p)
  /\ UNCHANGED subId /\ Listen
  /\ UNCHANGED <<server, repo, updates, calls, happened, lost>>

\* addContract goes on with the subscription.
AddPolled(p) ==
  /\ p \in polls /\ p.by \in Scripts /\ polls' = polls \ {p} /\ PollContracts(p)
  /\ UpdateSubscription(p.by, ToWatch(held', known'))
  /\ UNCHANGED <<ledger, repo, life, link, calls, happened>>

----------------------------------------------------------------------------
(* The manager: create(), calls of the program, dispose(). *)

Create ==
  /\ life = "off" /\ life' = "loading" /\ jobs' = jobs \cup {Job("init", Contracts, {})}
  /\ UNCHANGED <<server, repo, link, watcher, polls, updates, calls, happened, lost>>

\* initialize: the delta synchronisation, then the pending frontier.
InitSynced(j) ==
  /\ j \in jobs /\ j.stage = "saved" /\ j.why = "init"
  /\ Advanced(j) /\ Finish(j, {Job("frontier", j.scripts, {})})
  /\ UNCHANGED <<server, stored, cache, life, link, watcher, polls, updates, calls, happened, lost>>

\* The contracts are handed to the watcher, the expired ones as inactive, and it
\* connects.
Initialized(j) ==
  /\ j \in jobs /\ j.stage = "saved" /\ j.why = "frontier" /\ Finish(j, {})
  /\ \E S \in SUBSET {s \in Expiring \cap j.scripts : stored[s] = "active"} :
       /\ stored' = [s \in Scripts |-> IF s \in S THEN "inactive" ELSE stored[s]]
       /\ held' = [s \in Scripts |-> IF s \in j.scripts THEN stored'[s] ELSE None]
  /\ life' = "starting" /\ phase' = "subscribing"
  /\ UpdateSubscription(Connect, ToWatch(held', known))
  /\ UNCHANGED <<ledger, cache, cursor, fresh, subId, loopId, wire, known, polls, calls, happened>>

MayCall == life = "watching" /\ Happens
Calling(s, op) == calls[s] = None /\ calls' = [calls EXCEPT ![s] = op]

CreateContract(s) ==
  /\ MayCall /\ Calling(s, "create") /\ stored[s] = None
  /\ stored' = [stored EXCEPT ![s] = "active"] /\ jobs' = jobs \cup {Job("create", {s}, {})}
  /\ UNCHANGED <<server, cache, cursor, fresh, life, link, watcher, polls, updates, lost>>

\* The cursor is advanced, the watcher gets the contract and polls it.
AddContract(j) ==
  /\ j \in jobs /\ j.stage = "saved" /\ j.why = "create" /\ Advanced(j) /\ Finish(j, {})
  /\ held' = [s \in Scripts |-> IF s \in j.scripts THEN "active" ELSE held[s]]
  /\ known' = [s \in Scripts |-> IF s \in j.scripts THEN {} ELSE known[s]]
  /\ LET by == CHOOSE s \in j.scripts : TRUE
     IN IF IsWatching THEN polls' = polls \cup {PollRead(by, j.scripts)} /\ UNCHANGED calls
        ELSE calls' = [calls EXCEPT ![by] = None] /\ UNCHANGED polls
  /\ UNCHANGED <<server, stored, cache, life, link, updates, happened, lost>>

SetContractState(s, to) ==
  /\ MayCall /\ Calling(s, to) /\ stored[s] # None /\ stored' = [stored EXCEPT ![s] = to]
  /\ UNCHANGED <<server, cache, cursor, fresh, life, link, watcher, jobs, polls, updates, lost>>

DeleteContract(s) ==
  /\ MayCall /\ Calling(s, "delete") /\ stored' = [stored EXCEPT ![s] = None]
  /\ UNCHANGED <<server, cache, cursor, fresh, life, link, watcher, jobs, polls, updates, lost>>

\* The watcher's half of both: nothing, or an error, for a contract it does not hold.
UpdateContract(s) ==
  /\ calls[s] \in {"active", "inactive", "delete"}
  /\ held' = [held EXCEPT ![s] = IF @ = None \/ calls[s] = "delete" THEN None ELSE calls[s]]
  /\ known' = IF calls[s] = "delete" THEN [known EXCEPT ![s] = {}] ELSE known
  /\ IF held[s] # None /\ IsWatching
     THEN UpdateSubscription(s, ToWatch(held', known')) /\ calls' = [calls EXCEPT ![s] = "subscribe"]
     ELSE calls' = [calls EXCEPT ![s] = None] /\ UNCHANGED <<subs, updates, lost>>
  /\ UNCHANGED <<ledger, repo, life, link, jobs, polls, happened>>

\* refreshVtxos of all contracts, of some, or of a time window.
RefreshVtxos(S) ==
  /\ MayCall /\ jobs' = jobs \cup {Job("refresh", S \cap Contracts, {})}
  /\ cursor' = cursor \ S /\ fresh' = fresh \cup {v \in Vtxos : Of[v] \in S}
  /\ UNCHANGED <<server, stored, cache, life, link, watcher, polls, updates, calls, lost>>

\* getContractsWithVtxos.
GetContractsWithVtxos ==
  /\ MayCall /\ Contracts # {} /\ jobs' = jobs \cup {Job("list", Contracts, {})}
  /\ UNCHANGED <<server, repo, life, link, watcher, polls, updates, calls, lost>>

\* getVtxos of the wallet, one request at a time.
SyncVtxos ==
  /\ Happens /\ \A j \in jobs : j.why # "wallet"
  /\ jobs' = jobs \cup {Job("wallet", {Mine} \cup (IF life \in {"off", "loading"} THEN {}
                                                   ELSE WalletScripts \cap Contracts), {})}
  /\ UNCHANGED <<server, repo, life, link, watcher, polls, updates, calls, lost>>

\* dispose: the loop and the timers end, the subscription is given up.
Dispose ==
  /\ MayCall /\ life' = IF subId = None THEN "stopped" ELSE "stopping"
  /\ phase' = IF phase \in {"listening", "waiting"} THEN "off" ELSE phase
  /\ loopId' = None /\ wire' = <<>>
  /\ subs' = IF subId = None THEN subs ELSE [subs EXCEPT ![subId] = {}]
  /\ UNCHANGED <<ledger, repo, subId, watcher, jobs, polls, updates, calls, lost>>

Stopped ==
  /\ life = "stopping" /\ life' = "stopped" /\ subId' = None
  /\ UNCHANGED <<server, repo, phase, loopId, wire, watcher, jobs, polls, updates, calls,
                 happened, lost>>

----------------------------------------------------------------------------

World == \/ \E ins, outs \in SUBSET Vtxos : Transact(ins, outs)
         \/ \E i \in Ids : Forget(i)
         \/ \E j \in jobs : JobFails(j)

Program == \/ Create \/ SyncVtxos \/ GetContractsWithVtxos \/ Dispose
           \/ \E S \in SUBSET Scripts : RefreshVtxos(S)
           \/ \E s \in Scripts : \/ CreateContract(s) \/ DeleteContract(s)
                                 \/ \E to \in {"active", "inactive"} : SetContractState(s, to)

JobStep == \E j \in jobs :
  \/ SaveVtxos(j) \/ HandledContractEvent(j) \/ ContractExpired(j)
  \/ WalletSynced(j) \/ Returned(j) \/ InitSynced(j) \/ Initialized(j) \/ AddContract(j)

\* Who updates the subscription or polls.
Callers == {Connect, "timer"} \cup Scripts

UpdateStep(b) == \E u \in {u \in updates : u.by = b} :
  \/ Connected(u) \/ CallSubscribed(u) \/ StaleId(u) \/ ConnectFailed(u) \/ CallNotSubscribed(u)

PollStep(b) == \E p \in {p \in polls : p.by = b} : TimerPolled(p) \/ ConnectPolled(p) \/ AddPolled(p)

StreamStep == HandleSubscriptionUpdate \/ StreamFails \/ StreamEnds

CallStep == \E s \in Scripts : UpdateContract(s)

Next == World \/ Program \/ JobStep \/ (\E b \in Callers : UpdateStep(b) \/ PollStep(b))
        \/ StreamStep \/ CallStep \/ FailsafePoll \/ Reconnect \/ Stopped

Spec == Init /\ [][Next]_vars

\* Timers fire and requests are answered; the network's faults need not happen,
\* but a stream the indexer has closed ends.
Fairness ==
  /\ WF_vars(JobStep) /\ WF_vars(CallStep)
  /\ \A b \in Callers : WF_vars(UpdateStep(b)) /\ WF_vars(PollStep(b))
  /\ WF_vars(HandleSubscriptionUpdate) /\ WF_vars(Closed /\ (StreamFails \/ StreamEnds))
  /\ WF_vars(FailsafePoll) /\ WF_vars(Reconnect) /\ WF_vars(Stopped)

FairSpec == Spec /\ Fairness

----------------------------------------------------------------------------

Why == {"init", "frontier", "create", "refresh", "list", "wallet", "vtxo_received",
        "vtxo_spent", "connection_reset", "contract_expired"}

\* Every variable has its type; a connection that listens has a subscription, and
\* one that connects or polls has the request or the poll that will go on.
TypeOK ==
  /\ ledger \in [Vtxos -> State] /\ subs \in [Ids -> SUBSET Scripts]
  /\ stored \in [Scripts -> {None, "active", "inactive"}]
  /\ cache \in [Scripts -> [Vtxos -> State]]
  /\ cursor \subseteq Scripts /\ fresh \subseteq Vtxos
  /\ life \in {"off", "loading", "starting", "watching", "stopping", "stopped"}
  /\ phase \in {"off", "subscribing", "polling", "listening", "waiting"}
  /\ subId \in Ids \cup {None} /\ (phase = "listening" => loopId \in Ids)
  /\ held \in [Scripts -> {None, "active", "inactive"}]
  /\ known \in [Scripts -> SUBSET Vtxos]
  /\ \A j \in jobs : j.why \in Why /\ j.scripts \subseteq Scripts
  /\ phase = "subscribing" <=> \E u \in updates : u.by = Connect
  /\ phase = "polling" <=> \E p \in polls : p.by = Connect
  /\ IsWatching => phase # "off"

\* The cursor never passes a change the repository does not have: whatever is
\* stored otherwise than at the indexer is what the next delta query asks for,
\* with requests side by side, saves that fail and answers saved late.
CursorCovers ==
  \A v \in Vtxos : Of[v] \in cursor /\ cache[Of[v]][v] # ledger[v] => v \in fresh

\* Requests that come to their end in a step, without an error.
Ended(why) == {j \in jobs \ jobs' : j.why = why /\ lost' = lost /\ \A k \in jobs' \ jobs : k.why # why}

\* A listener told of a VTXO finds it in the repository.
NotifiedIsCached ==
  [][\A j \in Ended("vtxo_received") : \A v \in j.about :
       Of[v] \in j.scripts => cache'[Of[v]][v] # None]_vars

\* Whatever fails, and whichever answers come late: when nothing changes any
\* more, the watcher comes to know of an active contract what the repository has.
Unspent(s) == {v \in Vtxos : cache[s][v] = "unspent"}
WatcherAgrees ==
  <>[](life = "watching" => \A s \in Active : known[s] = Unspent(s))

\* A watcher with an active contract comes to listen, again and again, through
\* lost streams, failed updates and subscriptions the indexer has forgotten.
ListensAgain ==
  (life = "watching" /\ Active # {}) ~> (phase = "listening" \/ life # "watching" \/ Active = {})

==============================================================================
