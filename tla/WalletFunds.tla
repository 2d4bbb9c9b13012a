----------------------------- MODULE WalletFunds -----------------------------
(* The funds of a wallet (ts-sdk wallet/wallet.ts): the calls that spend     *)
(* VTXOs, the lock they queue for, the synchronisation of the cached VTXOs    *)
(* with the server, the flag that marks a submitted transaction, and the      *)
(* recovery of interrupted transactions when the wallet is initialized.       *)
(*                                                                            *)
(* A VTXO is known by its state, or as spent; amounts, assets and fees decide *)
(* only which VTXOs a call picks, and any choice is allowed.  An offchain     *)
(* transaction or a settlement turns its inputs into one output.              *)
EXTENDS Naturals, FiniteSets, Sequences

CONSTANTS Coins,       \* the outpoints that can come to exist
          Calls,       \* the calls of the program, each made once
          Boot,        \* the recovery of an initialization
          Kinds,       \* the kinds the calls can be of
          Leaves,      \* VTXOs of settled batches the wallet starts with
          MaxCrashes,  \* restarts of the program
          MaxLost,     \* requests that fail, or are done and fail to answer
          MaxStarts    \* initializations of the wallet

ASSUME FundsAssumption ==
  /\ Boot \notin Calls
  /\ Leaves \subseteq Coins
  /\ Kinds \subseteq [Calls -> {"send", "settle", "renew", "asset", "read", "clear"}]
  /\ {MaxCrashes, MaxLost, MaxStarts} \subseteq Nat

VARIABLES
  ledger,   \* what the server knows of each VTXO
  txs,      \* transactions submitted and not finalized
  cache,    \* what the wallet's repository holds of each VTXO
  flag,     \* hasPendingTx, in the stored wallet state
  cursor,   \* whether the stored wallet state has a cursor
  fresh,    \* VTXOs changed since the cursor: what a delta query returns
  sync,     \* the synchronisation under way
  job,      \* the calls under way
  queue,    \* the calls that hold or wait for the lock
  starts,   \* restarts of the program, initializations of the wallet
  lost      \* requests lost

vars == <<ledger, txs, cache, flag, cursor, fresh, sync, job, queue, starts, lost>>
server == <<ledger, txs>>
stored == <<cache, flag, cursor>>

State == {"none", "preconfirmed", "settled", "swept", "spent"}
Unspent == {"preconfirmed", "settled", "swept"}
Kind == {"send", "settle", "renew", "asset", "read", "clear", "boot"}
Stage == {"idle", "queued", "syncing", "picking", "building", "submitting",
          "finalizing", "unflagging", "joining", "booking", "asking", "finishing",
          "ended"}
Tx == [ins : SUBSET Coins, out : Coins, by : Calls, overtaken : BOOLEAN]

NoSync == [phase |-> "none"]
Blank(k, stage) == [kind |-> k, stage |-> stage, picked |-> {}, out |-> {}, own |-> FALSE,
                    read |-> {}, delta |-> TRUE, beside |-> FALSE]
Idle(k) == Blank(k, "idle")
Ended(k) == Blank(k, "ended")

Init ==
  /\ ledger \in {[c \in Coins |-> IF c \in Leaves THEN "settled" ELSE "none"]}
  /\ txs = {} /\ flag = FALSE
  /\ cache = [c \in Coins |-> "none"] /\ cursor = FALSE /\ fresh = Coins
  /\ sync = NoSync
  /\ \E kind \in Kinds :
       job = [i \in Calls \cup {Boot} |-> Idle(IF i = Boot THEN "boot" ELSE kind[i])]
  /\ queue = <<>> /\ starts = [program |-> 0, wallet |-> 0] /\ lost = 0

Locked == UNION {t.ins : t \in txs}
Running(i) == job[i].stage \notin {"idle", "ended"}
LocksFirst(i) == job[i].kind \in {"send", "settle"}
To(i, s) == job' = [job EXCEPT ![i].stage = s]

----------------------------------------------------------------------------
(* The lock.  A call waits for the end of the one before it; finally ends it. *)

\* Fault: the call before is not waited for.
HoldsLockUnasked(i) == TRUE

\* Fault: a call that ends keeps the lock.
ReleaseForgotten(i) == UNCHANGED queue

HoldsLock(i) == queue # <<>> /\ Head(queue) = i
Enters(i) == queue' = Append(queue, i)
Release(i) == queue' = IF queue # <<>> /\ Head(queue) = i THEN Tail(queue) ELSE queue

\* A call that throws, or returns: the lock is released in both cases.
Ends(i) == /\ job' = [job EXCEPT ![i] = Ended(@.kind)]
           /\ Release(i)

----------------------------------------------------------------------------
(* What changes at the server. *)

Changed(S) ==
  /\ fresh' = fresh \cup S
  /\ sync' = IF sync = NoSync THEN NoSync ELSE [sync EXCEPT !.since = @ \cup S]

Receive(c) ==
  /\ ledger[c] = "none" /\ \A t \in txs : t.out # c
  /\ ledger' = [ledger EXCEPT ![c] = "preconfirmed"] /\ Changed({c})
  /\ UNCHANGED <<txs, stored, job, queue, starts, lost>>

\* A batch expires weeks after it: of the VTXOs here, those of the start.
Sweep(c) ==
  /\ c \in Leaves /\ ledger[c] = "settled" /\ c \notin Locked
  /\ ledger' = [ledger EXCEPT ![c] = "swept"] /\ Changed({c})
  /\ UNCHANGED <<txs, stored, job, queue, starts, lost>>

\* Inputs turned into an output.
Spent(S, out, st) ==
  ledger' = [c \in Coins |-> IF c \in S THEN "spent" ELSE IF c = out THEN st ELSE ledger[c]]

----------------------------------------------------------------------------
(* Synchronisation.  One at a time: whoever asks during one gets its result. *)

StartSync(waiters) ==
  sync' = [phase |-> "fetching", bootstrap |-> ~cursor, answer |-> <<>>, since |-> {},
           waiters |-> waiters]

Awaits(i) ==
  IF sync = NoSync THEN StartSync({i}) ELSE sync' = [sync EXCEPT !.waiters = @ \cup {i}]

\* A call of getVtxos, alone or for a call that spends.  own: a call that has the
\* lock begins one of its own.
Joins(i) ==
  /\ Awaits(i)
  /\ job' = [job EXCEPT ![i].stage = "syncing", ![i].own = LocksFirst(i) /\ sync = NoSync]

\* The query is answered: everything, or what has changed since the cursor.
Fetch ==
  /\ sync.phase = "fetching"
  /\ sync' = [sync EXCEPT !.phase = "saving",
                !.answer = [c \in IF sync.bootstrap THEN Coins ELSE fresh |-> ledger[c]]]
  /\ UNCHANGED <<server, stored, fresh, job, queue, starts, lost>>

SaveFetched ==
  /\ sync.phase = "saving"
  /\ cache' = [c \in Coins |-> IF c \in DOMAIN sync.answer /\ sync.answer[c] # "none"
                               THEN sync.answer[c] ELSE cache[c]]
  /\ sync' = [sync EXCEPT !.phase = "advancing"]
  /\ UNCHANGED <<server, flag, cursor, fresh, job, queue, starts, lost>>

\* The synchronisation is over: a first one answers with what it fetched, a
\* delta lets its callers read the cache.
Answered(read, delta) ==
  /\ sync' = NoSync
  /\ job' = [i \in DOMAIN job |->
               IF i \in sync.waiters
               THEN [job[i] EXCEPT !.stage = "picking", !.read = read, !.delta = delta]
               ELSE job[i]]

\* Fault: the cursor moves to the time it is stored.
CutoffFreshLate == {}

\* The cursor moves to the start of the request: what changed since is fresh.
CutoffFresh == sync.since

AdvanceCursors ==
  /\ sync.phase = "advancing"
  /\ cursor' = TRUE /\ fresh' = CutoffFresh
  /\ IF sync.bootstrap
     THEN Answered({<<c, sync.answer[c]>> : c \in DOMAIN sync.answer}, FALSE)
     ELSE sync' = [sync EXCEPT !.phase = "reconciling", !.answer = <<>>] /\ UNCHANGED job
  /\ UNCHANGED <<server, cache, flag, queue, starts, lost>>

\* Everything is asked for again: VTXOs cached as unspent whose state is another
\* in this answer are replaced.  Being spent is no such state, and changes
\* nothing.  Query, reading and writing are one step here.
Reconcile ==
  /\ sync.phase = "reconciling"
  /\ cache' = [c \in Coins |-> IF cache[c] \in Unspent /\ ledger[c] \in Unspent
                               THEN ledger[c] ELSE cache[c]]
  /\ Answered({}, TRUE)
  /\ UNCHANGED <<server, flag, cursor, fresh, queue, starts, lost>>

\* A query fails: everyone who waits fails.
SyncFails ==
  /\ sync.phase \in {"fetching", "reconciling"} /\ lost < MaxLost
  /\ sync' = NoSync /\ lost' = lost + 1
  /\ job' = [i \in DOMAIN job |-> IF i \in sync.waiters
                                  THEN Ended(job[i].kind)
                                  ELSE job[i]]
  /\ queue' = IF queue # <<>> /\ Head(queue) \in sync.waiters THEN Tail(queue) ELSE queue
  /\ UNCHANGED <<server, stored, fresh, starts>>

ClearSyncCursors(i) ==
  /\ i \in Calls /\ job[i].stage = "idle" /\ job[i].kind = "clear"
  /\ cursor' = FALSE /\ Ends(i)
  /\ UNCHANGED <<server, cache, flag, fresh, sync, starts, lost>>

----------------------------------------------------------------------------
(* A call: send and settle take the lock first, a renewal picks before it     *)
(* does, an asset operation never does; a read ends with what it gets.        *)

\* beside: a recovery is under way, or begins before the call ends.
Begin(i) ==
  /\ i \in Calls /\ job[i].stage = "idle" /\ job[i].kind # "clear"
  /\ IF LocksFirst(i)
     THEN /\ Enters(i) /\ UNCHANGED sync
          /\ job' = [job EXCEPT ![i].stage = "queued", ![i].beside = Running(Boot)]
     ELSE Joins(i) /\ UNCHANGED queue
  /\ UNCHANGED <<server, stored, fresh, starts, lost>>

Acquire(i) ==
  /\ job[i].stage = "queued" /\ HoldsLock(i)
  /\ IF LocksFirst(i) THEN Joins(i) ELSE To(i, "joining") /\ UNCHANGED sync
  /\ UNCHANGED <<server, stored, fresh, queue, starts, lost>>

\* What the answer of getVtxos offers to the call.
Offered(i) ==
  LET view == IF job[i].delta THEN {<<c, cache[c]>> : c \in Coins} ELSE job[i].read
      good == CASE job[i].kind \in {"send", "asset"} -> {"preconfirmed", "settled"}
                [] OTHER -> Unspent
  IN {c \in Coins : \E s \in good : <<c, s>> \in view}

Picks(i, S, next) ==
  /\ job[i].stage = "picking"
  /\ job' = [job EXCEPT ![i].stage = next, ![i].picked = S, ![i].read = {}, ![i].delta = TRUE]
  /\ UNCHANGED <<server, stored, fresh, sync, starts, lost>>

\* Enough VTXOs for the amounts and the assets, those that expire first.
PickSend(i) ==
  /\ job[i].kind = "send" /\ UNCHANGED queue
  /\ \E S \in SUBSET Offered(i) \ {{}} : Picks(i, S, "building")

\* An issuance, a reissuance or a burn picks alike, without the lock.
PickAsset(i) ==
  /\ job[i].kind = "asset" /\ UNCHANGED queue
  /\ \E S \in SUBSET Offered(i) \ {{}} : Picks(i, S, "building")

\* A settlement without parameters takes everything, boarding outputs aside.
PickSettle(i) ==
  /\ job[i].kind = "settle" /\ UNCHANGED queue
  /\ Offered(i) # {} /\ Picks(i, Offered(i), "joining")

\* A renewal or a recovery takes what expires, or was swept, and then settles it.
PickRenewal(i) ==
  /\ job[i].kind = "renew" /\ Enters(i)
  /\ \E S \in SUBSET Offered(i) \ {{}} : Picks(i, S, "queued")

\* Not enough funds, nothing to renew; a balance or a history is read.
PickNothing(i) ==
  /\ job[i].stage = "picking" /\ i \in Calls /\ Ends(i)
  /\ Offered(i) = {} \/ job[i].kind = "read"
  /\ UNCHANGED <<server, stored, fresh, sync, starts, lost>>

\* The transaction is built and signed; the flag is stored before it is sent.
SetPendingTxFlag(i) ==
  /\ job[i].stage = "building" /\ flag' = TRUE /\ To(i, "submitting")
  /\ UNCHANGED <<server, cache, cursor, fresh, sync, queue, starts, lost>>

CanSpend(S) == \A c \in S : ledger[c] \in {"preconfirmed", "settled"} /\ c \notin Locked
Outputs == {c \in Coins : ledger[c] = "none" /\ \A t \in txs : t.out # c}

\* The server takes the transaction; its answer may be lost.  overtaken: others may
\* have cleared the flag.
SubmitTx(i) ==
  /\ job[i].stage = "submitting" /\ CanSpend(job[i].picked)
  /\ \E c \in Outputs :
       /\ txs' = txs \cup {[ins |-> job[i].picked, out |-> c, by |-> i,
                         overtaken |-> job[i].beside]}
       /\ \/ /\ job' = [job EXCEPT ![i].stage = "finalizing", ![i].out = {c}]
             /\ UNCHANGED <<queue, lost>>
          \/ lost < MaxLost /\ lost' = lost + 1 /\ Ends(i)
  /\ UNCHANGED <<ledger, stored, fresh, sync, starts>>

\* It refuses it, as it does when the model has no outpoint left.
SubmitRefused(i) ==
  /\ job[i].stage = "submitting" /\ (~CanSpend(job[i].picked) \/ Outputs = {}) /\ Ends(i)
  /\ UNCHANGED <<server, stored, fresh, sync, starts, lost>>

\* The finalized transaction spends its inputs.
Finalized(t) == /\ txs' = txs \ {t} /\ Spent(t.ins, t.out, "preconfirmed")
                /\ Changed(t.ins \cup {t.out})

FinalizeTx(i) ==
  /\ job[i].stage = "finalizing"
  /\ \E t \in txs : t.by = i /\ Finalized(t)
  /\ \/ To(i, "unflagging") /\ UNCHANGED <<queue, lost>>
     \/ lost < MaxLost /\ lost' = lost + 1 /\ Ends(i)
  /\ UNCHANGED <<stored, starts>>

\* A recovery has finalized it: the server says so, or refuses.
FinalizeAgain(i) ==
  /\ job[i].stage = "finalizing" /\ \A t \in txs : t.by # i
  /\ (To(i, "unflagging") /\ UNCHANGED queue) \/ Ends(i)
  /\ UNCHANGED <<server, stored, fresh, sync, starts, lost>>

FinalizeFails(i) ==
  /\ job[i].stage = "finalizing" /\ lost < MaxLost /\ lost' = lost + 1 /\ Ends(i)
  /\ UNCHANGED <<server, stored, fresh, sync, starts>>

\* The flag is cleared whatever else is pending.
ClearPendingTxFlag(i) ==
  /\ job[i].stage = "unflagging" /\ flag' = FALSE
  /\ txs' = {[t EXCEPT !.overtaken = TRUE] : t \in txs}
  /\ IF job[i].kind = "send" THEN To(i, "booking") /\ UNCHANGED queue ELSE Ends(i)
  /\ UNCHANGED <<ledger, cache, cursor, fresh, sync, starts, lost>>

\* The batch of a settlement or a renewal, see BatchSession: it settles, or fails.
JoinBatch(i) ==
  /\ job[i].stage = "joining"
  /\ \/ /\ \A c \in job[i].picked : ledger[c] \in Unspent /\ c \notin Locked
        /\ \E c \in Outputs : /\ Spent(job[i].picked, c, "settled")
                              /\ Changed(job[i].picked \cup {c})
        /\ To(i, "booking") /\ UNCHANGED queue
     \/ Ends(i) /\ UNCHANGED <<ledger, fresh, sync>>
  /\ UNCHANGED <<txs, stored, starts, lost>>

\* Errors of the repository are only logged.
Books(i, S, change) ==
  /\ job[i].stage = "booking" /\ Ends(i)
  /\ \/ cache' = [c \in Coins |-> IF c \in S THEN "spent"
                                  ELSE IF c \in change THEN "preconfirmed" ELSE cache[c]]
     \/ UNCHANGED cache
  /\ UNCHANGED <<server, flag, cursor, fresh, sync, starts, lost>>

\* The inputs are marked as spent and the change is added, if there is one.
UpdateDbAfterOffchainTx(i) ==
  job[i].kind = "send" /\ \E change \in {{}, job[i].out} : Books(i, job[i].picked, change)

UpdateDbAfterSettle(i) == job[i].kind \in {"settle", "renew"} /\ Books(i, job[i].picked, {})

----------------------------------------------------------------------------
(* Recovery, at every initialization: no call waits for it, nor it for the    *)
(* lock.  One runs at a time.                                                 *)

Spending == {i \in Calls : LocksFirst(i) /\ Running(i)}

\* The wallet has been set up: the cache is refreshed first.
StartRecovery ==
  /\ ~Running(Boot) /\ starts.wallet < MaxStarts
  /\ starts' = [starts EXCEPT !.wallet = @ + 1]
  /\ Awaits(Boot)
  /\ job' = [i \in DOMAIN job |-> IF i = Boot THEN Blank("boot", "syncing")
                                  ELSE [job[i] EXCEPT !.beside = i \in Spending]]
  /\ txs' = {[t EXCEPT !.overtaken = @ \/ t.by \in Spending] : t \in txs}
  /\ UNCHANGED <<ledger, stored, fresh, queue, lost>>

\* The VTXOs the server is asked about: neither swept nor settled, from the
\* cache, and from the server when the cache has none.
AskedAbout ==
  LET mine == {c \in Coins : cache[c] = "preconfirmed"}
  IN IF mine # {} THEN mine ELSE {c \in Coins : ledger[c] = "preconfirmed"}

HasPendingTx ==
  /\ job[Boot].stage = "picking"
  /\ IF flag /\ AskedAbout # {}
     THEN job' = [job EXCEPT ![Boot].stage = "asking", ![Boot].picked = AskedAbout,
                             ![Boot].read = {}, ![Boot].delta = TRUE] /\ UNCHANGED queue
     ELSE Ends(Boot)
  /\ UNCHANGED <<server, stored, fresh, sync, starts, lost>>

\* own: no finalization has failed; picked: the transactions still to finalize,
\* by their outputs.
GetPendingTxs ==
  /\ job[Boot].stage = "asking"
  /\ \/ /\ job' = [job EXCEPT ![Boot].stage = "finishing", ![Boot].own = TRUE,
                     ![Boot].picked = {t.out : t \in {u \in txs : u.ins \cap @ # {}}}]
        /\ UNCHANGED <<queue, lost>>
     \/ lost < MaxLost /\ lost' = lost + 1 /\ Ends(Boot)
  /\ UNCHANGED <<server, stored, fresh, sync, starts>>

\* One that its call has finalized meanwhile may be refused.
FinalizePending ==
  /\ job[Boot].stage = "finishing"
  /\ \E c \in job[Boot].picked :
       \/ /\ \/ \E t \in txs : t.out = c /\ Finalized(t)
             \/ (\A t \in txs : t.out # c) /\ UNCHANGED <<server, fresh, sync>>
          /\ job' = [job EXCEPT ![Boot].picked = @ \ {c}] /\ UNCHANGED lost
       \/ /\ IF \A t \in txs : t.out # c THEN UNCHANGED lost
             ELSE lost < MaxLost /\ lost' = lost + 1
          /\ job' = [job EXCEPT ![Boot].picked = @ \ {c}, ![Boot].own = FALSE]
          /\ UNCHANGED <<server, fresh, sync>>
  /\ UNCHANGED <<stored, queue, starts>>

\* Fault: the flag is cleared whatever failed.
FinalizePendingEndsClear ==
  /\ job[Boot].stage = "finishing" /\ job[Boot].picked = {} /\ flag' = FALSE /\ Ends(Boot)
  /\ UNCHANGED <<server, cache, cursor, fresh, sync, starts, lost>>

\* The flag is kept when one of them failed.
FinalizePendingEnds ==
  /\ job[Boot].stage = "finishing" /\ job[Boot].picked = {}
  /\ flag' = IF job[Boot].own THEN FALSE ELSE flag
  /\ Ends(Boot)
  /\ UNCHANGED <<server, cache, cursor, fresh, sync, starts, lost>>

\* The program stops and starts: what is stored stays.
Crash ==
  /\ starts.program < MaxCrashes /\ starts' = [starts EXCEPT !.program = @ + 1]
  /\ sync' = NoSync /\ queue' = <<>>
  /\ job' = [i \in DOMAIN job |-> IF Running(i) THEN Ended(job[i].kind) ELSE job[i]]
  /\ UNCHANGED <<server, stored, fresh, lost>>

----------------------------------------------------------------------------
Synchronises == Fetch \/ SaveFetched \/ AdvanceCursors \/ Reconcile

Works(i) == \/ Begin(i) \/ ClearSyncCursors(i) \/ Acquire(i) \/ SetPendingTxFlag(i)
            \/ PickSend(i) \/ PickAsset(i) \/ PickSettle(i) \/ PickRenewal(i) \/ PickNothing(i)
            \/ SubmitTx(i) \/ SubmitRefused(i) \/ FinalizeTx(i) \/ FinalizeAgain(i)
            \/ ClearPendingTxFlag(i)
            \/ JoinBatch(i) \/ UpdateDbAfterOffchainTx(i) \/ UpdateDbAfterSettle(i)

Recovers == HasPendingTx \/ GetPendingTxs \/ FinalizePending
            \/ FinalizePendingEnds

Next == \/ \E c \in Coins : Receive(c) \/ Sweep(c)
        \/ Synchronises \/ SyncFails
        \/ \E i \in Calls : Works(i) \/ FinalizeFails(i)
        \/ StartRecovery \/ Recovers \/ Crash

Spec == Init /\ [][Next]_vars

\* Every promise settles: what is under way goes on.
FairSpec == /\ Spec /\ WF_vars(Synchronises) /\ WF_vars(Recovers)
            /\ \A i \in Calls : WF_vars(Works(i))

----------------------------------------------------------------------------
TypeOK ==
  /\ ledger \in [Coins -> State] /\ cache \in [Coins -> State]
  /\ txs \subseteq Tx /\ flag \in BOOLEAN /\ cursor \in BOOLEAN /\ fresh \subseteq Coins
  /\ \A i \in Calls \cup {Boot} :
       /\ job[i].kind \in Kind /\ job[i].stage \in Stage
       /\ job[i].picked \subseteq Coins /\ job[i].out \subseteq Coins
  /\ \A i \in Calls : job[i].stage \in {"queued", "joining"} => \E n \in DOMAIN queue : queue[n] = i
  /\ starts \in [program : 0 .. MaxCrashes, wallet : 0 .. MaxStarts] /\ lost \in 0 .. MaxLost
  /\ sync # NoSync => sync.waiters \subseteq Calls \cup {Boot} /\ sync.since \subseteq Coins

\* Asset operations submit and finalize without the lock: they clear the flag of
\* a send under way, and spend outputs it has not booked.
AllLocked == \A i \in Calls : job[i].kind # "asset"

\* A transaction the server holds unfinished can be found again: the stored
\* flag is set, unless others may have cleared it since (another call that has
\* completed, a recovery beside the call that sent it), or all of its inputs are
\* VTXOs of settled batches, which the recovery does not ask about.  A crash at
\* any point keeps it so, and so does a recovery that fails half-way.
FlagCoversPending ==
  AllLocked => \A t \in txs : \/ flag \/ t.overtaken
                              \/ \A c \in t.ins : ledger[c] # "preconfirmed"

\* Whatever the cache has wrong is put right by the next synchronisation: the
\* VTXO has changed since the cursor, or there is no cursor.
Repairable ==
  AllLocked => \A c \in Coins : cache[c] = ledger[c] \/ c \in fresh \/ ~cursor

\* A call that holds the lock and began a synchronisation of its own has not
\* picked a VTXO that an earlier call of its kind has spent, unless a recovery
\* runs beside it: that spends the inputs of what it finalizes.
OwnSyncSuffices ==
  \A i \in Calls :
    /\ LocksFirst(i) /\ job[i].own /\ job[i].stage \in {"building", "submitting", "joining"}
    /\ AllLocked /\ ~job[i].beside
    => \A c \in job[i].picked : ledger[c] # "spent"

\* Whatever is under way ends, and with it every call that waits for the lock,
\* whatever fails before: again and again nothing is under way.
CallsEnd == []<>(\A i \in Calls \cup {Boot} : ~Running(i))
==============================================================================
