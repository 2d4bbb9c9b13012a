---------------------------- MODULE SwapManager ----------------------------
(***************************************************************************)
(* SwapManager (packages/boltz-swap/src/swap-manager.ts) together with the  *)
(* claim and refund callbacks ArkadeSwaps gives it and the swap repository. *)
(*                                                                          *)
(* The code is a set of asynchronous functions over shared objects.  A      *)
(* running invocation is a task: what lies between two awaits is one step,  *)
(* and a task that awaits lets every other task run.  Crash ends all tasks; *)
(* only what the repository has committed survives.                         *)
(***************************************************************************)
EXTENDS BoltzServer, Naturals, Sequences

CONSTANTS
    Swaps,        \* swap ids
    Kinds,        \* the kinds of swap that occur
    Tasks,        \* asynchronous invocations that can be in flight at once
    AutoActions,  \* config.enableAutoActions
    MaxWs,        \* bound on the WebSocket messages in flight per swap
    MaxEmitted,   \* where the count of completion events saturates
    Events        \* which of the events below occur to a swap of each kind

Event == {"action", "save", "crash", "poll", "drop", "manual", "refresh", "remove"}

ASSUME ConstantsAssumption ==
    /\ Kinds \subseteq Kind
    /\ AutoActions \in BOOLEAN
    /\ MaxWs \in Nat
    /\ MaxEmitted \in Nat \ {0}
    /\ Events \in [Kinds -> SUBSET Event]

VARIABLES
    kind,       \* swap.type, and the direction of a chain swap
    secret,     \* the preimage (reverse) or the invoice (submarine) is known
    server,     \* the status Boltz would report
    lockup, payout,
    cltv,       \* the refund locktime of the lockup has passed
    ws,         \* status messages on their way over the WebSocket
    running,    \* the process is up and start() has been called
    monitored,  \* monitoredSwaps
    mem,        \* the swap object shared by map, handlers and callers
    inProgress, \* swapsInProgress
    task,
    writeQ,     \* repository writes requested and not committed, in order
    stored,     \* what the repository would return after a restart
    resumeTodo, \* swaps the loop of resumeActionableSwaps has not visited
    completed   \* onSwapCompleted events emitted in this process

external == <<kind, secret, server, lockup, payout, cltv>>
coins == <<lockup, payout>>
storage == <<writeQ, stored>>
manager == <<running, monitored, mem, inProgress, resumeTodo, completed>>
vars == <<external, ws, task, storage, manager>>

-----------------------------------------------------------------------------
(* Types. *)

\* The fields of a swap object that change: status, and the refunded flag of
\* a submarine swap.  Absent is the value where there is no object.
SwapRecord == [status : Status \cup {"none"}, refunded : BOOLEAN]
Absent == [status |-> "none", refunded |-> FALSE]

Idle == [stage |-> "idle"]

\* by: which caller awaits the task.  op: what it is doing for that caller.
\* record: the status read from Boltz, or the copy on its way to storage.
BusyTask ==
    [stage  : {"answered", "acting", "fetching", "fetched", "writing"},
     swap   : Swaps,
     by     : {"create", "handler", "resume", "manual", "refresh"},
     op     : {"save", "claim", "refund", "sign"},
     record : SwapRecord]

TypeOK ==
    /\ kind \in [Swaps -> Kinds]
    /\ secret \in [Swaps -> BOOLEAN]
    /\ server \in [Swaps -> Status \cup {"none"}]
    /\ lockup \in [Swaps -> Lockup]
    /\ payout \in [Swaps -> Payout]
    /\ cltv \in [Swaps -> BOOLEAN]
    /\ ws \in [Swaps -> Seq(Status)]
    /\ running \in BOOLEAN
    /\ monitored \subseteq Swaps
    /\ mem \in [Swaps -> SwapRecord]
    /\ inProgress \subseteq Swaps
    /\ task \in [Tasks -> BusyTask \cup {Idle}]
    /\ writeQ \in Seq(Tasks)
    /\ stored \in [Swaps -> SwapRecord]
    /\ resumeTodo \subseteq Swaps
    /\ completed \in [Swaps -> 0 .. MaxEmitted]

-----------------------------------------------------------------------------
(* Helpers. *)

Occurs(event, s) == event \in Events[kind[s]]

IsFinal(s, record) == record.status \in FinalStatus(kind[s])

IdleTask(t) == task[t] = Idle

Busy(t) == task[t] # Idle

\* A task between taking and releasing the lock of its swap.
Acting(t) ==
    /\ Busy(t)
    /\ task[t].by \in {"handler", "resume"}
    /\ task[t].op # "save"

\* What executeAutonomousAction does for a swap object: the operation of the
\* branch it takes, or "none".  A reverse swap restored without its preimage
\* and a submarine swap restored without its invoice are skipped.
ActionFor(s, status) ==
    IF ~IsChain(kind[s]) /\ ~secret[s] THEN "none"
    ELSE IF status \in ClaimableStatus(kind[s]) THEN "claim"
    ELSE IF status \in RefundableStatus(kind[s]) THEN "refund"
    ELSE IF status \in SignableStatus(kind[s]) THEN "sign"
    ELSE "none"

SetTask(t, stage, s, by, op, record) ==
    task' = [task EXCEPT ![t] = [stage |-> stage, swap |-> s, by |-> by,
                                 op |-> op, record |-> record]]

EndTask(t) == task' = [task EXCEPT ![t] = Idle]

\* repository.saveSwap: put clones the object now; writes commit in order.
RequestWrite(t, s, by, op, record) ==
    /\ SetTask(t, "writing", s, by, op, record)
    /\ writeQ' = Append(writeQ, t)

\* The end of handleSwapStatusUpdate: a swap whose object is final by now
\* leaves the map, and the completion event is emitted.
FinalCheck(s) ==
    IF IsFinal(s, mem[s])
    THEN /\ monitored' = monitored \ {s}
         /\ completed' = [completed EXCEPT
                            ![s] = IF @ < MaxEmitted THEN @ + 1 ELSE @]
    ELSE UNCHANGED <<monitored, completed>>

\* Fault: the handler returns before its final check.
FinishActionUnchecked(t) ==
    /\ EndTask(t)
    /\ inProgress' = IF Acting(t) THEN inProgress \ {task[t].swap} ELSE inProgress
    /\ UNCHANGED <<monitored, completed>>

\* executeAutonomousAction has returned or thrown: the lock goes, and when the
\* caller is the status handler its last part runs.
FinishAction(t) ==
    LET s == task[t].swap IN
    /\ EndTask(t)
    /\ inProgress' = IF Acting(t) THEN inProgress \ {s} ELSE inProgress
    /\ IF task[t].by = "handler"
       THEN FinalCheck(s)
       ELSE UNCHANGED <<monitored, completed>>

-----------------------------------------------------------------------------
(* Init: nothing created, the manager not started. *)

Init ==
    /\ kind \in [Swaps -> Kinds]
    /\ secret \in [Swaps -> BOOLEAN]
    /\ \A s \in Swaps : IsChain(kind[s]) => secret[s]
    /\ server = [s \in Swaps |-> "none"]
    /\ lockup = [s \in Swaps |-> "none"]
    /\ payout = [s \in Swaps |-> "none"]
    /\ cltv = [s \in Swaps |-> FALSE]
    /\ ws = [s \in Swaps |-> <<>>]
    /\ running = FALSE
    /\ monitored = {}
    /\ mem = [s \in Swaps |-> Absent]
    /\ inProgress = {}
    /\ task = [t \in Tasks |-> Idle]
    /\ writeQ = <<>>
    /\ stored = [s \in Swaps |-> Absent]
    /\ resumeTodo = {}
    /\ completed = [s \in Swaps |-> 0]

-----------------------------------------------------------------------------
(* The service, the chain and the network. *)

\* Boltz moves a swap on.  The message reaches the socket of a subscribed
\* client, or is lost.  Nobody pays an invoice that creating the swap has not
\* returned, which it does after saving.
ServerMove(s, status) ==
    /\ MayReport(kind[s], server[s], status, lockup[s], payout[s])
    /\ LocksPayout(kind[s], status) => stored[s] # Absent
    /\ server' = [server EXCEPT ![s] = status]
    /\ lockup' = [lockup EXCEPT ![s] = LockupAfter(kind[s], status, @)]
    /\ payout' = [payout EXCEPT ![s] = PayoutAfter(kind[s], status, @)]
    /\ IF running /\ s \in monitored /\ Len(ws[s]) < MaxWs
       THEN \/ ws' = [ws EXCEPT ![s] = Append(@, status)]
            \/ Occurs("drop", s) /\ UNCHANGED ws
       ELSE UNCHANGED ws
    /\ UNCHANGED <<kind, secret, cltv, task, storage, manager>>

\* The client pays the lockup address it got from creating the swap: the
\* wallet of an Ark-side lockup, the user of a Bitcoin one.
FundLockup(s) ==
    /\ kind[s] # "reverse"
    /\ stored[s] # Absent
    /\ server[s] = CreatedStatus(kind[s])
    /\ lockup[s] = "none"
    /\ lockup' = [lockup EXCEPT ![s] = "locked"]
    /\ UNCHANGED <<kind, secret, server, payout, cltv, ws, task, storage, manager>>

\* Matters to the lockups the client can refund itself.
LocktimePasses(s) ==
    /\ lockup[s] = "locked"
    /\ RefundableStatus(kind[s]) # {}
    /\ ~cltv[s]
    /\ cltv' = [cltv EXCEPT ![s] = TRUE]
    /\ UNCHANGED <<kind, secret, server, coins, ws, task, storage, manager>>

\* The connection breaks and takes what it carried with it.
WebSocketDrops ==
    /\ \A s \in Swaps : Occurs("drop", s)
    /\ ws # [s \in Swaps |-> <<>>]
    /\ ws' = [s \in Swaps |-> <<>>]
    /\ UNCHANGED <<external, task, storage, manager>>

-----------------------------------------------------------------------------
(* Creating a swap: Boltz answers, the swap is saved, then monitored. *)

CreateSwap(t, s) ==
    LET swap == [status |-> CreatedStatus(kind[s]), refunded |-> FALSE] IN
    /\ IdleTask(t)
    /\ server[s] = "none"
    /\ server' = [server EXCEPT ![s] = swap.status]
    /\ RequestWrite(t, s, "create", "save", swap)
    /\ UNCHANGED <<kind, secret, coins, cltv, ws, stored, manager>>

\* addSwap.  The loop over the map that resumeActionableSwaps is in visits
\* entries added behind it.
AddSwap(s, swap) ==
    /\ monitored' = monitored \cup {s}
    /\ mem' = [mem EXCEPT ![s] = swap]
    /\ resumeTodo' = IF resumeTodo # {} \/ \E t \in Tasks : Busy(t) /\ task[t].by = "resume"
                     THEN resumeTodo \cup {s} ELSE resumeTodo

\* Fault: removing a swap also releases its lock.
RemoveSwapUnlocks(s) ==
    /\ Occurs("remove", s)
    /\ s \in monitored
    /\ monitored' = monitored \ {s}
    /\ inProgress' = inProgress \ {s}
    /\ UNCHANGED <<external, ws, task, storage, running, mem, resumeTodo, completed>>

RemoveSwap(s) ==
    /\ Occurs("remove", s)
    /\ s \in monitored
    /\ monitored' = monitored \ {s}
    /\ UNCHANGED <<external, ws, task, storage, running, mem, inProgress,
                   resumeTodo, completed>>

-----------------------------------------------------------------------------
(* Status updates: over the WebSocket, and in the replies to polls. *)

\* handleSwapStatusUpdate up to its first await.  A status equal to the
\* object's is dropped; any other overwrites it and is saved.
HandleStatus(t, s, status) ==
    IF status = mem[s].status
    THEN EndTask(t) /\ UNCHANGED <<mem, writeQ>>
    ELSE LET swap == [mem[s] EXCEPT !.status = status] IN
         /\ mem' = [mem EXCEPT ![s] = swap]
         /\ RequestWrite(t, s, "handler", "save", swap)

\* handleWebSocketMessage: only monitored swaps are looked at.
WebSocketMessage(t, s) ==
    /\ ws[s] # <<>>
    /\ ws' = [ws EXCEPT ![s] = Tail(@)]
    /\ IF s \in monitored
       THEN IdleTask(t) /\ HandleStatus(t, s, Head(ws[s]))
       ELSE UNCHANGED <<task, mem, writeQ>>
    /\ UNCHANGED <<external, stored, running, monitored, inProgress, resumeTodo,
                   completed>>

\* pollAllSwaps for one swap, or the retry after a 429: Boltz answers, and the
\* reply is on its way.
PollSwap(t, s) ==
    /\ running
    /\ IdleTask(t)
    /\ s \in monitored
    /\ SetTask(t, "answered", s, "handler", "save", [mem[s] EXCEPT !.status = server[s]])
    /\ UNCHANGED <<external, ws, storage, manager>>

\* The poll holds the swap object: it is updated whether or not the map still
\* has it.
PollReply(t) ==
    /\ Busy(t) /\ task[t].stage = "answered"
    /\ HandleStatus(t, task[t].swap, task[t].record.status)
    /\ UNCHANGED <<external, ws, stored, running, monitored, inProgress, resumeTodo,
                   completed>>

PollFails(t) ==
    /\ Busy(t) /\ task[t].stage = "answered"
    /\ Occurs("poll", task[t].swap)
    /\ EndTask(t)
    /\ UNCHANGED <<external, ws, storage, manager>>

-----------------------------------------------------------------------------
(* The repository answers a write, and the task that awaits it goes on. *)

\* Fault: the lock is not looked at.
AfterSaveUnlocked(t, s) ==
    LET op == ActionFor(s, mem[s].status) IN
    IF AutoActions /\ op # "none"
    THEN /\ SetTask(t, "acting", s, "handler", op, mem[s])
         /\ inProgress' = inProgress \cup {s}
         /\ UNCHANGED <<mem, monitored, resumeTodo, completed>>
    ELSE EndTask(t) /\ FinalCheck(s) /\ UNCHANGED <<mem, inProgress, resumeTodo>>

\* executeAutonomousAction up to its first await, then for want of an action
\* the end of the handler.
AfterSave(t, s) ==
    LET op == ActionFor(s, mem[s].status) IN
    IF AutoActions /\ s \notin inProgress /\ op # "none"
    THEN /\ SetTask(t, "acting", s, "handler", op, mem[s])
         /\ inProgress' = inProgress \cup {s}
         /\ UNCHANGED <<mem, monitored, resumeTodo, completed>>
    ELSE /\ EndTask(t)
         /\ FinalCheck(s)
         /\ UNCHANGED <<mem, inProgress, resumeTodo>>

WriteCommits(t) ==
    LET s == task[t].swap
        swap == task[t].record
    IN
    /\ Busy(t) /\ task[t].stage = "writing"
    /\ writeQ # <<>> /\ t = Head(writeQ)
    /\ writeQ' = Tail(writeQ)
    /\ stored' = [stored EXCEPT ![s] = swap]
    /\ CASE task[t].by = "create" ->
              EndTask(t) /\ AddSwap(s, swap) /\ UNCHANGED <<inProgress, completed>>
         [] task[t].by = "handler" /\ task[t].op = "save" -> AfterSave(t, s)
         [] OTHER -> FinishAction(t) /\ UNCHANGED <<mem, resumeTodo>>
    /\ UNCHANGED <<external, ws, running>>

\* The rejection leaves handleSwapStatusUpdate before the action and before
\* the final check; after an action it is caught, and the handler goes on.
WriteFails(t) ==
    /\ Busy(t) /\ task[t].stage = "writing"
    /\ Occurs("save", task[t].swap)
    /\ writeQ # <<>> /\ t = Head(writeQ)
    /\ writeQ' = Tail(writeQ)
    /\ IF task[t].op = "save"
       THEN EndTask(t) /\ UNCHANGED <<monitored, inProgress, completed>>
       ELSE FinishAction(t)
    /\ UNCHANGED <<external, ws, stored, running, mem, resumeTodo>>

-----------------------------------------------------------------------------
(* The callbacks: claimVHTLC, claimArk, claimBtc, refundVHTLC, refundArk and *)
(* signCooperativeClaimForServer.                                            *)

Doing(t, op) == Busy(t) /\ task[t].stage = "acting" /\ task[t].op = op

\* The write of a swap object's copy with which a callback ends.
SaveCopy(t, status, refunded) ==
    RequestWrite(t, task[t].swap, task[t].by, task[t].op,
                 [status |-> status, refunded |-> refunded])

\* The status is read from Boltz once the coins have moved.
ReadStatus(t) == task' = [task EXCEPT ![t].stage = "fetching"]

\* The claim of a Bitcoin payout saves nothing.  A reverse swap's VTXO that
\* was swept is claimed in a batch and the copy saved as claimed at once.
ClaimCoins(t) ==
    LET s == task[t].swap IN
    /\ Doing(t, "claim")
    /\ payout[s] = "locked"
    /\ payout' = [payout EXCEPT ![s] = "claimed"]
    /\ \/ /\ kind[s] = "chainToBtc"
          /\ FinishAction(t)
          /\ UNCHANGED writeQ
       \/ /\ kind[s] # "chainToBtc"
          /\ ReadStatus(t)
          /\ UNCHANGED <<writeQ, monitored, inProgress, completed>>
       \/ /\ kind[s] = "reverse"
          /\ SaveCopy(t, "transaction.claimed", mem[s].refunded)
          /\ UNCHANGED <<monitored, inProgress, completed>>
    /\ UNCHANGED <<kind, secret, server, lockup, cltv, ws, stored, running, mem,
                   resumeTodo>>

\* Through Boltz before the locktime, if it agrees that the swap failed, or
\* without it afterwards.
RefundCoins(t) ==
    LET s == task[t].swap IN
    /\ Doing(t, "refund")
    /\ lockup[s] = "locked"
    /\ cltv[s] \/ server[s] \in RefundableStatus(kind[s])
    /\ lockup' = [lockup EXCEPT ![s] = "refunded"]
    /\ IF kind[s] = "submarine"
       THEN SaveCopy(t, mem[s].status, TRUE)
       ELSE ReadStatus(t) /\ UNCHANGED writeQ
    /\ UNCHANGED <<kind, secret, server, payout, cltv, ws, stored, manager>>

\* A swept lockup, or one whose refund Boltz rejects, has to wait for the
\* locktime: refundVHTLC skips it and saves refunded: false.
SkipRefund(t) ==
    LET s == task[t].swap IN
    /\ Doing(t, "refund")
    /\ kind[s] = "submarine" /\ lockup[s] = "locked" /\ ~cltv[s]
    /\ SaveCopy(t, mem[s].status, FALSE)
    /\ UNCHANGED <<external, ws, stored, manager>>

SignServerClaim(t) ==
    /\ Doing(t, "sign")
    /\ FinishAction(t)
    /\ UNCHANGED <<external, ws, storage, running, mem, resumeTodo>>

\* A callback throws: the network failed, the coins are not there, or
\* Boltz does not sign.
ActionFails(t) ==
    LET s == task[t].swap IN
    /\ Busy(t) /\ task[t].stage = "acting"
    /\ \/ Occurs("action", s)
       \/ task[t].op = "claim" /\ payout[s] # "locked"
       \/ task[t].op = "refund" /\ lockup[s] # "locked"
       \/ task[t].op = "refund" /\ ~cltv[s] /\ server[s] \notin RefundableStatus(kind[s])
    /\ FinishAction(t)
    /\ UNCHANGED <<external, ws, storage, running, mem, resumeTodo>>

\* getSwapStatus inside a callback, or inside refreshSwapsStatus: the answer
\* leaves Boltz, then arrives and is saved in the copy.
StatusAnswered(t) ==
    /\ Busy(t) /\ task[t].stage = "fetching"
    /\ task' = [task EXCEPT ![t].stage = "fetched",
                            ![t].record.status = server[task[t].swap]]
    /\ UNCHANGED <<external, ws, storage, manager>>

StatusArrives(t) ==
    /\ Busy(t) /\ task[t].stage = "fetched"
    /\ SaveCopy(t, task[t].record.status, task[t].record.refunded)
    /\ UNCHANGED <<external, ws, stored, manager>>

StatusFails(t) ==
    /\ Busy(t) /\ task[t].stage \in {"fetching", "fetched"}
    /\ Occurs("action", task[t].swap)
    /\ FinishAction(t)
    /\ UNCHANGED <<external, ws, storage, running, mem, resumeTodo>>

-----------------------------------------------------------------------------
(* Calls of the application that touch the same swap. *)

\* claimVHTLC, refundVHTLC and the others are public: called directly they
\* neither look at the lock nor take it, nor at the status.
ManualOps(s) ==
    CASE kind[s] = "reverse"    -> IF secret[s] THEN {"claim"} ELSE {}
      [] kind[s] = "submarine"  -> {"refund"}
      [] kind[s] = "chainToArk" -> {"claim", "sign"}
      [] kind[s] = "chainToBtc" -> {"claim", "refund"}

ManualAction(t, s, op) ==
    /\ Occurs("manual", s)
    /\ IdleTask(t)
    /\ mem[s] # Absent
    /\ op \in ManualOps(s)
    /\ SetTask(t, "acting", s, "manual", op, mem[s])
    /\ UNCHANGED <<external, ws, storage, manager>>

\* refreshSwapsStatus: a copy from storage, the status Boltz reports, a save.
RefreshStatus(t, s) ==
    /\ Occurs("refresh", s)
    /\ IdleTask(t)
    /\ stored[s] # Absent
    /\ ~IsFinal(s, stored[s])
    /\ SetTask(t, "fetching", s, "refresh", "save", stored[s])
    /\ UNCHANGED <<external, ws, storage, manager>>

-----------------------------------------------------------------------------
(* The process dies and starts again. *)

Crash ==
    /\ \A s \in Swaps : Occurs("crash", s)
    /\ ws' = [s \in Swaps |-> <<>>]
    /\ task' = [t \in Tasks |-> Idle]
    /\ writeQ' = <<>>
    /\ running' = FALSE
    /\ monitored' = {}
    /\ mem' = [s \in Swaps |-> Absent]
    /\ inProgress' = {}
    /\ resumeTodo' = {}
    /\ completed' = [s \in Swaps |-> 0]
    /\ UNCHANGED <<external, stored>>

\* Fault: start() loads the swaps and resumes none.
StartWithoutResume ==
    LET pending == {s \in Swaps : stored[s] # Absent /\ ~IsFinal(s, stored[s])} IN
    /\ ~running
    /\ running' = TRUE
    /\ monitored' = monitored \cup pending
    /\ mem' = [s \in Swaps |-> IF s \in pending THEN stored[s] ELSE mem[s]]
    /\ UNCHANGED <<external, ws, task, storage, inProgress, resumeTodo, completed>>

\* startSwapManager, start: of the swaps in the repository those that are not
\* final are monitored, and the loop of resumeActionableSwaps begins.
Start ==
    LET pending == {s \in Swaps : stored[s] # Absent /\ ~IsFinal(s, stored[s])} IN
    /\ ~running
    /\ running' = TRUE
    /\ monitored' = monitored \cup pending
    /\ mem' = [s \in Swaps |-> IF s \in pending THEN stored[s] ELSE mem[s]]
    /\ resumeTodo' = IF AutoActions THEN monitored' ELSE {}
    /\ UNCHANGED <<external, ws, task, storage, inProgress, completed>>

\* One iteration of the loop.  It awaits the action it starts; the order of
\* the map is left open, and so is who runs between two iterations.
ResumeSwap(t, s) ==
    LET op == ActionFor(s, mem[s].status) IN
    /\ s \in resumeTodo
    /\ \A u \in Tasks : Busy(u) => task[u].by # "resume"
    /\ resumeTodo' = resumeTodo \ {s}
    /\ IF s \in monitored /\ s \notin inProgress /\ op # "none"
       THEN /\ IdleTask(t)
            /\ SetTask(t, "acting", s, "resume", op, mem[s])
            /\ inProgress' = inProgress \cup {s}
       ELSE UNCHANGED <<task, inProgress>>
    /\ UNCHANGED <<external, ws, storage, running, monitored, mem, completed>>

-----------------------------------------------------------------------------
Environment ==
    \/ \E s \in Swaps, status \in Status : ServerMove(s, status)
    \/ \E s \in Swaps : FundLockup(s) \/ LocktimePasses(s)
    \/ WebSocketDrops

Application ==
    \/ \E s \in Swaps : RemoveSwap(s)
    \/ \E t \in Tasks, s \in Swaps :
          CreateSwap(t, s) \/ RefreshStatus(t, s)
    \/ \E t \in Tasks, s \in Swaps, op \in {"claim", "refund", "sign"} :
          ManualAction(t, s, op)

Update(t) == PollReply(t) \/ PollFails(t) \/ WriteCommits(t) \/ WriteFails(t)

Action(t) ==
    \/ ClaimCoins(t) \/ RefundCoins(t) \/ SkipRefund(t) \/ SignServerClaim(t)
    \/ ActionFails(t) \/ StatusAnswered(t) \/ StatusArrives(t) \/ StatusFails(t)

Next ==
    \/ Environment
    \/ Application
    \/ \E t \in Tasks : Update(t) \/ Action(t)
    \/ \E t \in Tasks, s \in Swaps :
          WebSocketMessage(t, s) \/ PollSwap(t, s) \/ ResumeSwap(t, s)
    \/ Start
    \/ Crash

Spec == Init /\ [][Next]_vars

(* Fairness: Boltz, the network and the repository answer what they are      *)
(* asked, timers fire, an application that went down is opened again.        *)
(* Strong where a free task slot is needed: the slots bound the model, the   *)
(* code starts as many invocations as it likes.  Boltz, the user and the     *)
(* failures owe nothing.                                                     *)
Fairness ==
    /\ \A t \in Tasks :
         /\ WF_vars(PollReply(t)) /\ WF_vars(WriteCommits(t))
         /\ WF_vars(ClaimCoins(t) \/ RefundCoins(t) \/ SkipRefund(t)
                    \/ SignServerClaim(t) \/ ActionFails(t))
         /\ WF_vars(StatusAnswered(t)) /\ WF_vars(StatusArrives(t))
    /\ \A s \in Swaps :
         /\ SF_vars(\E t \in Tasks : PollSwap(t, s))
         /\ SF_vars(\E t \in Tasks : WebSocketMessage(t, s))
         /\ SF_vars(\E t \in Tasks : ResumeSwap(t, s))
         /\ WF_vars(LocktimePasses(s))
    /\ WF_vars(Start)

FairSpec == Spec /\ Fairness

-----------------------------------------------------------------------------
(* Safety. *)

\* swapsInProgress holds exactly the swaps for which a handler or the resume
\* loop is inside a callback, and no swap has two of them: the check and the
\* add are one step, and every way out of the callback releases.
LockIsExact ==
    /\ \A s \in Swaps :
         s \in inProgress <=> \E t \in Tasks : Acting(t) /\ task[t].swap = s
    /\ \A t, u \in Tasks :
         Acting(t) /\ Acting(u) /\ task[t].swap = task[u].swap => t = u

\* Whatever order updates, polls, claims and writes are applied in, a swap
\* whose object or stored copy is final, or whose completion was announced,
\* has ended at Boltz: start() drops stored final swaps for good, so a live
\* one must never be stored as final.
FinalIsTrue ==
    \A s \in Swaps :
        IsFinal(s, mem[s]) \/ IsFinal(s, stored[s]) \/ completed[s] > 0
            => server[s] \in FinalStatus(kind[s])

-----------------------------------------------------------------------------
(* Liveness, and what the documentation says of the manager. *)

\* A swap that has ended at Boltz leaves the map, as long as the writes succeed.
EndedSwapsLeave ==
    \A s \in Swaps :
        (s \in monitored /\ server[s] \in FinalStatus(kind[s])) ~> s \notin monitored

\* Coins Boltz has locked for the client are claimed, or go back to Boltz,
\* whatever updates are lost and wherever the process dies, provided that in
\* the end it stays up.
PayoutIsCollected ==
    <>[]running => \A s \in Swaps : (payout[s] = "locked" /\ secret[s]) ~> payout[s] # "locked"

-----------------------------------------------------------------------------
(* The lock as an abstract specification. *)

Holders == [s \in Swaps |-> {t \in Tasks : Acting(t) /\ task[t].swap = s}]

Lock == INSTANCE SwapLock WITH holders <- Holders

\* The handlers and the resume loop use swapsInProgress as that lock.
LockIsImplemented == Lock!Spec
=============================================================================
