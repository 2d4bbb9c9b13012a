------------------------- MODULE SwapManagerProofs -------------------------
(***************************************************************************)
(* Theorems about SwapManager, for every number of swaps and tasks.         *)
(***************************************************************************)
EXTENDS SwapManager, TLAPS

USE DEF IdleTask, Busy

-----------------------------------------------------------------------------
(* Types of the operators that the actions are built from. *)

\* The status a swap is created with is a status.
LEMMA CreatedStatusType == \A k \in Kind : CreatedStatus(k) \in Status
  BY DEF CreatedStatus, Status, Kind

\* What Boltz's moves do to the coins stays within their types.
LEMMA CoinsType ==
  ASSUME NEW k, NEW status, NEW l \in Lockup, NEW p \in Payout
  PROVE  LockupAfter(k, status, l) \in Lockup /\ PayoutAfter(k, status, p) \in Payout
  BY DEF LockupAfter, PayoutAfter, Lockup, Payout

\* Replacing the status of a swap object by a status gives a swap object.
LEMMA WithStatus ==
  ASSUME NEW swap \in SwapRecord, NEW status \in Status \cup {"none"}
  PROVE  [swap EXCEPT !.status = status] \in SwapRecord
  BY DEF SwapRecord

\* A task that is not idle has all its fields.
LEMMA BusyFields ==
  ASSUME TypeOK, NEW t \in Tasks, Busy(t)
  PROVE  /\ task[t] \in BusyTask
         /\ task[t].stage \in {"answered", "acting", "fetching", "fetched", "writing"}
         /\ task[t].swap \in Swaps
         /\ task[t].by \in {"create", "handler", "resume", "manual", "refresh"}
         /\ task[t].op \in {"save", "claim", "refund", "sign"}
         /\ task[t].record \in SwapRecord
         /\ task[t].record.status \in Status \cup {"none"}
         /\ task[t].record.refunded \in BOOLEAN
  BY DEF TypeOK, BusyTask, SwapRecord

\* A task is given well-typed fields.
LEMMA SetTaskType ==
  ASSUME TypeOK, NEW t \in Tasks, NEW s \in Swaps,
         NEW stage \in {"answered", "acting", "fetching", "fetched", "writing"},
         NEW by \in {"create", "handler", "resume", "manual", "refresh"},
         NEW op \in {"save", "claim", "refund", "sign"},
         NEW record \in SwapRecord,
         SetTask(t, stage, s, by, op, record)
  PROVE  task' \in [Tasks -> BusyTask \cup {Idle}]
  BY DEF SetTask, TypeOK, BusyTask

\* A task ends.
LEMMA EndTaskType ==
  ASSUME TypeOK, NEW t \in Tasks, EndTask(t)
  PROVE  task' \in [Tasks -> BusyTask \cup {Idle}]
  BY DEF EndTask, TypeOK

\* A write is requested by a task.
LEMMA RequestWriteType ==
  ASSUME TypeOK, NEW t \in Tasks, NEW s \in Swaps,
         NEW by \in {"create", "handler", "resume", "manual", "refresh"},
         NEW op \in {"save", "claim", "refund", "sign"},
         NEW record \in SwapRecord,
         RequestWrite(t, s, by, op, record)
  PROVE  task' \in [Tasks -> BusyTask \cup {Idle}] /\ writeQ' \in Seq(Tasks)
  <1>1. task' \in [Tasks -> BusyTask \cup {Idle}]
    BY SetTaskType DEF RequestWrite
  <1>2. writeQ' \in Seq(Tasks)
    BY DEF RequestWrite, TypeOK
  <1> QED BY <1>1, <1>2

\* A busy task requests the write of a copy.
LEMMA SaveCopyType ==
  ASSUME TypeOK, NEW t \in Tasks, Busy(t), NEW status \in Status \cup {"none"},
         NEW refunded \in BOOLEAN, SaveCopy(t, status, refunded)
  PROVE  task' \in [Tasks -> BusyTask \cup {Idle}] /\ writeQ' \in Seq(Tasks)
  <1>1. [status |-> status, refunded |-> refunded] \in SwapRecord
    BY DEF SwapRecord
  <1> QED BY <1>1, BusyFields, RequestWriteType DEF SaveCopy

\* A busy task goes on to read the status.
LEMMA ReadStatusType ==
  ASSUME TypeOK, NEW t \in Tasks, Busy(t), ReadStatus(t)
  PROVE  task' \in [Tasks -> BusyTask \cup {Idle}]
  <1>1. [task[t] EXCEPT !.stage = "fetching"] \in BusyTask
    BY BusyFields DEF BusyTask
  <1> QED BY <1>1 DEF ReadStatus, TypeOK

\* The final check removes a swap and counts an event.
LEMMA FinalCheckType ==
  ASSUME TypeOK, NEW s \in Swaps, FinalCheck(s)
  PROVE  monitored' \subseteq Swaps /\ completed' \in [Swaps -> 0 .. MaxEmitted]
  <1>1. MaxEmitted \in Nat \ {0}
    BY ConstantsAssumption
  <1>2. completed \in [Swaps -> 0 .. MaxEmitted] /\ monitored \subseteq Swaps
    BY DEF TypeOK
  <1>3. (IF completed[s] < MaxEmitted THEN completed[s] + 1 ELSE completed[s]) \in 0 .. MaxEmitted
    <2>1. completed[s] \in 0 .. MaxEmitted
      BY <1>2
    <2> QED BY <1>1, <2>1
  <1> QED BY <1>2, <1>3, Zenon DEF FinalCheck

\* The end of an action.
LEMMA FinishActionType ==
  ASSUME TypeOK, NEW t \in Tasks, Busy(t), FinishAction(t)
  PROVE  /\ task' \in [Tasks -> BusyTask \cup {Idle}]
         /\ inProgress' \subseteq Swaps
         /\ monitored' \subseteq Swaps
         /\ completed' \in [Swaps -> 0 .. MaxEmitted]
  <1>1. task[t].swap \in Swaps
    BY BusyFields
  <1>2. task' \in [Tasks -> BusyTask \cup {Idle}]
    BY EndTaskType DEF FinishAction
  <1>3. inProgress' \subseteq Swaps
    BY DEF FinishAction, TypeOK
  <1>4. monitored' \subseteq Swaps /\ completed' \in [Swaps -> 0 .. MaxEmitted]
    BY <1>1, FinalCheckType DEF FinishAction, TypeOK
  <1> QED BY <1>2, <1>3, <1>4

\* The action of a status is one a task can be doing.
LEMMA ActionForType ==
  \A s, status : ActionFor(s, status) \in {"claim", "refund", "sign", "none"}
  BY DEF ActionFor

-----------------------------------------------------------------------------
(* TypeOK is inductive. *)

\* Every step keeps every variable in its type.
LEMMA TypeStep == TypeOK /\ [Next]_vars => TypeOK'
<1> SUFFICES ASSUME TypeOK, [Next]_vars PROVE TypeOK'
  OBVIOUS
<1> USE ConstantsAssumption
<1>1. ASSUME NEW s \in Swaps, NEW status \in Status, ServerMove(s, status) PROVE TypeOK'
  <2>1. /\ LockupAfter(kind[s], status, lockup[s]) \in Lockup
        /\ PayoutAfter(kind[s], status, payout[s]) \in Payout
    BY CoinsType DEF TypeOK
  <2>2. ws' \in [Swaps -> Seq(Status)]
    <3>1. ws[s] \in Seq(Status)
      BY DEF TypeOK
    <3>2. Append(ws[s], status) \in Seq(Status)
      BY <3>1
    <3>3. ws' = ws \/ ws' = [ws EXCEPT ![s] = Append(ws[s], status)]
      BY <1>1 DEF ServerMove
    <3> QED BY <3>2, <3>3 DEF TypeOK
  <2>3. /\ server' \in [Swaps -> Status \cup {"none"}]
        /\ lockup' \in [Swaps -> Lockup]
        /\ payout' \in [Swaps -> Payout]
    BY <1>1, <2>1 DEF ServerMove, TypeOK
  <2> QED BY <1>1, <2>2, <2>3 DEF ServerMove, TypeOK, storage, manager
<1>2. ASSUME NEW s \in Swaps, FundLockup(s) PROVE TypeOK'
  BY <1>2 DEF FundLockup, TypeOK, Lockup, storage, manager
<1>3. ASSUME NEW s \in Swaps, LocktimePasses(s) PROVE TypeOK'
  BY <1>3 DEF LocktimePasses, TypeOK, coins, storage, manager
<1>4. CASE WebSocketDrops
  BY <1>4 DEF WebSocketDrops, TypeOK, external, storage, manager
<1>5. ASSUME NEW s \in Swaps, RemoveSwap(s) PROVE TypeOK'
  BY <1>5 DEF RemoveSwap, TypeOK, external, storage
<1>6. ASSUME NEW t \in Tasks, NEW s \in Swaps, CreateSwap(t, s) PROVE TypeOK'
  <2>1. CreatedStatus(kind[s]) \in Status
    BY CreatedStatusType DEF TypeOK
  <2>2. [status |-> CreatedStatus(kind[s]), refunded |-> FALSE] \in SwapRecord
    BY <2>1 DEF SwapRecord
  <2>3. task' \in [Tasks -> BusyTask \cup {Idle}] /\ writeQ' \in Seq(Tasks)
    BY <1>6, <2>2, RequestWriteType DEF CreateSwap
  <2> QED BY <1>6, <2>1, <2>3 DEF CreateSwap, TypeOK, coins, manager
<1>7. ASSUME NEW t \in Tasks, NEW s \in Swaps, RefreshStatus(t, s) PROVE TypeOK'
  <2>1. task' \in [Tasks -> BusyTask \cup {Idle}]
    BY <1>7, SetTaskType DEF RefreshStatus, TypeOK
  <2> QED BY <1>7, <2>1 DEF RefreshStatus, TypeOK, external, storage, manager
<1>8. ASSUME NEW t \in Tasks, NEW s \in Swaps, NEW op \in {"claim", "refund", "sign"},
             ManualAction(t, s, op) PROVE TypeOK'
  <2>1. task' \in [Tasks -> BusyTask \cup {Idle}]
    BY <1>8, SetTaskType DEF ManualAction, TypeOK
  <2> QED BY <1>8, <2>1 DEF ManualAction, TypeOK, external, storage, manager
<1>9. ASSUME NEW t \in Tasks, NEW s \in Swaps, NEW status \in Status \cup {"none"},
             HandleStatus(t, s, status)
      PROVE  /\ task' \in [Tasks -> BusyTask \cup {Idle}]
             /\ writeQ' \in Seq(Tasks)
             /\ mem' \in [Swaps -> SwapRecord]
  <2>1. [mem[s] EXCEPT !.status = status] \in SwapRecord
    BY WithStatus DEF TypeOK
  <2>2. CASE status = mem[s].status
    BY <1>9, <2>2, EndTaskType DEF HandleStatus, TypeOK
  <2>3. CASE status # mem[s].status
    <3>1. /\ mem' = [mem EXCEPT ![s] = [mem[s] EXCEPT !.status = status]]
          /\ RequestWrite(t, s, "handler", "save", [mem[s] EXCEPT !.status = status])
      BY <1>9, <2>3 DEF HandleStatus
    <3> QED BY <3>1, <2>1, RequestWriteType DEF TypeOK
  <2> QED BY <2>2, <2>3
<1>10. ASSUME NEW t \in Tasks, PollReply(t) PROVE TypeOK'
  <2>1. task[t].swap \in Swaps /\ task[t].record.status \in Status \cup {"none"}
    BY <1>10, BusyFields DEF PollReply
  <2>2. /\ task' \in [Tasks -> BusyTask \cup {Idle}]
        /\ writeQ' \in Seq(Tasks)
        /\ mem' \in [Swaps -> SwapRecord]
    BY <1>10, <2>1, <1>9 DEF PollReply
  <2> QED BY <1>10, <2>2 DEF PollReply, TypeOK, external
<1>11. ASSUME NEW t \in Tasks, PollFails(t) PROVE TypeOK'
  BY <1>11, EndTaskType DEF PollFails, TypeOK, external, storage, manager
<1>12. ASSUME NEW t \in Tasks, WriteCommits(t) PROVE TypeOK'
  <2> DEFINE s == task[t].swap
             swap == task[t].record
  <2>1. Busy(t) /\ s \in Swaps /\ swap \in SwapRecord
    BY <1>12, BusyFields DEF WriteCommits
  <2>2. writeQ' \in Seq(Tasks) /\ stored' \in [Swaps -> SwapRecord]
    BY <1>12, <2>1 DEF WriteCommits, TypeOK
  <2>3. /\ task' \in [Tasks -> BusyTask \cup {Idle}]
        /\ mem' \in [Swaps -> SwapRecord]
        /\ monitored' \subseteq Swaps
        /\ inProgress' \subseteq Swaps
        /\ resumeTodo' \subseteq Swaps
        /\ completed' \in [Swaps -> 0 .. MaxEmitted]
    <3>1. CASE task[t].by = "create"
      <4>1. EndTask(t) /\ AddSwap(s, swap) /\ UNCHANGED <<inProgress, completed>>
        BY <1>12, <3>1 DEF WriteCommits
      <4>2. task' \in [Tasks -> BusyTask \cup {Idle}]
        BY <4>1, EndTaskType
      <4>3. mem' \in [Swaps -> SwapRecord]
        BY <4>1, <2>1 DEF AddSwap, TypeOK
      <4>4. monitored' \subseteq Swaps /\ resumeTodo' \subseteq Swaps
        BY <4>1, <2>1 DEF AddSwap, TypeOK
      <4> QED BY <4>1, <4>2, <4>3, <4>4 DEF TypeOK
    <3>2. CASE task[t].by = "handler" /\ task[t].op = "save"
      <4>1. AfterSave(t, s)
        BY <1>12, <3>2 DEF WriteCommits
      <4>2. ActionFor(s, mem[s].status) \in {"claim", "refund", "sign", "none"}
        BY ActionForType
      <4>3. CASE AutoActions /\ s \notin inProgress /\ ActionFor(s, mem[s].status) # "none"
        <5>1. /\ SetTask(t, "acting", s, "handler", ActionFor(s, mem[s].status), mem[s])
              /\ inProgress' = inProgress \cup {s}
              /\ UNCHANGED <<mem, monitored, resumeTodo, completed>>
          BY <4>1, <4>3 DEF AfterSave
        <5>2. mem[s] \in SwapRecord
          BY <2>1 DEF TypeOK
        <5>3. task' \in [Tasks -> BusyTask \cup {Idle}]
          BY <5>1, <5>2, <4>2, <4>3, <2>1, SetTaskType
        <5> QED BY <5>1, <5>3, <2>1 DEF TypeOK
      <4>4. CASE ~(AutoActions /\ s \notin inProgress /\ ActionFor(s, mem[s].status) # "none")
        <5>1. EndTask(t) /\ FinalCheck(s) /\ UNCHANGED <<mem, inProgress, resumeTodo>>
          BY <4>1, <4>4 DEF AfterSave
        <5> QED BY <5>1, <2>1, EndTaskType, FinalCheckType DEF TypeOK
      <4> QED BY <4>3, <4>4
    <3>3. CASE ~(task[t].by = "create") /\ ~(task[t].by = "handler" /\ task[t].op = "save")
      <4>1. FinishAction(t) /\ UNCHANGED <<mem, resumeTodo>>
        BY <1>12, <3>3 DEF WriteCommits
      <4> QED BY <4>1, <2>1, FinishActionType DEF TypeOK
    <3> QED BY <3>1, <3>2, <3>3
  <2> QED BY <1>12, <2>2, <2>3 DEF WriteCommits, TypeOK, external
<1>13. ASSUME NEW t \in Tasks, WriteFails(t) PROVE TypeOK'
  <2>1. Busy(t)
    BY <1>13 DEF WriteFails
  <2>2. writeQ' \in Seq(Tasks)
    BY <1>13 DEF WriteFails, TypeOK
  <2>3. /\ task' \in [Tasks -> BusyTask \cup {Idle}]
        /\ monitored' \subseteq Swaps
        /\ inProgress' \subseteq Swaps
        /\ completed' \in [Swaps -> 0 .. MaxEmitted]
    BY <1>13, <2>1, EndTaskType, FinishActionType DEF WriteFails, TypeOK
  <2> QED BY <1>13, <2>2, <2>3 DEF WriteFails, TypeOK, external
<1>14. ASSUME NEW t \in Tasks, ClaimCoins(t) PROVE TypeOK'
  <2>1. Busy(t) /\ task[t].swap \in Swaps
    BY <1>14, BusyFields DEF ClaimCoins, Doing
  <2>2. mem[task[t].swap].refunded \in BOOLEAN /\ "transaction.claimed" \in Status
    BY <2>1 DEF TypeOK, SwapRecord, Status
  <2>3. /\ task' \in [Tasks -> BusyTask \cup {Idle}]
        /\ writeQ' \in Seq(Tasks)
        /\ monitored' \subseteq Swaps
        /\ inProgress' \subseteq Swaps
        /\ completed' \in [Swaps -> 0 .. MaxEmitted]
    <3>1. CASE FinishAction(t) /\ UNCHANGED writeQ
      BY <3>1, <2>1, FinishActionType DEF TypeOK
    <3>2. CASE ReadStatus(t) /\ UNCHANGED <<writeQ, monitored, inProgress, completed>>
      BY <3>2, <2>1, ReadStatusType DEF TypeOK
    <3>3. CASE /\ SaveCopy(t, "transaction.claimed", mem[task[t].swap].refunded)
               /\ UNCHANGED <<monitored, inProgress, completed>>
      BY <3>3, <2>1, <2>2, SaveCopyType DEF TypeOK
    <3> QED BY <1>14, <3>1, <3>2, <3>3 DEF ClaimCoins
  <2>4. payout' \in [Swaps -> Payout]
    BY <1>14 DEF ClaimCoins, TypeOK, Payout
  <2> QED BY <1>14, <2>3, <2>4 DEF ClaimCoins, TypeOK
<1>15. ASSUME NEW t \in Tasks, RefundCoins(t) PROVE TypeOK'
  <2>1. Busy(t) /\ task[t].swap \in Swaps
    BY <1>15, BusyFields DEF RefundCoins, Doing
  <2>2. mem[task[t].swap].status \in Status \cup {"none"}
    BY <2>1 DEF TypeOK, SwapRecord
  <2>3. task' \in [Tasks -> BusyTask \cup {Idle}] /\ writeQ' \in Seq(Tasks)
    BY <1>15, <2>1, <2>2, SaveCopyType, ReadStatusType DEF RefundCoins, TypeOK
  <2>4. lockup' \in [Swaps -> Lockup]
    BY <1>15 DEF RefundCoins, TypeOK, Lockup
  <2> QED BY <1>15, <2>3, <2>4 DEF RefundCoins, TypeOK, manager
<1>16. ASSUME NEW t \in Tasks, SkipRefund(t) PROVE TypeOK'
  <2>1. Busy(t) /\ task[t].swap \in Swaps
    BY <1>16, BusyFields DEF SkipRefund, Doing
  <2>2. mem[task[t].swap].status \in Status \cup {"none"}
    BY <2>1 DEF TypeOK, SwapRecord
  <2>3. task' \in [Tasks -> BusyTask \cup {Idle}] /\ writeQ' \in Seq(Tasks)
    BY <1>16, <2>1, <2>2, SaveCopyType DEF SkipRefund
  <2> QED BY <1>16, <2>3 DEF SkipRefund, TypeOK, external, manager
<1>17. ASSUME NEW t \in Tasks, SignServerClaim(t) PROVE TypeOK'
  BY <1>17, FinishActionType DEF SignServerClaim, Doing, TypeOK, external, storage
<1>18. ASSUME NEW t \in Tasks, ActionFails(t) PROVE TypeOK'
  BY <1>18, FinishActionType DEF ActionFails, TypeOK, external, storage
<1>19. ASSUME NEW t \in Tasks, StatusAnswered(t) PROVE TypeOK'
  <2>1. task[t] \in BusyTask /\ server[task[t].swap] \in Status \cup {"none"}
    BY <1>19, BusyFields DEF StatusAnswered, TypeOK
  <2>2. [task[t] EXCEPT !.stage = "fetched", !.record.status = server[task[t].swap]] \in BusyTask
    BY <2>1 DEF BusyTask, SwapRecord
  <2>3. task' = [task EXCEPT ![t] = [task[t] EXCEPT !.stage = "fetched",
                                     !.record.status = server[task[t].swap]]]
    BY <1>19 DEF StatusAnswered
  <2> QED BY <1>19, <2>2, <2>3 DEF StatusAnswered, TypeOK, external, storage, manager
<1>20. ASSUME NEW t \in Tasks, StatusArrives(t) PROVE TypeOK'
  <2>1. task' \in [Tasks -> BusyTask \cup {Idle}] /\ writeQ' \in Seq(Tasks)
    BY <1>20, BusyFields, SaveCopyType DEF StatusArrives
  <2> QED BY <1>20, <2>1 DEF StatusArrives, TypeOK, external, manager
<1>21. ASSUME NEW t \in Tasks, StatusFails(t) PROVE TypeOK'
  BY <1>21, FinishActionType DEF StatusFails, TypeOK, external, storage
<1>22. ASSUME NEW t \in Tasks, NEW s \in Swaps, WebSocketMessage(t, s) PROVE TypeOK'
  <2>1. ws[s] \in Seq(Status) /\ ws[s] # <<>>
    BY <1>22 DEF WebSocketMessage, TypeOK
  <2>2. Head(ws[s]) \in Status /\ Tail(ws[s]) \in Seq(Status)
    BY <2>1
  <2>3. /\ task' \in [Tasks -> BusyTask \cup {Idle}]
        /\ writeQ' \in Seq(Tasks)
        /\ mem' \in [Swaps -> SwapRecord]
    BY <1>22, <1>9, <2>2 DEF WebSocketMessage, TypeOK
  <2> QED BY <1>22, <2>2, <2>3 DEF WebSocketMessage, TypeOK, external
<1>23. ASSUME NEW t \in Tasks, NEW s \in Swaps, PollSwap(t, s) PROVE TypeOK'
  <2>1. [mem[s] EXCEPT !.status = server[s]] \in SwapRecord
    BY WithStatus DEF TypeOK
  <2>2. task' \in [Tasks -> BusyTask \cup {Idle}]
    BY <1>23, <2>1, SetTaskType DEF PollSwap
  <2> QED BY <1>23, <2>2 DEF PollSwap, TypeOK, external, storage, manager
<1>24. ASSUME NEW t \in Tasks, NEW s \in Swaps, ResumeSwap(t, s) PROVE TypeOK'
  <2>1. ActionFor(s, mem[s].status) \in {"claim", "refund", "sign", "none"}
    BY ActionForType
  <2>2. mem[s] \in SwapRecord
    BY DEF TypeOK
  <2>3. task' \in [Tasks -> BusyTask \cup {Idle}]
    BY <1>24, <2>1, <2>2, SetTaskType DEF ResumeSwap, TypeOK
  <2>4. inProgress' \subseteq Swaps /\ resumeTodo' \subseteq Swaps
    BY <1>24 DEF ResumeSwap, TypeOK
  <2> QED BY <1>24, <2>3, <2>4 DEF ResumeSwap, TypeOK, external, storage
<1>25. CASE Start
  BY <1>25 DEF Start, TypeOK, external, storage
<1>26. CASE Crash
  <2>1. <<>> \in Seq(Status) /\ <<>> \in Seq(Tasks) /\ 0 \in 0 .. MaxEmitted
    BY ConstantsAssumption
  <2>2. Absent \in SwapRecord
    BY DEF Absent, SwapRecord
  <2> QED BY <1>26, <2>1, <2>2 DEF Crash, TypeOK, external
<1>27. CASE UNCHANGED vars
  BY <1>27 DEF vars, TypeOK, external, storage, manager
<1> QED
  BY <1>1, <1>2, <1>3, <1>4, <1>5, <1>6, <1>7, <1>8, <1>10, <1>11, <1>12, <1>13, <1>14,
     <1>15, <1>16, <1>17, <1>18, <1>19, <1>20, <1>21, <1>22, <1>23, <1>24, <1>25, <1>26,
     <1>27
     DEF Next, Environment, Application, Update, Action

\* The initial state is typed.
LEMMA InitType == Init => TypeOK
<1>1. <<>> \in Seq(Status) /\ <<>> \in Seq(Tasks) /\ 0 \in 0 .. MaxEmitted
  BY ConstantsAssumption
<1>2. Absent \in SwapRecord /\ "none" \in Lockup /\ "none" \in Payout
  BY DEF Absent, SwapRecord, Lockup, Payout
<1> QED BY <1>1, <1>2 DEF Init, TypeOK

\* Every variable stays in its type.
THEOREM TypeCorrect == Spec => []TypeOK
  BY InitType, TypeStep, PTL DEF Spec

-----------------------------------------------------------------------------
(* The lock of a swap.  A step changes at most one task, and leaves the lock *)
(* alone, takes it or releases it; one lemma for each.                       *)

\* A poll reply in flight belongs to the status handler, not to an action.
PollsOnlySave ==
    \A t \in Tasks : Busy(t) /\ task[t].stage = "answered"
        => task[t].by = "handler" /\ task[t].op = "save"

LockInv == TypeOK /\ LockIsExact /\ PollsOnlySave

\* Only the task t is touched.
OthersKeep(t) == \A u \in Tasks \ {t} : task'[u] = task[u]

\* A step of a task that is in its action before and after, or neither.
LEMMA LockKept ==
  ASSUME LockIsExact, NEW t \in Tasks, OthersKeep(t), inProgress' = inProgress,
         Acting(t)' <=> Acting(t),
         Acting(t) => task'[t].swap = task[t].swap
  PROVE  LockIsExact'
<1>1. \A u \in Tasks : (Acting(u)' <=> Acting(u)) /\ (Acting(u) => task'[u].swap = task[u].swap)
  BY DEF OthersKeep, Acting
<1> QED BY <1>1 DEF LockIsExact

\* The step with which an action takes the lock it found free.
LEMMA LockTaken ==
  ASSUME LockIsExact, NEW t \in Tasks, NEW s \in Swaps, OthersKeep(t),
         ~Acting(t), Acting(t)', task'[t].swap = s,
         s \notin inProgress, inProgress' = inProgress \cup {s}
  PROVE  LockIsExact'
<1>1. \A u \in Tasks \ {t} : /\ Acting(u)' <=> Acting(u)
                             /\ task'[u].swap = task[u].swap
                             /\ Acting(u) => task[u].swap # s
  BY DEF OthersKeep, Acting, LockIsExact
<1> QED BY <1>1 DEF LockIsExact

\* The step with which it ends.
LEMMA LockReleased ==
  ASSUME LockIsExact, TypeOK, NEW t \in Tasks, Busy(t), FinishAction(t)
  PROVE  LockIsExact' /\ OthersKeep(t) /\ task'[t] = Idle
<1>1. OthersKeep(t) /\ task'[t] = Idle
  BY DEF FinishAction, EndTask, TypeOK, OthersKeep
<1>2. ~Acting(t)'
  BY <1>1 DEF Acting
<1>3. \A u \in Tasks \ {t} : (Acting(u)' <=> Acting(u)) /\ task'[u].swap = task[u].swap
  BY <1>1 DEF OthersKeep, Acting
<1>4. CASE Acting(t)
  <2>1. inProgress' = inProgress \ {task[t].swap}
    BY <1>4 DEF FinishAction
  <2>2. \A u \in Tasks \ {t} : Acting(u) => task[u].swap # task[t].swap
    BY <1>4 DEF LockIsExact
  <2> QED BY <1>1, <1>2, <1>3, <2>1, <2>2, <1>4 DEF LockIsExact
<1>5. CASE ~Acting(t)
  <2>1. inProgress' = inProgress
    BY <1>5 DEF FinishAction
  <2> QED BY <1>1, <1>2, <1>3, <2>1, <1>5 DEF LockIsExact
<1> QED BY <1>1, <1>4, <1>5

\* What the operators over a task leave in it.
LEMMA SetTaskEffect ==
  ASSUME TypeOK, NEW t \in Tasks, NEW stage, NEW s, NEW by, NEW op, NEW record,
         SetTask(t, stage, s, by, op, record)
  PROVE  /\ OthersKeep(t)
         /\ task'[t] # Idle
         /\ task'[t].stage = stage /\ task'[t].swap = s /\ task'[t].by = by
         /\ task'[t].op = op /\ task'[t].record = record
<1>1. /\ OthersKeep(t)
      /\ task'[t] = [stage |-> stage, swap |-> s, by |-> by, op |-> op, record |-> record]
  BY DEF SetTask, TypeOK, OthersKeep
<1>2. [stage |-> stage, swap |-> s, by |-> by, op |-> op, record |-> record] # Idle
  <2>1. "swap" \in DOMAIN [stage |-> stage, swap |-> s, by |-> by, op |-> op, record |-> record]
    OBVIOUS
  <2>2. "swap" \notin DOMAIN Idle
    BY DEF Idle
  <2> QED BY <2>1, <2>2
<1> QED BY <1>1, <1>2

\* Ending a task frees its slot and leaves the other tasks alone.
LEMMA EndTaskEffect ==
  ASSUME TypeOK, NEW t \in Tasks, EndTask(t)
  PROVE  OthersKeep(t) /\ task'[t] = Idle
BY DEF EndTask, TypeOK, OthersKeep

\* An invocation of the status handler starts from a task that is not in an
\* action, and its task is not in one when it awaits the write.
LEMMA HandleStatusEffect ==
  ASSUME TypeOK, NEW t \in Tasks, NEW s, NEW status, HandleStatus(t, s, status),
         ~Acting(t)
  PROVE  /\ OthersKeep(t) /\ ~Acting(t)'
         /\ task'[t] = Idle \/ task'[t].stage = "writing"
<1>1. CASE status = mem[s].status
  BY <1>1, EndTaskEffect DEF HandleStatus, Acting
<1>2. CASE status # mem[s].status
  <2>1. SetTask(t, "writing", s, "handler", "save", [mem[s] EXCEPT !.status = status])
    BY <1>2 DEF HandleStatus, RequestWrite
  <2>2. /\ OthersKeep(t) /\ task'[t] # Idle
        /\ task'[t].stage = "writing" /\ task'[t].op = "save"
    BY <2>1, SetTaskEffect
  <2> QED BY <2>2 DEF Acting
<1> QED BY <1>1, <1>2

\* A write of a copy stays with the caller and the operation of its task.
LEMMA SaveCopyEffect ==
  ASSUME TypeOK, NEW t \in Tasks, Busy(t), NEW status, NEW refunded,
         SaveCopy(t, status, refunded)
  PROVE  /\ OthersKeep(t) /\ (Acting(t)' <=> Acting(t))
         /\ task'[t].swap = task[t].swap
         /\ task'[t].stage = "writing"
         /\ task'[t].record = [status |-> status, refunded |-> refunded]
         /\ Busy(t)'
<1>1. SetTask(t, "writing", task[t].swap, task[t].by, task[t].op,
              [status |-> status, refunded |-> refunded])
  BY DEF SaveCopy, RequestWrite
<1>2. /\ OthersKeep(t) /\ task'[t] # Idle /\ task'[t].stage = "writing"
      /\ task'[t].swap = task[t].swap /\ task'[t].by = task[t].by
      /\ task'[t].op = task[t].op
      /\ task'[t].record = [status |-> status, refunded |-> refunded]
  BY <1>1, SetTaskEffect
<1> QED BY <1>2 DEF Acting

\* Asking for the status keeps the task, its lock and its swap.
LEMMA ReadStatusEffect ==
  ASSUME TypeOK, NEW t \in Tasks, Busy(t), ReadStatus(t)
  PROVE  /\ OthersKeep(t) /\ (Acting(t)' <=> Acting(t))
         /\ task'[t].swap = task[t].swap
         /\ task'[t].stage = "fetching"
         /\ task'[t].record = task[t].record
         /\ Busy(t)'
<1>1. task[t] \in BusyTask
  BY BusyFields
<1>2. task'[t] = [task[t] EXCEPT !.stage = "fetching"] /\ OthersKeep(t)
  BY DEF ReadStatus, TypeOK, OthersKeep
<1>3. task'[t] # Idle /\ task'[t].stage = "fetching"
  BY <1>1, <1>2 DEF BusyTask, Idle
<1> QED BY <1>1, <1>2, <1>3 DEF Acting, BusyTask

\* The task of a status that Boltz has answered.
LEMMA StatusAnsweredEffect ==
  ASSUME TypeOK, NEW t \in Tasks, StatusAnswered(t)
  PROVE  /\ OthersKeep(t) /\ (Acting(t)' <=> Acting(t))
         /\ task'[t].swap = task[t].swap
         /\ task'[t].stage = "fetched"
         /\ task'[t].record.status = server[task[t].swap]
         /\ Busy(t)'
<1>1. task[t] \in BusyTask /\ task[t].record \in SwapRecord
  BY BusyFields DEF StatusAnswered
<1>2. /\ task'[t] = [task[t] EXCEPT !.stage = "fetched",
                                    !.record.status = server[task[t].swap]]
      /\ OthersKeep(t)
  BY DEF StatusAnswered, TypeOK, OthersKeep
<1>3. /\ task'[t].stage = "fetched" /\ task'[t].swap = task[t].swap
      /\ task'[t].by = task[t].by /\ task'[t].op = task[t].op
  BY <1>1, <1>2 DEF BusyTask
<1>4. task'[t] # Idle
  BY <1>3 DEF Idle
<1>5. task'[t].record.status = server[task[t].swap]
  <2>1. task'[t].record = [task[t].record EXCEPT !.status = server[task[t].swap]]
    BY <1>1, <1>2 DEF BusyTask
  <2> QED BY <2>1, <1>1 DEF SwapRecord
<1>6. Busy(t)
  BY DEF StatusAnswered
<1> QED BY <1>2, <1>3, <1>4, <1>5, <1>6 DEF Acting

\* The last part of the status handler, or the start of its action.
LEMMA AfterSaveLock ==
  ASSUME LockInv, NEW t \in Tasks, NEW s \in Swaps, AfterSave(t, s), ~Acting(t)
  PROVE  LockIsExact' /\ OthersKeep(t) /\ (task'[t] = Idle \/ task'[t].stage = "acting")
<1> USE DEF LockInv
<1>1. CASE AutoActions /\ s \notin inProgress /\ ActionFor(s, mem[s].status) # "none"
  <2>1. /\ SetTask(t, "acting", s, "handler", ActionFor(s, mem[s].status), mem[s])
        /\ inProgress' = inProgress \cup {s}
    BY <1>1 DEF AfterSave
  <2>2. ActionFor(s, mem[s].status) # "save"
    BY ActionForType
  <2>3. /\ OthersKeep(t) /\ task'[t] # Idle /\ task'[t].swap = s /\ task'[t].stage = "acting"
        /\ task'[t].by = "handler" /\ task'[t].op = ActionFor(s, mem[s].status)
    BY <2>1, SetTaskEffect
  <2>4. Acting(t)'
    BY <2>2, <2>3 DEF Acting
  <2> QED BY <1>1, <2>1, <2>3, <2>4, LockTaken
<1>2. CASE ~(AutoActions /\ s \notin inProgress /\ ActionFor(s, mem[s].status) # "none")
  <2>1. EndTask(t) /\ inProgress' = inProgress
    BY <1>2 DEF AfterSave
  <2>2. OthersKeep(t) /\ task'[t] = Idle /\ ~Acting(t)'
    BY <2>1, EndTaskEffect DEF Acting
  <2> QED BY <2>1, <2>2, LockKept
<1> QED BY <1>1, <1>2

\* A task that changes to one that is not an answered poll keeps PollsOnlySave.
LEMMA PollsKept ==
  ASSUME PollsOnlySave, NEW t \in Tasks, OthersKeep(t),
         task'[t] = Idle \/ task'[t].stage # "answered"
  PROVE  PollsOnlySave'
  BY DEF PollsOnlySave, OthersKeep

\* The lock stays exact in every step.
LEMMA LockStep == LockInv /\ [Next]_vars => LockIsExact' /\ PollsOnlySave'
<1> SUFFICES ASSUME LockInv, [Next]_vars PROVE LockIsExact' /\ PollsOnlySave'
  OBVIOUS
<1> USE DEF LockInv
<1>1. ASSUME UNCHANGED task, UNCHANGED inProgress PROVE LockIsExact' /\ PollsOnlySave'
  BY <1>1 DEF LockIsExact, PollsOnlySave, Acting
<1>2. CASE Environment
  BY <1>2, <1>1 DEF Environment, ServerMove, FundLockup, LocktimePasses, WebSocketDrops,
     manager
<1>3. ASSUME NEW s \in Swaps, RemoveSwap(s) PROVE LockIsExact' /\ PollsOnlySave'
  BY <1>3, <1>1 DEF RemoveSwap
<1>4. ASSUME NEW t \in Tasks, IdleTask(t), NEW stage \in {"writing", "acting", "fetching"},
             NEW s, NEW by \in {"create", "manual", "refresh"}, NEW op, NEW record,
             SetTask(t, stage, s, by, op, record), UNCHANGED inProgress
      PROVE  LockIsExact' /\ PollsOnlySave'
  <2>1. OthersKeep(t) /\ task'[t].stage # "answered" /\ ~Acting(t) /\ ~Acting(t)'
    BY <1>4, SetTaskEffect DEF Acting
  <2> QED BY <1>4, <2>1, LockKept, PollsKept
<1>5. ASSUME NEW t \in Tasks, NEW s \in Swaps,
             CreateSwap(t, s) \/ RefreshStatus(t, s)
      PROVE  LockIsExact' /\ PollsOnlySave'
  BY <1>4, <1>5 DEF CreateSwap, RequestWrite, RefreshStatus, manager
<1>6. ASSUME NEW t \in Tasks, NEW s \in Swaps, NEW op, ManualAction(t, s, op)
      PROVE  LockIsExact' /\ PollsOnlySave'
  BY <1>4, <1>6 DEF ManualAction, manager
<1>7. ASSUME NEW t \in Tasks, Busy(t), FinishAction(t) PROVE LockIsExact' /\ PollsOnlySave'
  BY <1>7, LockReleased, PollsKept
<1>8. ASSUME NEW t \in Tasks, NEW status, NEW refunded, Busy(t),
             SaveCopy(t, status, refunded), UNCHANGED inProgress
      PROVE  LockIsExact' /\ PollsOnlySave'
  <2>1. /\ OthersKeep(t) /\ (Acting(t)' <=> Acting(t)) /\ task'[t].swap = task[t].swap
        /\ task'[t].stage = "writing"
    BY <1>8, SaveCopyEffect
  <2> QED BY <1>8, <2>1, LockKept, PollsKept
<1>9. ASSUME NEW t \in Tasks, Busy(t), ReadStatus(t), UNCHANGED inProgress
      PROVE  LockIsExact' /\ PollsOnlySave'
  <2>1. /\ OthersKeep(t) /\ (Acting(t)' <=> Acting(t)) /\ task'[t].swap = task[t].swap
        /\ task'[t].stage = "fetching"
    BY <1>9, ReadStatusEffect
  <2> QED BY <1>9, <2>1, LockKept, PollsKept
<1>10. ASSUME NEW t \in Tasks, PollReply(t) PROVE LockIsExact' /\ PollsOnlySave'
  <2>1. ~Acting(t) /\ HandleStatus(t, task[t].swap, task[t].record.status)
    BY <1>10 DEF PollReply, PollsOnlySave, Acting
  <2>2. OthersKeep(t) /\ ~Acting(t)' /\ (task'[t] = Idle \/ task'[t].stage = "writing")
    BY <2>1, HandleStatusEffect
  <2>3. inProgress' = inProgress
    BY <1>10 DEF PollReply
  <2> QED BY <2>1, <2>2, <2>3, LockKept, PollsKept
<1>11. ASSUME NEW t \in Tasks, PollFails(t) PROVE LockIsExact' /\ PollsOnlySave'
  <2>1. ~Acting(t) /\ OthersKeep(t) /\ task'[t] = Idle /\ inProgress' = inProgress
    BY <1>11, EndTaskEffect DEF PollFails, PollsOnlySave, Acting, manager
  <2>2. ~Acting(t)'
    BY <2>1 DEF Acting
  <2> QED BY <2>1, <2>2, LockKept, PollsKept
<1>12. ASSUME NEW t \in Tasks, WriteCommits(t) PROVE LockIsExact' /\ PollsOnlySave'
  <2>1. Busy(t) /\ task[t].swap \in Swaps
    BY <1>12, BusyFields DEF WriteCommits
  <2>2. CASE task[t].by = "create"
    <3>1. ~Acting(t) /\ OthersKeep(t) /\ task'[t] = Idle /\ inProgress' = inProgress
      BY <1>12, <2>2, EndTaskEffect DEF WriteCommits, Acting
    <3>2. ~Acting(t)'
      BY <3>1 DEF Acting
    <3> QED BY <3>1, <3>2, LockKept, PollsKept
  <2>3. CASE task[t].by = "handler" /\ task[t].op = "save"
    <3>1. AfterSave(t, task[t].swap) /\ ~Acting(t)
      BY <1>12, <2>3 DEF WriteCommits, Acting
    <3> QED BY <3>1, <2>1, AfterSaveLock, PollsKept
  <2>4. CASE ~(task[t].by = "create") /\ ~(task[t].by = "handler" /\ task[t].op = "save")
    <3>1. FinishAction(t)
      BY <1>12, <2>4 DEF WriteCommits
    <3> QED BY <3>1, <2>1, <1>7
  <2> QED BY <2>2, <2>3, <2>4
<1>13. ASSUME NEW t \in Tasks, WriteFails(t) PROVE LockIsExact' /\ PollsOnlySave'
  <2>1. CASE task[t].op = "save"
    <3>1. ~Acting(t) /\ OthersKeep(t) /\ task'[t] = Idle /\ inProgress' = inProgress
      BY <1>13, <2>1, EndTaskEffect DEF WriteFails, Acting
    <3>2. ~Acting(t)'
      BY <3>1 DEF Acting
    <3> QED BY <3>1, <3>2, LockKept, PollsKept
  <2>2. CASE task[t].op # "save"
    BY <1>13, <2>2, <1>7 DEF WriteFails
  <2> QED BY <2>1, <2>2
<1>14. ASSUME NEW t \in Tasks, ClaimCoins(t) PROVE LockIsExact' /\ PollsOnlySave'
  BY <1>14, <1>7, <1>8, <1>9 DEF ClaimCoins, Doing
<1>15. ASSUME NEW t \in Tasks, RefundCoins(t) PROVE LockIsExact' /\ PollsOnlySave'
  BY <1>15, <1>8, <1>9 DEF RefundCoins, Doing, manager
<1>16. ASSUME NEW t \in Tasks, SkipRefund(t) PROVE LockIsExact' /\ PollsOnlySave'
  BY <1>16, <1>8 DEF SkipRefund, Doing, manager
<1>17. ASSUME NEW t \in Tasks, SignServerClaim(t) \/ ActionFails(t) \/ StatusFails(t)
       PROVE LockIsExact' /\ PollsOnlySave'
  BY <1>17, <1>7 DEF SignServerClaim, ActionFails, StatusFails, Doing
<1>18. ASSUME NEW t \in Tasks, StatusAnswered(t) PROVE LockIsExact' /\ PollsOnlySave'
  <2>1. /\ OthersKeep(t) /\ (Acting(t)' <=> Acting(t)) /\ task'[t].swap = task[t].swap
        /\ task'[t].stage = "fetched"
    BY <1>18, StatusAnsweredEffect
  <2>2. inProgress' = inProgress
    BY <1>18 DEF StatusAnswered, manager
  <2> QED BY <2>1, <2>2, LockKept, PollsKept
<1>19. ASSUME NEW t \in Tasks, StatusArrives(t) PROVE LockIsExact' /\ PollsOnlySave'
  BY <1>19, <1>8 DEF StatusArrives, manager
<1>20. ASSUME NEW t \in Tasks, NEW s \in Swaps, WebSocketMessage(t, s)
       PROVE LockIsExact' /\ PollsOnlySave'
  <2>1. CASE s \in monitored
    <3>1. ~Acting(t) /\ HandleStatus(t, s, Head(ws[s])) /\ inProgress' = inProgress
      BY <1>20, <2>1 DEF WebSocketMessage, Acting
    <3>2. OthersKeep(t) /\ ~Acting(t)' /\ (task'[t] = Idle \/ task'[t].stage = "writing")
      BY <3>1, HandleStatusEffect
    <3> QED BY <3>1, <3>2, LockKept, PollsKept
  <2>2. CASE s \notin monitored
    BY <1>20, <2>2, <1>1 DEF WebSocketMessage
  <2> QED BY <2>1, <2>2
<1>21. ASSUME NEW t \in Tasks, NEW s \in Swaps, PollSwap(t, s)
       PROVE LockIsExact' /\ PollsOnlySave'
  <2>1. /\ OthersKeep(t) /\ task'[t].by = "handler" /\ task'[t].op = "save"
        /\ inProgress' = inProgress /\ ~Acting(t)
    <3>1. /\ SetTask(t, "answered", s, "handler", "save", [mem[s] EXCEPT !.status = server[s]])
          /\ inProgress' = inProgress /\ IdleTask(t)
      BY <1>21 DEF PollSwap, manager
    <3>2. OthersKeep(t) /\ task'[t].by = "handler" /\ task'[t].op = "save"
      BY <3>1, SetTaskEffect
    <3> QED BY <3>1, <3>2 DEF Acting
  <2>2. ~Acting(t)'
    BY <2>1 DEF Acting
  <2>3. LockIsExact'
    BY <2>1, <2>2, LockKept
  <2>4. PollsOnlySave'
    BY <2>1 DEF PollsOnlySave, OthersKeep
  <2> QED BY <2>3, <2>4
<1>22. ASSUME NEW t \in Tasks, NEW s \in Swaps, ResumeSwap(t, s)
       PROVE LockIsExact' /\ PollsOnlySave'
  <2>1. CASE s \in monitored /\ s \notin inProgress /\ ActionFor(s, mem[s].status) # "none"
    <3>1. /\ SetTask(t, "acting", s, "resume", ActionFor(s, mem[s].status), mem[s])
          /\ inProgress' = inProgress \cup {s} /\ IdleTask(t)
      BY <1>22, <2>1 DEF ResumeSwap
    <3>2. ActionFor(s, mem[s].status) # "save"
      BY ActionForType
    <3>3. /\ OthersKeep(t) /\ task'[t] # Idle /\ task'[t].swap = s /\ task'[t].stage = "acting"
          /\ task'[t].by = "resume" /\ task'[t].op = ActionFor(s, mem[s].status)
      BY <3>1, SetTaskEffect
    <3>4. ~Acting(t) /\ Acting(t)'
      BY <3>1, <3>2, <3>3 DEF Acting
    <3> QED BY <2>1, <3>1, <3>3, <3>4, LockTaken, PollsKept
  <2>2. CASE ~(s \in monitored /\ s \notin inProgress /\ ActionFor(s, mem[s].status) # "none")
    BY <1>22, <2>2, <1>1 DEF ResumeSwap
  <2> QED BY <2>1, <2>2
<1>23. CASE Start
  BY <1>23, <1>1 DEF Start
<1>24. CASE Crash
  BY <1>24 DEF Crash, LockIsExact, PollsOnlySave, Acting
<1>25. CASE UNCHANGED vars
  BY <1>25, <1>1 DEF vars, manager
<1> QED
  BY <1>2, <1>3, <1>5, <1>6, <1>10, <1>11, <1>12, <1>13, <1>14, <1>15, <1>16, <1>17, <1>18,
     <1>19, <1>20, <1>21, <1>22, <1>23, <1>24, <1>25
     DEF Next, Application, Update, Action

\* swapsInProgress is exact: a swap is in it exactly while one task, and never
\* two, is inside one of the swap's autonomous actions.
THEOREM LockExact == Spec => []LockIsExact
<1>1. Init => LockInv
  <2>1. Init => TypeOK
    BY InitType
  <2> QED BY <2>1 DEF Init, LockInv, LockIsExact, PollsOnlySave, Acting
<1>2. LockInv /\ [Next]_vars => LockInv'
  BY TypeStep, LockStep DEF LockInv
<1>3. LockInv => LockIsExact
  BY DEF LockInv
<1> QED BY <1>1, <1>2, <1>3, PTL DEF Spec

-----------------------------------------------------------------------------
(* The refinement of SwapLock.  Whatever a step is, it changes at most one    *)
(* task, and that task does not pass from an action of one swap straight to   *)
(* one of another; with the exact lock before and after, the step is then an  *)
(* acquisition, a release or none of the abstract lock's business.            *)

\* The task t does not move from inside an action of one swap to another's.
SwapKept(t) == Acting(t) /\ Acting(t)' => task'[t].swap = task[t].swap

OneTask(t) == OthersKeep(t) /\ SwapKept(t)

SingleTask == UNCHANGED task \/ \E t \in Tasks : OneTask(t)

\* The tasks a step starts or ends.
LEMMA OneTaskSets ==
  ASSUME TypeOK, NEW t \in Tasks, ~Acting(t), NEW stage, NEW s, NEW by, NEW op, NEW record,
         SetTask(t, stage, s, by, op, record)
  PROVE  OneTask(t)
BY SetTaskEffect DEF OneTask, SwapKept

LEMMA OneTaskEnds ==
  ASSUME TypeOK, NEW t \in Tasks, EndTask(t)
  PROVE  OneTask(t)
<1>1. OthersKeep(t) /\ task'[t] = Idle
  BY EndTaskEffect
<1> QED BY <1>1 DEF OneTask, SwapKept, Acting

\* Every step but the crash changes at most one task.
LEMMA SingleStep == LockInv /\ [Next]_vars /\ ~Crash => SingleTask
<1> SUFFICES ASSUME LockInv, [Next]_vars, ~Crash PROVE SingleTask
  OBVIOUS
<1> USE DEF LockInv
<1>1. ASSUME UNCHANGED task PROVE SingleTask
  BY <1>1 DEF SingleTask
<1>2. ASSUME NEW t \in Tasks, OneTask(t) PROVE SingleTask
  BY <1>2 DEF SingleTask
<1>3. ASSUME NEW t \in Tasks, FinishAction(t) PROVE SingleTask
  BY <1>3, <1>2, OneTaskEnds DEF FinishAction
<1>4. ASSUME NEW t \in Tasks, NEW status, NEW refunded, Busy(t), SaveCopy(t, status, refunded)
      PROVE  SingleTask
  <2>1. OthersKeep(t) /\ task'[t].swap = task[t].swap
    BY <1>4, SaveCopyEffect
  <2> QED BY <2>1, <1>2 DEF OneTask, SwapKept
<1>5. ASSUME NEW t \in Tasks, Busy(t), ReadStatus(t) PROVE SingleTask
  <2>1. OthersKeep(t) /\ task'[t].swap = task[t].swap
    BY <1>5, ReadStatusEffect
  <2> QED BY <2>1, <1>2 DEF OneTask, SwapKept
<1>6. ASSUME NEW t \in Tasks, NEW s, NEW status, ~Acting(t), HandleStatus(t, s, status)
      PROVE  SingleTask
  <2>1. OthersKeep(t) /\ ~Acting(t)'
    BY <1>6, HandleStatusEffect
  <2> QED BY <2>1, <1>2 DEF OneTask, SwapKept
<1>7. CASE Environment
  BY <1>7, <1>1 DEF Environment, ServerMove, FundLockup, LocktimePasses, WebSocketDrops
<1>8. CASE Application
  <2>1. ASSUME NEW s \in Swaps, RemoveSwap(s) PROVE SingleTask
    BY <2>1, <1>1 DEF RemoveSwap
  <2>2. ASSUME NEW t \in Tasks, NEW s \in Swaps, CreateSwap(t, s) \/ RefreshStatus(t, s)
        PROVE  SingleTask
    BY <2>2, <1>2, OneTaskSets
       DEF CreateSwap, RequestWrite, RefreshStatus, IdleTask, Acting, Busy
  <2>3. ASSUME NEW t \in Tasks, NEW s \in Swaps, NEW op, ManualAction(t, s, op)
        PROVE  SingleTask
    BY <2>3, <1>2, OneTaskSets DEF ManualAction, IdleTask, Acting, Busy
  <2> QED BY <1>8, <2>1, <2>2, <2>3 DEF Application
<1>9. ASSUME NEW t \in Tasks, Update(t) PROVE SingleTask
  <2>1. CASE PollReply(t)
    BY <2>1, <1>6 DEF PollReply, PollsOnlySave, Acting
  <2>2. CASE PollFails(t)
    BY <2>2, <1>2, OneTaskEnds DEF PollFails
  <2>3. CASE WriteCommits(t)
    <3>1. Busy(t) /\ task[t].swap \in Swaps
      BY <2>3, BusyFields DEF WriteCommits
    <3>2. CASE task[t].by = "create"
      BY <2>3, <3>2, <1>2, OneTaskEnds DEF WriteCommits
    <3>3. CASE task[t].by = "handler" /\ task[t].op = "save"
      <4>1. AfterSave(t, task[t].swap) /\ ~Acting(t)
        BY <2>3, <3>3 DEF WriteCommits, Acting
      <4> QED BY <4>1, <1>2, OneTaskEnds, OneTaskSets DEF AfterSave
    <3>4. CASE ~(task[t].by = "create") /\ ~(task[t].by = "handler" /\ task[t].op = "save")
      BY <2>3, <3>4, <1>3 DEF WriteCommits
    <3> QED BY <3>2, <3>3, <3>4
  <2>4. CASE WriteFails(t)
    BY <2>4, <1>2, <1>3, OneTaskEnds DEF WriteFails
  <2> QED BY <1>9, <2>1, <2>2, <2>3, <2>4 DEF Update
<1>10. ASSUME NEW t \in Tasks, Action(t) PROVE SingleTask
  <2>1. CASE ClaimCoins(t)
    BY <2>1, <1>3, <1>4, <1>5 DEF ClaimCoins, Doing
  <2>2. CASE RefundCoins(t)
    BY <2>2, <1>4, <1>5 DEF RefundCoins, Doing
  <2>3. CASE SkipRefund(t)
    BY <2>3, <1>4 DEF SkipRefund, Doing
  <2>4. CASE SignServerClaim(t) \/ ActionFails(t) \/ StatusFails(t)
    BY <2>4, <1>3 DEF SignServerClaim, ActionFails, StatusFails
  <2>5. CASE StatusAnswered(t)
    <3>1. OthersKeep(t) /\ task'[t].swap = task[t].swap
      BY <2>5, StatusAnsweredEffect
    <3> QED BY <3>1, <1>2 DEF OneTask, SwapKept
  <2>6. CASE StatusArrives(t)
    BY <2>6, <1>4 DEF StatusArrives
  <2> QED BY <1>10, <2>1, <2>2, <2>3, <2>4, <2>5, <2>6 DEF Action
<1>11. ASSUME NEW t \in Tasks, NEW s \in Swaps, WebSocketMessage(t, s) PROVE SingleTask
  <2>1. CASE s \in monitored
    BY <1>11, <2>1, <1>6 DEF WebSocketMessage, IdleTask, Acting, Busy
  <2>2. CASE s \notin monitored
    BY <1>11, <2>2, <1>1 DEF WebSocketMessage
  <2> QED BY <2>1, <2>2
<1>12. ASSUME NEW t \in Tasks, NEW s \in Swaps, PollSwap(t, s) PROVE SingleTask
  BY <1>12, <1>2, OneTaskSets DEF PollSwap, IdleTask, Acting, Busy
<1>13. ASSUME NEW t \in Tasks, NEW s \in Swaps, ResumeSwap(t, s) PROVE SingleTask
  BY <1>13, <1>1, <1>2, OneTaskSets DEF ResumeSwap, IdleTask, Acting, Busy
<1>14. CASE Start \/ UNCHANGED vars
  BY <1>14, <1>1 DEF Start, vars
<1> QED
  BY <1>7, <1>8, <1>9, <1>10, <1>11, <1>12, <1>13, <1>14 DEF Next

\* A step that changes one task takes the abstract lock, gives it back, or
\* leaves it alone.
LEMMA LockMove ==
  ASSUME TypeOK, TypeOK', LockIsExact, LockIsExact', NEW t \in Tasks, OneTask(t)
  PROVE  [Lock!Next]_Holders
<1>1. \A u \in Tasks \ {t} : (Acting(u)' <=> Acting(u)) /\ task'[u].swap = task[u].swap
  BY DEF OneTask, OthersKeep, Acting, Busy
<1>2. CASE Acting(t)' <=> Acting(t)
  <2>1. \A u \in Tasks, s \in Swaps :
           (Acting(u)' /\ task'[u].swap = s) <=> (Acting(u) /\ task[u].swap = s)
    BY <1>1, <1>2 DEF OneTask, SwapKept
  <2>2. Holders' = Holders
    BY <2>1 DEF Holders
  <2> QED BY <2>2
<1>3. CASE ~Acting(t) /\ Acting(t)'
  <2> DEFINE s == task'[t].swap
  <2>1. s \in Swaps
    BY <1>3 DEF TypeOK, Acting, Busy, BusyTask
  <2>2. \A u \in Tasks : ~(Acting(u) /\ task[u].swap = s)
    BY <1>1, <1>3 DEF LockIsExact
  <2>3. Holders[s] = {}
    BY <2>1, <2>2 DEF Holders
  <2>4. \A r \in Swaps : Holders'[r] = IF r = s THEN {t} ELSE Holders[r]
    BY <1>1, <1>3, <2>2 DEF Holders
  <2>5. Holders' = [Holders EXCEPT ![s] = {t}]
    BY <2>4 DEF Holders
  <2>6. Lock!Acquire(s, t)
    BY <2>3, <2>5 DEF Lock!Acquire
  <2> QED BY <2>1, <2>6 DEF Lock!Next
<1>4. CASE Acting(t) /\ ~Acting(t)'
  <2> DEFINE s == task[t].swap
  <2>1. s \in Swaps
    BY <1>4, BusyFields DEF Acting
  <2>2. \A u \in Tasks : (Acting(u) /\ task[u].swap = s) <=> u = t
    BY <1>4 DEF LockIsExact
  <2>3. Holders[s] = {t}
    BY <2>1, <2>2 DEF Holders
  <2>4. \A r \in Swaps : Holders'[r] = IF r = s THEN {} ELSE Holders[r]
    BY <1>1, <1>4, <2>2 DEF Holders
  <2>5. Holders' = [Holders EXCEPT ![s] = {}]
    BY <2>4 DEF Holders
  <2>6. Lock!Release(s, t)
    BY <2>3, <2>5 DEF Lock!Release
  <2> QED BY <2>1, <2>6 DEF Lock!Next
<1> QED BY <1>2, <1>3, <1>4

\* Every step of SwapManager is one of the abstract lock, or none of it.
LEMMA LockRefinesStep ==
  LockInv /\ LockInv' /\ [Next]_vars => [Lock!Next]_Holders
<1> SUFFICES ASSUME LockInv, LockInv', [Next]_vars PROVE [Lock!Next]_Holders
  OBVIOUS
<1> USE DEF LockInv
<1>1. CASE Crash
  <2>1. \A t \in Tasks : ~Acting(t)'
    BY <1>1 DEF Crash, Acting, Busy
  <2>2. Holders' = [s \in Swaps |-> {}]
    BY <2>1 DEF Holders
  <2> QED BY <2>2 DEF Lock!Next, Lock!Reset
<1>2. CASE UNCHANGED task
  BY <1>2 DEF Holders, Acting, Busy
<1>3. ASSUME NEW t \in Tasks, OneTask(t) PROVE [Lock!Next]_Holders
  BY <1>3, LockMove
<1> QED BY <1>1, <1>2, <1>3, SingleStep DEF SingleTask

\* The handlers and the resume loop use swapsInProgress as the abstract lock:
\* one holder per swap at a time, the next only after it has released.
THEOREM LockImplemented == Spec => LockIsImplemented
<1>1. Init => LockInv
  <2>1. Init => TypeOK
    BY InitType
  <2> QED BY <2>1 DEF Init, LockInv, LockIsExact, PollsOnlySave, Acting
<1>2. LockInv /\ [Next]_vars => LockInv'
  BY TypeStep, LockStep DEF LockInv
<1>3. Init => Lock!Init
  <2> SUFFICES ASSUME Init PROVE Lock!Init
    OBVIOUS
  <2>1. \A t \in Tasks : ~Acting(t)
    BY DEF Init, Acting, Busy
  <2> QED BY <2>1 DEF Lock!Init, Holders
<1>4. LockInv /\ LockInv' /\ [Next]_vars => [Lock!Next]_Holders
  BY LockRefinesStep
<1> QED BY <1>1, <1>2, <1>3, <1>4, PTL DEF Spec, LockIsImplemented, Lock!Spec

-----------------------------------------------------------------------------
(* FinalIsTrue.  It is not inductive: a final status reaches an object from  *)
(* a message, a poll or a copy in flight, so those have to be true as well.  *)

TrueAt(s, status) ==
    status \in FinalStatus(kind[s]) => server[s] \in FinalStatus(kind[s])

MemTrue == \A s \in Swaps : TrueAt(s, mem[s].status)
StoredTrue == \A s \in Swaps : TrueAt(s, stored[s].status)
CompletedTrue == \A s \in Swaps : completed[s] > 0 => server[s] \in FinalStatus(kind[s])
MessagesTrue == \A s \in Swaps : \A i \in 1 .. Len(ws[s]) : TrueAt(s, ws[s][i])
TasksTrue == \A t \in Tasks : Busy(t) => TrueAt(task[t].swap, task[t].record.status)

FinalInv ==
    /\ TypeOK
    /\ MemTrue /\ StoredTrue /\ CompletedTrue /\ MessagesTrue /\ TasksTrue

\* Boltz reports nothing after a final status; the other facts about single
\* statuses that the proof needs.
LEMMA FinalFacts ==
  ASSUME NEW k \in Kind
  PROVE  /\ \A status \in FinalStatus(k) : ServerNext(k, status) = {}
         /\ "none" \notin FinalStatus(k)
         /\ CreatedStatus(k) \notin FinalStatus(k)
         /\ k = "reverse" => "transaction.claimed" \notin FinalStatus(k)
<1>1. CASE k = "reverse"
  <2>1. FinalStatus(k) = ReverseFinal
    BY <1>1 DEF FinalStatus
  <2> QED BY <1>1, <2>1 DEF ReverseFinal, ServerNext, CreatedStatus
<1>2. CASE k = "submarine"
  <2>1. FinalStatus(k) = SubmarineFinal
    BY <1>2 DEF FinalStatus
  <2> QED BY <1>2, <2>1 DEF SubmarineFinal, ServerNext, CreatedStatus
<1>3. CASE k \in {"chainToArk", "chainToBtc"}
  <2>1. FinalStatus(k) = ChainFinal
    BY <1>3 DEF FinalStatus
  <2> QED BY <1>3, <2>1 DEF ChainFinal, ServerNext, CreatedStatus
<1> QED BY <1>1, <1>2, <1>3 DEF Kind

\* A swap that has ended at Boltz stays ended, and swaps keep their kind.
LEMMA EndedStaysEnded ==
  ASSUME TypeOK, [Next]_vars
  PROVE  /\ kind' = kind
         /\ \A s \in Swaps : server[s] \in FinalStatus(kind[s]) => server'[s] \in FinalStatus(kind[s])
<1> DEFINE Ended(s) == server[s] \in FinalStatus(kind[s])
<1>1. \A s \in Swaps : kind[s] \in Kind
  BY ConstantsAssumption DEF TypeOK
<1>2. ASSUME NEW s \in Swaps, NEW status \in Status, ServerMove(s, status)
      PROVE  kind' = kind /\ \A u \in Swaps : Ended(u) => server'[u] = server[u]
  <2>1. status \in ServerNext(kind[s], server[s])
    BY <1>2 DEF ServerMove, MayReport
  <2>2. ~Ended(s)
    BY <2>1, <1>1, FinalFacts
  <2> QED BY <1>2, <2>2 DEF ServerMove, TypeOK
<1>3. ASSUME NEW t \in Tasks, NEW s \in Swaps, CreateSwap(t, s)
      PROVE  kind' = kind /\ \A u \in Swaps : Ended(u) => server'[u] = server[u]
  <2>1. ~Ended(s)
    BY <1>3, <1>1, FinalFacts DEF CreateSwap
  <2> QED BY <1>3, <2>1 DEF CreateSwap, TypeOK
<1>4. CASE UNCHANGED <<kind, server>>
  BY <1>4
<1>5. \/ \E s \in Swaps, status \in Status : ServerMove(s, status)
      \/ \E t \in Tasks, s \in Swaps : CreateSwap(t, s)
      \/ UNCHANGED <<kind, server>>
  BY DEF Next, Environment, FundLockup, LocktimePasses, WebSocketDrops, Application,
     RemoveSwap, ManualAction, RefreshStatus, Update, PollReply, PollFails, WriteCommits,
     WriteFails, Action, ClaimCoins, RefundCoins, SkipRefund, SignServerClaim, ActionFails,
     StatusAnswered, StatusArrives, StatusFails, WebSocketMessage, PollSwap, ResumeSwap,
     Start, Crash, vars, external
<1> QED BY <1>2, <1>3, <1>4, <1>5

\* What was true of a status is true after the step; each part of the
\* invariant survives a step that leaves its variable alone.
LEMMA TruthKept ==
  ASSUME FinalInv, [Next]_vars
  PROVE  /\ \A s \in Swaps : \A status : TrueAt(s, status) => TrueAt(s, status)'
         /\ UNCHANGED mem => MemTrue'
         /\ UNCHANGED stored => StoredTrue'
         /\ UNCHANGED completed => CompletedTrue'
         /\ UNCHANGED ws => MessagesTrue'
<1>1. \A s \in Swaps : \A status : TrueAt(s, status) => TrueAt(s, status)'
  BY EndedStaysEnded DEF FinalInv, TrueAt
<1>2. UNCHANGED mem => MemTrue'
  BY <1>1 DEF FinalInv, MemTrue
<1>3. UNCHANGED stored => StoredTrue'
  BY <1>1 DEF FinalInv, StoredTrue
<1>4. UNCHANGED completed => CompletedTrue'
  BY EndedStaysEnded DEF FinalInv, CompletedTrue
<1>5. UNCHANGED ws => MessagesTrue'
  BY <1>1 DEF FinalInv, MessagesTrue
<1> QED BY <1>1, <1>2, <1>3, <1>4, <1>5

\* A step that changes one task, whose record is true afterwards.
LEMMA TasksKept ==
  ASSUME FinalInv, [Next]_vars, NEW t \in Tasks, OthersKeep(t),
         task'[t] = Idle \/ TrueAt(task[t].swap, task[t].record.status)'
  PROVE  TasksTrue'
<1>1. ASSUME NEW u \in Tasks, Busy(u)'
      PROVE  TrueAt(task[u].swap, task[u].record.status)'
  <2>1. CASE u = t
    BY <1>1, <2>1
  <2>2. CASE u # t
    <3>1. task'[u] = task[u] /\ Busy(u)
      BY <1>1, <2>2 DEF OthersKeep
    <3>2. task[u].swap \in Swaps /\ TrueAt(task[u].swap, task[u].record.status)
      BY <3>1, BusyFields DEF FinalInv, TasksTrue
    <3> QED BY <3>1, <3>2, TruthKept DEF TrueAt
  <2> QED BY <2>1, <2>2
<1> QED BY <1>1 DEF TasksTrue

\* The steps over a task, for the truth of its record.
LEMMA SetTaskTrue ==
  ASSUME FinalInv, [Next]_vars, NEW t \in Tasks, NEW stage, NEW s \in Swaps, NEW by, NEW op,
         NEW record, SetTask(t, stage, s, by, op, record), TrueAt(s, record.status)
  PROVE  TasksTrue'
<1>1. OthersKeep(t) /\ task'[t].swap = s /\ task'[t].record = record
  BY SetTaskEffect DEF FinalInv
<1>2. TrueAt(s, record.status)'
  BY TruthKept
<1>3. TrueAt(task[t].swap, task[t].record.status)'
  BY <1>1, <1>2 DEF TrueAt
<1> QED BY <1>1, <1>3, TasksKept

\* A task that ends takes its record with it.
LEMMA EndTaskTrue ==
  ASSUME FinalInv, [Next]_vars, NEW t \in Tasks, EndTask(t)
  PROVE  TasksTrue'
  BY EndTaskEffect, TasksKept DEF FinalInv

\* The copy a callback saves carries a true status.
LEMMA SaveCopyTrue ==
  ASSUME FinalInv, [Next]_vars, NEW t \in Tasks, Busy(t), NEW status, NEW refunded,
         SaveCopy(t, status, refunded), TrueAt(task[t].swap, status)
  PROVE  TasksTrue'
<1>1. SetTask(t, "writing", task[t].swap, task[t].by, task[t].op,
              [status |-> status, refunded |-> refunded])
  BY DEF SaveCopy, RequestWrite
<1>2. [status |-> status, refunded |-> refunded].status = status
  OBVIOUS
<1>3. task[t].swap \in Swaps
  BY BusyFields DEF FinalInv
<1> QED BY <1>1, <1>2, <1>3, SetTaskTrue

\* Asking for the status leaves the record as it was.
LEMMA ReadStatusTrue ==
  ASSUME FinalInv, [Next]_vars, NEW t \in Tasks, Busy(t), ReadStatus(t)
  PROVE  TasksTrue'
<1>1. /\ OthersKeep(t) /\ task'[t].swap = task[t].swap /\ task'[t].record = task[t].record
      /\ task[t].swap \in Swaps
  BY ReadStatusEffect, BusyFields DEF FinalInv
<1>2. TrueAt(task[t].swap, task[t].record.status)
  BY DEF FinalInv, TasksTrue
<1>3. TrueAt(task[t].swap, task[t].record.status)'
  BY <1>1, <1>2, TruthKept DEF TrueAt
<1> QED BY <1>1, <1>3, TasksKept

\* A true status goes into the object and the copy to be written.
LEMMA HandleStatusTrue ==
  ASSUME FinalInv, [Next]_vars, NEW t \in Tasks, NEW s \in Swaps, NEW status,
         HandleStatus(t, s, status), TrueAt(s, status)
  PROVE  TasksTrue' /\ MemTrue'
<1>1. CASE status = mem[s].status
  BY <1>1, EndTaskTrue, TruthKept DEF HandleStatus
<1>2. CASE status # mem[s].status
  <2>1. /\ mem' = [mem EXCEPT ![s] = [mem[s] EXCEPT !.status = status]]
        /\ SetTask(t, "writing", s, "handler", "save", [mem[s] EXCEPT !.status = status])
    BY <1>2 DEF HandleStatus, RequestWrite
  <2>2. [mem[s] EXCEPT !.status = status].status = status
    BY DEF FinalInv, TypeOK, SwapRecord
  <2>3. TasksTrue'
    BY <2>1, <2>2, SetTaskTrue
  <2>4. \A u \in Swaps : (mem'[u].status = status /\ u = s) \/ mem'[u] = mem[u]
    BY <2>1, <2>2 DEF FinalInv, TypeOK
  <2>5. MemTrue'
    BY <2>4, TruthKept DEF MemTrue, FinalInv, TrueAt
  <2> QED BY <2>3, <2>5
<1> QED BY <1>1, <1>2

\* The completion event is emitted of an object with a final, hence true, status.
LEMMA FinalCheckTrue ==
  ASSUME FinalInv, [Next]_vars, NEW s \in Swaps, FinalCheck(s)
  PROVE  CompletedTrue'
<1>1. CASE IsFinal(s, mem[s])
  <2>1. \A u \in Swaps : u # s => completed'[u] = completed[u]
    BY <1>1 DEF FinalCheck, FinalInv, TypeOK
  <2>2. server[s] \in FinalStatus(kind[s])
    BY <1>1 DEF IsFinal, FinalInv, MemTrue, TrueAt
  <2> QED BY <2>1, <2>2, EndedStaysEnded DEF FinalInv, CompletedTrue
<1>2. CASE ~IsFinal(s, mem[s])
  BY <1>2, TruthKept DEF FinalCheck
<1> QED BY <1>1, <1>2

\* The end of an action keeps the records and announces only what is final.
LEMMA FinishActionTrue ==
  ASSUME FinalInv, [Next]_vars, NEW t \in Tasks, Busy(t), FinishAction(t)
  PROVE  TasksTrue' /\ CompletedTrue'
<1>1. task[t].swap \in Swaps
  BY BusyFields DEF FinalInv
<1>2. TasksTrue'
  BY EndTaskTrue DEF FinishAction
<1>3. CompletedTrue'
  BY <1>1, FinalCheckTrue, TruthKept DEF FinishAction
<1> QED BY <1>2, <1>3

FinalParts == MemTrue /\ StoredTrue /\ CompletedTrue /\ MessagesTrue /\ TasksTrue

\* Every step keeps the invariant.
LEMMA FinalStep == FinalInv /\ [Next]_vars => FinalParts'
<1> SUFFICES ASSUME FinalInv, [Next]_vars PROVE FinalParts'
  OBVIOUS
<1>0. TypeOK /\ (\A s \in Swaps : kind[s] \in Kind)
  BY ConstantsAssumption DEF FinalInv, TypeOK
<1>t. UNCHANGED task => TasksTrue'
  <2> SUFFICES ASSUME UNCHANGED task, NEW u \in Tasks, Busy(u)
               PROVE  TrueAt(task[u].swap, task[u].record.status)'
    BY DEF TasksTrue
  <2>1. task[u].swap \in Swaps /\ TrueAt(task[u].swap, task[u].record.status)
    BY BusyFields DEF FinalInv, TasksTrue
  <2> QED BY <2>1, TruthKept DEF TrueAt
<1>m. \A s \in Swaps : TrueAt(s, mem[s].status) /\ TrueAt(s, stored[s].status)
                       /\ TrueAt(s, server[s])
  BY DEF FinalInv, MemTrue, StoredTrue, TrueAt
<1>r. ASSUME NEW t \in Tasks, Busy(t)
      PROVE  /\ task[t].swap \in Swaps
             /\ TrueAt(task[t].swap, task[t].record.status)
             /\ TrueAt(task[t].swap, mem[task[t].swap].status)
  BY <1>r, <1>m, BusyFields DEF FinalInv, TasksTrue
<1>1. ASSUME NEW s \in Swaps, NEW status \in Status, ServerMove(s, status) PROVE FinalParts'
  <2>1. TasksTrue' /\ MemTrue' /\ StoredTrue' /\ CompletedTrue'
    BY <1>1, <1>t, TruthKept DEF ServerMove, storage, manager
  <2>2. MessagesTrue'
    <3>1. CASE ws' = ws
      BY <3>1, TruthKept
    <3>2. CASE ws' = [ws EXCEPT ![s] = Append(ws[s], status)]
      <4>1. server'[s] = status /\ ws[s] \in Seq(Status)
        BY <1>1 DEF ServerMove, FinalInv, TypeOK
      <4>2. \A i \in 1 .. Len(ws'[s]) :
               (i \in 1 .. Len(ws[s]) /\ ws'[s][i] = ws[s][i]) \/ ws'[s][i] = status
        BY <3>2, <4>1, <1>0 DEF TypeOK
      <4>3. \A u \in Swaps : u # s => ws'[u] = ws[u]
        BY <3>2, <1>0 DEF TypeOK
      <4>4. \A u \in Swaps : \A i \in 1 .. Len(ws'[u]) :
               (i \in 1 .. Len(ws[u]) /\ ws'[u][i] = ws[u][i]) \/ ws'[u][i] = server'[u]
        BY <4>1, <4>2, <4>3
      <4> QED BY <4>4, TruthKept DEF MessagesTrue, FinalInv, TrueAt
    <3> QED BY <1>1, <3>1, <3>2 DEF ServerMove
  <2> QED BY <2>1, <2>2 DEF FinalParts
<1>2. ASSUME NEW s \in Swaps, FundLockup(s) \/ LocktimePasses(s) PROVE FinalParts'
  BY <1>2, <1>t, TruthKept DEF FundLockup, LocktimePasses, storage, manager, FinalParts
<1>3. CASE WebSocketDrops
  <2>1. MessagesTrue'
    BY <1>3 DEF WebSocketDrops, MessagesTrue
  <2> QED BY <1>3, <2>1, <1>t, TruthKept DEF WebSocketDrops, storage, manager, FinalParts
<1>4. ASSUME NEW s \in Swaps, RemoveSwap(s) PROVE FinalParts'
  BY <1>4, <1>t, TruthKept DEF RemoveSwap, storage, FinalParts
<1>5. ASSUME NEW t \in Tasks, NEW s \in Swaps, CreateSwap(t, s) PROVE FinalParts'
  <2> DEFINE swap == [status |-> CreatedStatus(kind[s]), refunded |-> FALSE]
  <2>1. TrueAt(s, swap.status)
    BY <1>0, FinalFacts DEF TrueAt
  <2>2. SetTask(t, "writing", s, "create", "save", swap)
    BY <1>5 DEF CreateSwap, RequestWrite
  <2>3. TasksTrue'
    BY <2>1, <2>2, SetTaskTrue
  <2> QED BY <1>5, <2>3, TruthKept DEF CreateSwap, manager, FinalParts
<1>6. ASSUME NEW t \in Tasks, NEW s \in Swaps, RefreshStatus(t, s) PROVE FinalParts'
  BY <1>6, <1>m, SetTaskTrue, TruthKept DEF RefreshStatus, storage, manager, FinalParts
<1>7. ASSUME NEW t \in Tasks, NEW s \in Swaps, NEW op, ManualAction(t, s, op) PROVE FinalParts'
  BY <1>7, <1>m, SetTaskTrue, TruthKept DEF ManualAction, storage, manager, FinalParts
<1>8. ASSUME NEW t \in Tasks, PollReply(t) PROVE FinalParts'
  BY <1>8, <1>r, HandleStatusTrue, TruthKept DEF PollReply, FinalParts
<1>9. ASSUME NEW t \in Tasks, PollFails(t) PROVE FinalParts'
  BY <1>9, EndTaskTrue, TruthKept DEF PollFails, storage, manager, FinalParts
<1>10. ASSUME NEW t \in Tasks, WriteCommits(t) PROVE FinalParts'
  <2> DEFINE s == task[t].swap
             swap == task[t].record
  <2>0. Busy(t) /\ s \in Swaps /\ TrueAt(s, swap.status) /\ TrueAt(s, mem[s].status)
    BY <1>10, <1>r DEF WriteCommits
  <2>1. StoredTrue'
    <3>1. \A u \in Swaps : stored'[u] = stored[u] \/ (u = s /\ stored'[u] = swap)
      BY <1>10, <1>0 DEF WriteCommits, TypeOK
    <3> QED BY <2>0, <3>1, TruthKept DEF StoredTrue, FinalInv, TrueAt
  <2>2. MessagesTrue'
    BY <1>10, TruthKept DEF WriteCommits
  <2>3. TasksTrue' /\ MemTrue' /\ CompletedTrue'
    <3>1. CASE task[t].by = "create"
      <4>1. EndTask(t) /\ AddSwap(s, swap) /\ UNCHANGED completed
        BY <1>10, <3>1 DEF WriteCommits
      <4>2. \A u \in Swaps : mem'[u] = mem[u] \/ (u = s /\ mem'[u] = swap)
        BY <4>1, <1>0 DEF AddSwap, TypeOK
      <4>3. MemTrue'
        BY <2>0, <4>2, TruthKept DEF MemTrue, FinalInv, TrueAt
      <4> QED BY <4>1, <4>3, EndTaskTrue, TruthKept
    <3>2. CASE task[t].by = "handler" /\ task[t].op = "save"
      <4>1. AfterSave(t, s)
        BY <1>10, <3>2 DEF WriteCommits
      <4>2. CASE AutoActions /\ s \notin inProgress /\ ActionFor(s, mem[s].status) # "none"
        BY <4>1, <4>2, <2>0, SetTaskTrue, TruthKept DEF AfterSave
      <4>3. CASE ~(AutoActions /\ s \notin inProgress /\ ActionFor(s, mem[s].status) # "none")
        BY <4>1, <4>3, <2>0, EndTaskTrue, FinalCheckTrue, TruthKept DEF AfterSave
      <4> QED BY <4>2, <4>3
    <3>3. CASE ~(task[t].by = "create") /\ ~(task[t].by = "handler" /\ task[t].op = "save")
      <4>1. FinishAction(t) /\ UNCHANGED mem
        BY <1>10, <3>3 DEF WriteCommits
      <4> QED BY <4>1, <2>0, FinishActionTrue, TruthKept
    <3> QED BY <3>1, <3>2, <3>3
  <2> QED BY <2>1, <2>2, <2>3 DEF FinalParts
<1>11. ASSUME NEW t \in Tasks, WriteFails(t) PROVE FinalParts'
  <2>1. TasksTrue' /\ CompletedTrue'
    BY <1>11, EndTaskTrue, FinishActionTrue, TruthKept DEF WriteFails
  <2> QED BY <1>11, <2>1, TruthKept DEF WriteFails, FinalParts
<1>12. ASSUME NEW t \in Tasks, ClaimCoins(t) PROVE FinalParts'
  <2>1. Busy(t) /\ UNCHANGED <<mem, stored, ws>>
    BY <1>12 DEF ClaimCoins, Doing
  <2>2. TasksTrue' /\ CompletedTrue'
    <3>1. CASE FinishAction(t)
      BY <2>1, <3>1, FinishActionTrue
    <3>2. CASE ReadStatus(t) /\ UNCHANGED completed
      BY <2>1, <3>2, ReadStatusTrue, TruthKept
    <3>3. CASE /\ kind[task[t].swap] = "reverse"
               /\ SaveCopy(t, "transaction.claimed", mem[task[t].swap].refunded)
               /\ UNCHANGED completed
      <4>1. TrueAt(task[t].swap, "transaction.claimed")
        BY <2>1, <3>3, <1>r, <1>0, FinalFacts DEF TrueAt
      <4> QED BY <2>1, <3>3, <4>1, SaveCopyTrue, TruthKept
    <3> QED BY <1>12, <3>1, <3>2, <3>3 DEF ClaimCoins
  <2> QED BY <2>1, <2>2, TruthKept DEF FinalParts
<1>13. ASSUME NEW t \in Tasks, RefundCoins(t) PROVE FinalParts'
  <2>1. Busy(t) /\ UNCHANGED <<mem, stored, ws, completed>>
    BY <1>13 DEF RefundCoins, Doing, manager
  <2>2. TasksTrue'
    BY <1>13, <2>1, <1>r, ReadStatusTrue, SaveCopyTrue DEF RefundCoins
  <2> QED BY <2>1, <2>2, TruthKept DEF FinalParts
<1>14. ASSUME NEW t \in Tasks, SkipRefund(t) PROVE FinalParts'
  <2>1. Busy(t) /\ UNCHANGED <<mem, stored, ws, completed>>
    BY <1>14 DEF SkipRefund, Doing, manager
  <2>2. TasksTrue'
    BY <1>14, <2>1, <1>r, SaveCopyTrue DEF SkipRefund
  <2> QED BY <2>1, <2>2, TruthKept DEF FinalParts
<1>15. ASSUME NEW t \in Tasks, SignServerClaim(t) \/ ActionFails(t) \/ StatusFails(t)
       PROVE  FinalParts'
  <2>1. Busy(t) /\ FinishAction(t) /\ UNCHANGED <<mem, stored, ws>>
    BY <1>15 DEF SignServerClaim, ActionFails, StatusFails, Doing, storage
  <2> QED BY <2>1, FinishActionTrue, TruthKept DEF FinalParts
<1>16. ASSUME NEW t \in Tasks, StatusAnswered(t) PROVE FinalParts'
  <2>1. Busy(t) /\ UNCHANGED <<mem, stored, ws, completed, server>>
    BY <1>16 DEF StatusAnswered, storage, manager, external
  <2>2. /\ OthersKeep(t) /\ task'[t].swap = task[t].swap
        /\ task'[t].record.status = server[task[t].swap]
    BY <1>16, <1>0, StatusAnsweredEffect
  <2>3. TrueAt(task[t].swap, task[t].record.status)'
    BY <2>1, <2>2 , EndedStaysEnded, <1>0 DEF TrueAt
  <2>4. TasksTrue'
    BY <2>2, <2>3, TasksKept
  <2> QED BY <2>1, <2>4, TruthKept DEF FinalParts
<1>17. ASSUME NEW t \in Tasks, StatusArrives(t) PROVE FinalParts'
  <2>1. Busy(t) /\ UNCHANGED <<mem, stored, ws, completed>>
    BY <1>17 DEF StatusArrives, manager
  <2>2. TasksTrue'
    BY <1>17, <2>1, <1>r, SaveCopyTrue DEF StatusArrives
  <2> QED BY <2>1, <2>2, TruthKept DEF FinalParts
<1>18. ASSUME NEW t \in Tasks, NEW s \in Swaps, WebSocketMessage(t, s) PROVE FinalParts'
  <2>1. ws[s] \in Seq(Status) /\ ws[s] # <<>> /\ Len(ws[s]) \in Nat \ {0}
    BY <1>18, <1>0 DEF WebSocketMessage, TypeOK
  <2>2. TrueAt(s, Head(ws[s]))
    BY <2>1 DEF FinalInv, MessagesTrue
  <2>3. TasksTrue' /\ MemTrue'
    <3>1. CASE s \in monitored
      BY <1>18, <3>1, <2>2, HandleStatusTrue DEF WebSocketMessage
    <3>2. CASE s \notin monitored
      BY <1>18, <3>2, <1>t, TruthKept DEF WebSocketMessage
    <3> QED BY <3>1, <3>2
  <2>4. MessagesTrue'
    <3>1. \A u \in Swaps : u # s => ws'[u] = ws[u]
      BY <1>18, <1>0 DEF WebSocketMessage, TypeOK
    <3>2. ws'[s] = Tail(ws[s])
      BY <1>18, <1>0 DEF WebSocketMessage, TypeOK
    <3>3. \A i \in 1 .. Len(Tail(ws[s])) : i + 1 \in 1 .. Len(ws[s]) /\ Tail(ws[s])[i] = ws[s][i + 1]
      BY <2>1
    <3> QED BY <3>1, <3>2, <3>3, TruthKept DEF MessagesTrue, FinalInv, TrueAt
  <2> QED BY <1>18, <2>3, <2>4, TruthKept DEF WebSocketMessage, FinalParts
<1>19. ASSUME NEW t \in Tasks, NEW s \in Swaps, PollSwap(t, s) PROVE FinalParts'
  <2>1. [mem[s] EXCEPT !.status = server[s]].status = server[s]
    BY <1>0 DEF TypeOK, SwapRecord
  <2>2. TrueAt(s, [mem[s] EXCEPT !.status = server[s]].status)
    BY <2>1 DEF TrueAt
  <2>3. SetTask(t, "answered", s, "handler", "save", [mem[s] EXCEPT !.status = server[s]])
    BY <1>19 DEF PollSwap
  <2>4. TasksTrue'
    BY <2>2, <2>3, SetTaskTrue
  <2> QED BY <1>19, <2>4, TruthKept DEF PollSwap, storage, manager, FinalParts
<1>20. ASSUME NEW t \in Tasks, NEW s \in Swaps, ResumeSwap(t, s) PROVE FinalParts'
  <2>1. TasksTrue'
    BY <1>20, <1>m, <1>t, SetTaskTrue DEF ResumeSwap
  <2> QED BY <1>20, <2>1, TruthKept DEF ResumeSwap, storage, FinalParts
<1>21. CASE Start
  <2>1. \A s \in Swaps : mem'[s] = mem[s] \/ mem'[s] = stored[s]
    BY <1>21 DEF Start
  <2>2. MemTrue'
    BY <2>1, <1>m, TruthKept DEF MemTrue, TrueAt
  <2> QED BY <1>21, <2>2, <1>t, TruthKept DEF Start, storage, FinalParts
<1>22. CASE Crash
  <2>1. StoredTrue'
    BY <1>22, TruthKept DEF Crash
  <2>2. MemTrue'
    <3>1. \A s \in Swaps : mem'[s].status = "none" /\ kind'[s] \in Kind
      BY <1>22, <1>0 DEF Crash, Absent, external
    <3> QED BY <3>1, FinalFacts DEF MemTrue, TrueAt
  <2>3. CompletedTrue' /\ MessagesTrue' /\ TasksTrue'
    BY <1>22 DEF Crash, CompletedTrue, MessagesTrue, TasksTrue
  <2> QED BY <2>1, <2>2, <2>3 DEF FinalParts
<1>23. CASE UNCHANGED vars
  BY <1>23, <1>t, TruthKept DEF vars, storage, manager, FinalParts
<1> QED
  BY <1>1, <1>2, <1>3, <1>4, <1>5, <1>6, <1>7, <1>8, <1>9, <1>10, <1>11, <1>12, <1>13,
     <1>14, <1>15, <1>16, <1>17, <1>18, <1>19, <1>20, <1>21, <1>22, <1>23
     DEF Next, Environment, Application, Update, Action

\* A final status in memory, in storage or in an announced completion is a
\* status of a swap that has ended at Boltz.
THEOREM FinalTrue == Spec => []FinalIsTrue
<1>1. Init => FinalInv
  <2>1. Init => TypeOK
    BY InitType
  <2>2. ASSUME Init PROVE MemTrue /\ StoredTrue
    <3>1. \A s \in Swaps : kind[s] \in Kind /\ mem[s].status = "none" /\ stored[s].status = "none"
      BY <2>2, ConstantsAssumption DEF Init, Absent
    <3> QED BY <3>1, FinalFacts DEF MemTrue, StoredTrue, TrueAt
  <2>3. Init => CompletedTrue /\ MessagesTrue /\ TasksTrue
    BY DEF Init, CompletedTrue, MessagesTrue, TasksTrue
  <2> QED BY <2>1, <2>2, <2>3 DEF FinalInv
<1>2. FinalInv /\ [Next]_vars => FinalInv'
  BY TypeStep, FinalStep DEF FinalInv, FinalParts
<1>3. FinalInv => FinalIsTrue
  BY DEF FinalInv, FinalIsTrue, MemTrue, StoredTrue, CompletedTrue, TrueAt, IsFinal
<1> QED BY <1>1, <1>2, <1>3, PTL DEF Spec

=============================================================================
