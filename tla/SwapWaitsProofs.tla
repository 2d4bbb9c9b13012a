-------------------------- MODULE SwapWaitsProofs --------------------------
(***************************************************************************)
(* Theorems about SwapWaits, for any kinds of swap and any number of        *)
(* failures and losses: a wait resolves only for a swap that went through,  *)
(* a chain swap is claimed once, and a payment is not left locked.          *)
(***************************************************************************)
EXTENDS SwapWaits, FiniteSetTheorems, TLAPS

-----------------------------------------------------------------------------
(* Before the wait there is no socket. *)

SocketComesLate == call \in {"new", "created", "paid", "asked"} => socket = "none"

-----------------------------------------------------------------------------
(* What is told.  Success is the last thing Boltz reports, so any copy of it *)
(* (the manager's, a message, a callback's) means that the swap is done.     *)

Successful(status) == status \in SuccessStatus(kind)

Done == IF kind = "reverse" THEN payout = "claimed" ELSE lockup = "taken"

SuccessIsTrue ==
    /\ Successful(server) => Done
    /\ result = "resolved" => Successful(server)
    /\ Successful(manager.status) => Successful(server)
    /\ \A s \in steps : s.at = "txid" /\ Successful(s.status) => Successful(server)
    /\ \A n \in 1 .. Len(ws) : Successful(ws[n]) => Successful(server)

-----------------------------------------------------------------------------
(* A payment: where its coins are at each await of sendLightningPayment.     *)

Failed == count.fails + count.lost > 0

\* Something failed, or a refund was put off.
Missed == Failed \/ skipped

PaymentFollows ==
    kind = "submarine" =>
        /\ ~manager.sub /\ call # "asked"
        /\ \A s \in steps : /\ s.at \in {"reject", "txid"}
                            /\ s.at = "reject" => s.status \in SubmarineRefundable
                            /\ s.at = "txid" => Successful(s.status)
        /\ steps # {} => call \notin {"new", "created", "paid"}
        /\ call \in {"new", "created"} => lockup = "none"
        /\ call \in {"paid", "waiting", "refunding", "refunded"} => lockup # "none"
        /\ call = "refunded" => lockup = "refunded" \/ skipped
        /\ call \in {"refunding", "refunded", "done"} => result # "none"
        /\ call = "done" => lockup \in {"taken", "refunded"} \/ Missed

\* Once Boltz has refused a payment it goes on refusing it, so what a refund that
\* is put off leaves in the repository still asks for one.
Refused(status) == status \in SubmarineRefundable

Refunding == call \in {"refunding", "refunded"} \/ skipped

RefundIsKept ==
    kind = "submarine" =>
        /\ \A n \in 1 .. Len(ws) : Refused(ws[n]) => Refused(server)
        /\ \A s \in steps : s.at = "reject" => Refused(server)
        /\ steps # {} => flags.isResolved
        /\ Refunding => Refused(server) /\ flags.isResolved
        /\ skipped => call \in {"refunded", "done"}
        /\ refunded => lockup = "refunded"
        /\ skipped /\ call = "done" => Refused(stored) \/ Failed

-----------------------------------------------------------------------------
(* The claims of a chain swap without a manager: one was started at most.    *)

Claiming == {s \in steps : s.at \in {"look", "ask", "answered"}}

OneClaim ==
    IsChain(kind) /\ ~managed =>
        /\ ~manager.has
        /\ ~flags.claimStarted => Claiming = {} /\ payout # "claimed"
        /\ \A s, t \in Claiming : s = t
        /\ \A s \in steps : s.at = "look" => payout # "claimed"

Inv == TypeOK /\ SocketComesLate /\ SuccessIsTrue /\ PaymentFollows /\ RefundIsKept /\ OneClaim

-----------------------------------------------------------------------------
(* Statuses. *)

\* Nothing follows success.
LEMMA SuccessIsLast ==
  ASSUME NEW k \in Kind, NEW status \in SuccessStatus(k)
  PROVE  ServerNext(k, status) = {}
BY DEF Kind, SuccessStatus, ServerNext

\* A report of success comes with what it reports.
LEMMA SuccessReported ==
  ASSUME NEW k \in Kind, NEW from, NEW to \in SuccessStatus(k), NEW lock, NEW pay,
         MayReport(k, from, to, lock, pay)
  PROVE  IF k = "reverse" THEN PayoutAfter(k, to, pay) = "claimed"
         ELSE LockupAfter(k, to, lock) = "taken"
<1>1. CASE k = "reverse"
  <2>1. to = "invoice.settled" /\ pay = "claimed"
    BY <1>1 DEF SuccessStatus, MayReport, NeedsClaim
  <2> QED BY <1>1, <2>1 DEF PayoutAfter, LocksPayout, IsChain
<1>2. CASE k # "reverse"
  <2>1. to = "transaction.claimed"
    BY <1>2 DEF SuccessStatus
  <2> QED BY <1>2, <2>1 DEF LockupAfter, TakesLockup
<1> QED BY <1>1, <1>2

\* What a report changes: it takes a lockup that is there, and claims nothing.
LEMMA ReportKeeps ==
  ASSUME NEW k \in Kind, NEW from, NEW to, NEW lock \in Lockup, NEW pay \in Payout,
         MayReport(k, from, to, lock, pay)
  PROVE  /\ to \in Status
         /\ LockupAfter(k, to, lock) \in Lockup /\ PayoutAfter(k, to, pay) \in Payout
         /\ LockupAfter(k, to, lock) = lock
            \/ (lock = "locked" /\ LockupAfter(k, to, lock) = "taken")
         /\ PayoutAfter(k, to, pay) = "claimed" => pay = "claimed"
<1>1. to \in Status
  BY DEF MayReport, ServerNext, Status, Kind
<1>2. /\ LockupAfter(k, to, lock) \in Lockup
      /\ LockupAfter(k, to, lock) = lock
         \/ (lock = "locked" /\ LockupAfter(k, to, lock) = "taken")
  BY DEF MayReport, LockupAfter, Lockup
<1>3. /\ PayoutAfter(k, to, pay) \in Payout
      /\ PayoutAfter(k, to, pay) = "claimed" => pay = "claimed"
  BY DEF PayoutAfter, Payout
<1> QED BY <1>1, <1>2, <1>3

\* What a message leads a callback to await.
LEMMA AfterKinds ==
  ASSUME NEW status \in Status, NEW negotiable \in BOOLEAN, NEW at \in After(status, negotiable)
  PROVE  /\ at \in StepKind /\ at \notin {"look", "ask", "answered"}
         /\ at = "txid" => Successful(status)
         /\ kind = "submarine" => \/ at = "reject" /\ status \in SubmarineRefundable
                                  \/ at = "txid"
<1>1. kind = "submarine" => ClaimableStatus(kind) = {} /\ Failures(kind) = SubmarineRefundable
                            /\ ~IsChain(kind)
  BY DEF ClaimableStatus, Failures, IsChain
<1> QED BY <1>1 DEF After, StepKind, Successful

LEMMA CreatedIsNoSuccess ==
  ASSUME NEW k \in Kind
  PROVE  CreatedStatus(k) \notin SuccessStatus(k) /\ CreatedStatus(k) \in Status
BY DEF CreatedStatus, SuccessStatus, Kind, Status

\* A swap stays of its kind, and with or without a manager.
LEMMA KindStays ==
  ASSUME [Next]_vars
  PROVE  UNCHANGED <<kind, managed>>
<1> USE DEF fixed
<1>1. CASE \/ PayChain \/ Send \/ SendFails \/ VerifyFails \/ Wait
           \/ Refund \/ RefundSkips \/ RefundThrows \/ RefundFails \/ SaveRefunded
  BY <1>1 DEF PayChain, Send, SendFails, VerifyFails, Wait, Refund, RefundSkips, RefundThrows,
              RefundFails, SaveRefunded
<1>5. CASE ServerMove \/ Create
  BY <1>5, Zenon DEF ServerMove, Create
<1>2. CASE \/ Connect \/ ConnectionError \/ ConnectionCloses \/ Receive \/ Reject \/ Answer
           \/ AnswerIsNone \/ AnswerFails \/ Quote \/ QuoteFails \/ StartClaim
  BY <1>2 DEF Connect, ConnectionError, ConnectionCloses, Receive, Reject, Answer, AnswerIsNone,
              AnswerFails, Quote, QuoteFails, StartClaim
<1>3. CASE \/ Claim \/ ClaimRejected \/ ClaimFails \/ AskStatus \/ SaveClaimed
           \/ WaitForCompletion \/ ManagerHears \/ ManagerActs \/ ManagerForgets \/ ManagerLoses
  BY <1>3 DEF Claim, ClaimRejected, ClaimFails, AskStatus, SaveClaimed, WaitForCompletion,
              ManagerHears, ManagerActs, ManagerForgets, ManagerLoses
<1>4. CASE UNCHANGED vars
  BY <1>4 DEF vars
<1> QED BY <1>1, <1>2, <1>3, <1>4, <1>5 DEF Next, Own

-----------------------------------------------------------------------------
(* Types. *)

Counts == [fails : 0 .. MaxFails, lost : 0 .. MaxLost]

LEMMA SettleEffect ==
  ASSUME TypeOK, NEW r \in Result, r # "none", Settle(r)
  PROVE  /\ result' \in Result /\ call' \in Call /\ result' # "none"
         /\ call' \notin {"new", "created", "paid", "asked"}
         /\ result # "none" => result' = result /\ call' = call
         /\ result = "none" => /\ result' = r
                               /\ call' = IF r = "refundable" /\ kind = "submarine"
                                          THEN "refunding" ELSE "done"
BY DEF Settle, TypeOK, Call

LEMMA FailsEffect ==
  ASSUME TypeOK, Fails \/ Loses
  PROVE  count' \in Counts /\ Failed' /\ Missed'
<1>1. count \in Counts /\ MaxFails \in Nat /\ MaxLost \in Nat
  BY SwapWaitsAssumption DEF TypeOK, Counts
<1>2. CASE Fails
  BY <1>1, <1>2 DEF Fails, Counts, Missed, Failed
<1>3. CASE Loses
  BY <1>1, <1>3 DEF Loses, Counts, Missed, Failed
<1> QED BY <1>2, <1>3

LEMMA FollowEffect ==
  ASSUME TypeOK, NEW s \in steps, NEW at \in StepKind, Follow(s, at)
  PROVE  /\ steps' \subseteq Steps /\ s \in Steps
         /\ \E u \in Steps : /\ u.at = at /\ u.status = s.status
                             /\ steps' = (steps \ {s}) \cup {u}
<1>1. s \in Steps /\ steps \subseteq Steps
  BY DEF TypeOK
<1>2. [s EXCEPT !.at = at] \in Steps /\ [s EXCEPT !.at = at].at = at
      /\ [s EXCEPT !.at = at].status = s.status
  BY <1>1 DEF Steps
<1> QED BY <1>1, <1>2 DEF Follow

LEMMA ReceiveEffect ==
  ASSUME TypeOK, Receive
  PROVE  \E status \in Status, negotiable \in BOOLEAN :
           /\ socket = "open" /\ ws # <<>> /\ status = ws[1]
           /\ socket' \in {"open", "closed"}
           /\ ws' \in Seq(Status) /\ (socket' # "open" => ws' = <<>>)
           /\ \A n \in 1 .. Len(ws') : n + 1 \in 1 .. Len(ws) /\ ws'[n] = ws[n + 1]
           /\ steps' \subseteq Steps
           /\ \A s \in steps' : s \in steps \/ (s.status = status
                                                /\ s.at \in After(status, negotiable))
           /\ stored' \in Status /\ refunded' \in BOOLEAN /\ skipped' = skipped
           /\ flags' \in [claimStarted : BOOLEAN, isResolved : BOOLEAN]
           /\ flags'.claimStarted = flags.claimStarted
<1>1. /\ socket = "open" /\ ws # <<>> /\ ws \in Seq(Status) /\ steps \subseteq Steps
      /\ stored \in Status /\ refunded \in BOOLEAN
      /\ flags \in [claimStarted : BOOLEAN, isResolved : BOOLEAN]
  BY DEF Receive, TypeOK
<1> DEFINE status == Head(ws)
<1>2. status \in Status /\ status = ws[1]
  BY <1>1
<1>3. PICK negotiable \in BOOLEAN, closes \in BOOLEAN :
        /\ socket' = IF closes THEN "closed" ELSE socket
        /\ ws' = IF closes THEN <<>> ELSE Tail(ws)
        /\ \/ steps' = steps /\ flags' = flags
              /\ stored' = stored /\ refunded' = refunded /\ skipped' = skipped
           \/ /\ steps' = steps \cup {[at |-> at, status |-> status] :
                                        at \in After(status, negotiable)}
              /\ stored' \in {stored, status} /\ refunded' \in {refunded, FALSE}
              /\ skipped' = skipped
              /\ \E b \in BOOLEAN : flags' = [flags EXCEPT !.isResolved = b]
  <2>1. PICK negotiable \in BOOLEAN :
          LET closes == \/ status \in Closing
                        \/ status = "transaction.lockupFailed" /\ ~negotiable
          IN /\ socket' = IF closes THEN "closed" ELSE socket
             /\ ws' = IF closes THEN <<>> ELSE Tail(ws)
             /\ IF kind = "submarine" /\ flags.isResolved
                THEN UNCHANGED <<steps, record, flags>>
                ELSE /\ steps' = steps \cup {[at |-> at, status |-> status] :
                                               at \in After(status, negotiable)}
                     /\ IF kind = "submarine" /\ status = "transaction.claimed"
                        THEN UNCHANGED record ELSE Save(status)
                     /\ flags' = [flags EXCEPT !.isResolved =
                                    @ \/ (kind = "submarine" /\ After(status, negotiable) # {})]
    BY DEF Receive
  <2> DEFINE closes == \/ status \in Closing
                       \/ status = "transaction.lockupFailed" /\ ~negotiable
  <2> DEFINE b == flags.isResolved \/ (kind = "submarine" /\ After(status, negotiable) # {})
  <2>2. closes \in BOOLEAN
    OBVIOUS
  <2>3. CASE kind = "submarine" /\ flags.isResolved
    BY <2>1, <2>2, <2>3 DEF record
  <2>4. CASE ~(kind = "submarine" /\ flags.isResolved)
    <3>1. flags' = [flags EXCEPT !.isResolved = b] /\ b \in BOOLEAN
      BY <2>1, <2>4, <1>1
    <3>2. stored' \in {stored, status} /\ refunded' \in {refunded, FALSE} /\ skipped' = skipped
      BY <2>1, <2>4 DEF Save, record
    <3>3. steps' = steps \cup {[at |-> at, status |-> status] : at \in After(status, negotiable)}
      BY <2>1, <2>4
    <3> HIDE DEF b
    <3> QED BY <2>1, <2>2, <3>1, <3>2, <3>3
  <2> QED BY <2>3, <2>4
<1>4. ws' \in Seq(Status) /\ (\A n \in 1 .. Len(ws') : n + 1 \in 1 .. Len(ws) /\ ws'[n] = ws[n + 1])
  <2>1. CASE closes
    <3>1. ws' = <<>>
      BY <1>3, <2>1
    <3> QED BY <3>1
  <2>2. CASE ~closes
    <3>1. ws' = Tail(ws)
      BY <1>3, <2>2
    <3> QED BY <1>1, <3>1
  <2> QED BY <2>1, <2>2
<1> DEFINE New == {[at |-> at, status |-> status] : at \in After(status, negotiable)}
<1>10. steps' \subseteq steps \cup New
  <2> HIDE DEF New, status
  <2>1. steps' = steps \/ steps' = steps \cup New
    BY <1>3, Zenon DEF New, status
  <2> QED BY <2>1
<1>11. \A s \in New : s.status = status /\ s.at \in After(status, negotiable)
  OBVIOUS
<1>5. \A s \in steps' : s \in steps \/ (s.status = status /\ s.at \in After(status, negotiable))
  BY <1>10, <1>11, Zenon
<1>6. steps' \subseteq Steps
  <2>1. \A at \in After(status, negotiable) : [at |-> at, status |-> status] \in Steps
    BY <1>2, AfterKinds DEF Steps
  <2> QED BY <1>1, <1>10, <2>1
<1>7. /\ flags' \in [claimStarted : BOOLEAN, isResolved : BOOLEAN]
      /\ flags'.claimStarted = flags.claimStarted
  BY <1>1, <1>3
<1>8. stored' \in Status /\ refunded' \in BOOLEAN /\ skipped' = skipped
  BY <1>1, <1>2, <1>3 DEF record
<1>9. socket' \in {"open", "closed"} /\ (socket' # "open" => ws' = <<>>)
  BY <1>1, <1>2, <1>3
<1> QED BY <1>1, <1>2, <1>4, <1>5, <1>6, <1>7, <1>8, <1>9

\* Every step keeps the types.
LEMMA TypeStep ==
  ASSUME TypeOK, SocketComesLate, [Next]_vars
  PROVE  TypeOK'
<1> USE DEF fixed, boltz, wait, wire, record
<1>1. /\ kind \in Kinds /\ kind \in Kind /\ managed \in BOOLEAN
      /\ server \in Status /\ lockup \in Lockup /\ payout \in Payout
      /\ call \in Call /\ result \in Result
      /\ call \in {"new", "created", "paid", "asked"} => result = "none"
      /\ socket \in {"none", "connecting", "open", "closed"}
      /\ ws \in Seq(Status) /\ (socket # "open" => ws = <<>>)
      /\ steps \subseteq Steps
      /\ flags \in [claimStarted : BOOLEAN, isResolved : BOOLEAN]
      /\ stored \in Status /\ refunded \in BOOLEAN /\ skipped \in BOOLEAN
      /\ manager \in Manager /\ manager.status \in Status /\ count \in Counts
  BY SwapWaitsAssumption DEF TypeOK, Counts, Manager
\* (A step of the caller, of a callback or of a claim.)
<1>2. ASSUME UNCHANGED <<kind, managed, server, wire, flags, manager>>,
             lockup' \in Lockup, payout' \in Payout, call' \in Call, result' \in Result,
             call' \in {"new", "created", "paid", "asked"} => result' = "none",
             steps' \subseteq Steps, count' \in Counts,
             stored' \in Status, refunded' \in BOOLEAN, skipped' \in BOOLEAN
      PROVE  TypeOK'
  BY <1>1, <1>2 DEF TypeOK, Counts
<1>3. \A s \in steps : s \in Steps /\ s.status \in Status
  BY <1>1 DEF Steps
<1>4. CASE ServerMove
  <2>1. PICK status \in Status :
          /\ MayReport(kind, server, status, lockup, payout)
          /\ server' = status
          /\ lockup' = LockupAfter(kind, status, lockup)
          /\ payout' = PayoutAfter(kind, status, payout)
          /\ ws' = IF socket = "open" THEN Append(ws, status) ELSE ws
    BY <1>4 DEF ServerMove
  <2>2. lockup' \in Lockup /\ payout' \in Payout
    BY <1>1, <2>1, ReportKeeps
  <2>3. ws' \in Seq(Status) /\ (socket # "open" => ws' = <<>>)
    BY <1>1, <2>1
  <2> QED BY <1>1, <1>4, <2>1, <2>2, <2>3 DEF ServerMove, TypeOK, Counts
<1>5. CASE PayChain
  BY <1>1, <1>2, <1>5 DEF PayChain, Lockup
<1>6. CASE Create
  <2>1. PICK initial \in BOOLEAN : manager' = [manager EXCEPT !.has = managed, !.initial = initial]
    BY <1>1, <1>6, Zenon DEF Create
  <2>2. manager' \in Manager
    BY <1>1, <2>1 DEF Manager
  <2> QED BY <1>1, <1>6, <2>2 DEF Create, TypeOK, Counts, Call
<1>7. CASE Send
  BY <1>1, <1>2, <1>7 DEF Send, Lockup, Call
<1>8. CASE SendFails \/ VerifyFails
  BY <1>1, <1>2, <1>8, SettleEffect, FailsEffect DEF SendFails, VerifyFails, Result
<1>9. CASE Wait
  <2>1. call' \in {"asked", "waiting"} /\ result = "none" /\ ws = <<>>
        /\ socket' \in {socket, "connecting"}
    <3>1. call \in {"paid", "created"}
      BY <1>9 DEF Wait
    <3> QED BY <1>1, <1>9, <3>1 DEF Wait, SocketComesLate
  <2> QED BY <1>1, <1>9, <2>1 DEF Wait, TypeOK, Counts, Call
<1>10. CASE Refund
  BY <1>1, <1>2, <1>10 DEF Refund, Lockup, Call
<1>33. CASE RefundSkips \/ RefundThrows
  BY <1>1, <1>2, <1>33 DEF RefundSkips, RefundThrows, Call
<1>11. CASE RefundFails \/ SaveRefunded
  BY <1>1, <1>2, <1>11, FailsEffect DEF RefundFails, SaveRefunded, Save, Call
<1>12. CASE Connect
  BY <1>1, <1>12 DEF Connect, TypeOK, Counts
<1>13. CASE ConnectionError \/ ConnectionCloses
  <2>1. count' \in Counts /\ socket' = "closed" /\ ws' = <<>>
    BY <1>13, FailsEffect DEF ConnectionError, ConnectionCloses
  <2>2. /\ call' \in Call /\ result' \in Result
        /\ call' \in {"new", "created", "paid", "asked"} => result' = "none"
    BY <1>1, <1>13, SettleEffect DEF ConnectionError, ConnectionCloses, Result
  <2> QED BY <1>1, <1>13, <2>1, <2>2 DEF ConnectionError, ConnectionCloses, TypeOK, Counts
<1>14. CASE Receive
  <2>1. /\ ws' \in Seq(Status) /\ (socket' # "open" => ws' = <<>>)
        /\ socket' \in {"open", "closed"} /\ steps' \subseteq Steps
        /\ stored' \in Status /\ refunded' \in BOOLEAN /\ skipped' = skipped
        /\ flags' \in [claimStarted : BOOLEAN, isResolved : BOOLEAN]
    BY <1>14, ReceiveEffect
  <2> QED BY <1>1, <1>14, <2>1 DEF Receive, TypeOK, Counts
<1>15. CASE Reject
  <2>1. PICK s \in steps, r \in {"failed", "refundable"} : steps' = steps \ {s} /\ Settle(r)
    BY <1>15 DEF Reject, At
  <2> QED BY <1>1, <1>2, <1>15, <2>1, SettleEffect DEF Reject, Result
<1>16. CASE Answer
  <2>1. PICK s \in steps, r \in {"resolved", "existing"} :
          /\ steps' = steps \ {s} /\ stored' \in {s.status, stored} /\ Settle(r)
          /\ refunded' \in {refunded, FALSE} /\ skipped' = skipped
    BY <1>16 DEF Answer, At, Save
  <2> QED BY <1>1, <1>2, <1>3, <1>16, <2>1, SettleEffect DEF Answer, Result
<1>17. CASE AnswerIsNone
  <2>1. steps' \subseteq steps
    BY <1>17 DEF AnswerIsNone
  <2> QED BY <1>1, <1>2, <1>17, <2>1, SettleEffect DEF AnswerIsNone, Result
<1>18. CASE AnswerFails
  <2>1. steps' \subseteq steps
    BY <1>18 DEF AnswerFails
  <2> QED BY <1>1, <1>2, <1>18, <2>1, SettleEffect, FailsEffect DEF AnswerFails, Result
<1>19. CASE Quote
  <2>1. steps' \subseteq steps
    BY <1>19 DEF Quote
  <2> QED BY <1>1, <1>2, <1>19, <2>1 DEF Quote
<1>20. CASE QuoteFails
  <2>1. steps' \subseteq steps
    BY <1>20 DEF QuoteFails
  <2>2. count' \in Counts
    <3>1. count' = count \/ Fails
      BY <1>20 DEF QuoteFails, Fails
    <3> QED BY <1>1, <3>1, FailsEffect
  <2> QED BY <1>1, <1>2, <1>20, <2>1, <2>2, SettleEffect DEF QuoteFails, Result
<1>21. CASE StartClaim
  <2>1. PICK s \in steps : IF MayClaim THEN Follow(s, "look") ELSE steps' = steps \ {s}
    BY <1>21 DEF StartClaim, At
  <2>2. steps' \subseteq Steps
    BY <1>1, <2>1, FollowEffect DEF StepKind
  <2>3. flags' \in [claimStarted : BOOLEAN, isResolved : BOOLEAN]
    BY <1>1, <1>21 DEF StartClaim
  <2> QED BY <1>1, <1>21, <2>2, <2>3 DEF StartClaim, TypeOK, Counts
<1>22. CASE Claim
  <2>1. PICK s \in steps : payout' = "claimed"
                           /\ (steps' = steps \ {s} \/ Follow(s, "ask"))
    BY <1>22 DEF Claim, At
  <2>2. steps' \subseteq Steps
    BY <1>1, <2>1, FollowEffect DEF StepKind
  <2> QED BY <1>1, <1>2, <1>22, <2>1, <2>2 DEF Claim, Payout
<1>23. CASE ClaimRejected
  <2>1. steps' \subseteq steps
    BY <1>23 DEF ClaimRejected
  <2> QED BY <1>1, <1>2, <1>23, <2>1, SettleEffect DEF ClaimRejected, Result
<1>24. CASE ClaimFails
  <2>1. steps' \subseteq steps
    BY <1>24 DEF ClaimFails
  <2> QED BY <1>1, <1>2, <1>24, <2>1, SettleEffect, FailsEffect DEF ClaimFails, Result
<1>25. CASE AskStatus
  <2>1. [at |-> "answered", status |-> server] \in Steps
    BY <1>1 DEF Steps, StepKind
  <2>2. steps' \subseteq Steps
    BY <1>1, <1>25, <2>1 DEF AskStatus
  <2> QED BY <1>1, <1>2, <1>25, <2>2 DEF AskStatus
<1>26. CASE SaveClaimed
  <2>1. PICK s \in steps : steps' = steps \ {s} /\ Save(s.status)
    BY <1>26 DEF SaveClaimed, At
  <2> QED BY <1>1, <1>2, <1>3, <1>26, <2>1 DEF SaveClaimed, Save
<1>27. \A status \in Status : Txid(status) \in Steps
  BY DEF Txid, Steps, StepKind
<1>28. CASE WaitForCompletion
  <2>1. manager.status \in Status /\ manager' \in Manager /\ steps' \subseteq Steps
    BY <1>1, <1>27, <1>28 DEF WaitForCompletion, Manager
  <2>2. /\ call' \in Call /\ result' \in Result
        /\ call' \in {"new", "created", "paid", "asked"} => result' = "none"
    BY <1>1, <1>28, SettleEffect DEF WaitForCompletion, Result, Call
  <2> QED BY <1>1, <1>28, <2>1, <2>2 DEF WaitForCompletion, TypeOK, Counts
<1>29. CASE ManagerHears
  <2>1. manager' \in Manager
    BY <1>1, <1>29 DEF ManagerHears, Manager
  <2>2. steps' \subseteq Steps
    BY <1>1, <1>27, <1>29 DEF ManagerHears
  <2>3. /\ call' \in Call /\ result' \in Result
        /\ call' \in {"new", "created", "paid", "asked"} => result' = "none"
    BY <1>1, <1>29, SettleEffect DEF ManagerHears, Result
  <2> QED BY <1>1, <1>29, <2>1, <2>2, <2>3 DEF ManagerHears, Save, TypeOK, Counts
<1>30. CASE ManagerActs
  BY <1>1, <1>2, <1>30 DEF ManagerActs, Save, Lockup, Payout
<1>31. CASE ManagerForgets \/ ManagerLoses
  <2>1. manager' \in Manager /\ count' \in Counts
    BY <1>1, <1>31, FailsEffect DEF ManagerForgets, ManagerLoses, Manager
  <2> QED BY <1>1, <1>31, <2>1 DEF ManagerForgets, ManagerLoses, TypeOK, Counts
<1>32. CASE UNCHANGED vars
  BY <1>32 DEF vars, TypeOK
<1> QED BY <1>4, <1>5, <1>6, <1>7, <1>8, <1>9, <1>10, <1>11, <1>12, <1>13, <1>14, <1>15, <1>16,
           <1>17, <1>18, <1>19, <1>20, <1>21, <1>22, <1>23, <1>24, <1>25, <1>26, <1>28, <1>29,
           <1>30, <1>31, <1>32, <1>33 DEF Next, Own

\* The socket is opened by the wait.
LEMMA SocketStep ==
  ASSUME TypeOK, SocketComesLate, [Next]_vars
  PROVE  SocketComesLate'
<1> USE DEF fixed, boltz, wait, wire, record
<1>1. ASSUME NEW r \in Result, r # "none", Settle(r)
      PROVE  call' \notin {"new", "created", "paid", "asked"}
  BY <1>1, SettleEffect
<1>2. CASE Connect \/ Receive \/ ConnectionCloses
  BY <1>2 DEF Connect, Receive, ConnectionCloses, SocketComesLate
<1>3. CASE SendFails \/ VerifyFails \/ AnswerIsNone \/ QuoteFails \/ ClaimRejected \/ ClaimFails
  <2>1. Settle("failed") \/ Settle("refundable") \/ Settle("claimFailed")
    BY <1>3 DEF SendFails, VerifyFails, AnswerIsNone, QuoteFails, ClaimRejected, ClaimFails
  <2>2. call' \notin {"new", "created", "paid", "asked"}
    BY <1>1, <2>1 DEF Result
  <2> QED BY <2>2 DEF SocketComesLate
<1>4. CASE Reject
  <2>1. \E r \in {"failed", "refundable"} : Settle(r)
    BY <1>4 DEF Reject
  <2> QED BY <1>1, <2>1 DEF SocketComesLate, Result
<1>5. CASE Answer
  <2>1. \E r \in {"resolved", "existing"} : Settle(r)
    BY <1>5 DEF Answer
  <2> QED BY <1>1, <2>1 DEF SocketComesLate, Result
<1>6. CASE AnswerFails
  BY <1>1, <1>6 DEF AnswerFails, SocketComesLate, Result
<1>7. CASE ConnectionError
  BY <1>1, <1>7 DEF ConnectionError, SocketComesLate, Result
<1>8. CASE WaitForCompletion
  BY <1>1, <1>8 DEF WaitForCompletion, SocketComesLate, Result
<1>9. CASE ManagerHears
  BY <1>1, <1>9 DEF ManagerHears, SocketComesLate, Result
<1>10. CASE ServerMove \/ PayChain \/ Create \/ Send \/ UNCHANGED vars
  <2>1. /\ socket' = socket
        /\ call' = call \/ call \in {"new", "created"}
    BY <1>10, Zenon DEF ServerMove, PayChain, Create, Send, vars
  <2> QED BY <2>1 DEF SocketComesLate
<1>13. CASE Wait
  <2>1. call' \in {"asked", "waiting"} /\ (call' = "asked" => socket' = socket)
        /\ call \in {"paid", "created"}
    BY <1>13 DEF Wait
  <2> QED BY <2>1 DEF SocketComesLate
<1>12. CASE Refund \/ RefundSkips \/ RefundThrows \/ RefundFails \/ SaveRefunded
  BY <1>12 DEF Refund, RefundSkips, RefundThrows, RefundFails, SaveRefunded, SocketComesLate
<1>11. CASE \/ Quote \/ StartClaim \/ Claim \/ AskStatus \/ SaveClaimed \/ ManagerActs
            \/ ManagerForgets \/ ManagerLoses
  BY <1>11 DEF Quote, StartClaim, Claim, AskStatus, SaveClaimed, ManagerActs, ManagerForgets,
               ManagerLoses, SocketComesLate
<1> QED BY <1>2, <1>3, <1>4, <1>5, <1>6, <1>7, <1>8, <1>9, <1>10, <1>11, <1>12, <1>13
           DEF Next, Own, SocketComesLate

-----------------------------------------------------------------------------
(* Success, and what is known of it. *)

\* What a promise holds after a step that settles it with something else than
\* success is success only if it was before.
LEMMA SettleIsNoSuccess ==
  ASSUME TypeOK, NEW r \in Result, r \notin {"none", "resolved"}, Settle(r)
  PROVE  result' = "resolved" => result = "resolved"
BY SettleEffect

\* A step that neither undoes the swap nor learns of success keeps what is known.
LEMMA KnownStays ==
  ASSUME SuccessIsTrue, UNCHANGED <<kind, server, ws>>,
         Successful(server) /\ Done => Done',
         result' = "resolved" => result = "resolved" \/ Successful(server),
         Successful(manager'.status) => Successful(manager.status) \/ Successful(server),
         \A s \in steps' : s \in steps \/ s.at # "txid" \/ (Successful(s.status) => Successful(server))
  PROVE  SuccessIsTrue'
BY DEF SuccessIsTrue, Successful

\* The same for one that leaves Boltz, the manager and the steps that told alone.
LEMMA CallerKeeps ==
  ASSUME SuccessIsTrue, UNCHANGED <<kind, boltz, ws, manager>>, steps' \subseteq steps,
         result' = "resolved" => result = "resolved" \/ Successful(server)
  PROVE  SuccessIsTrue'
<1>1. Done => Done'
  BY DEF boltz, Done
<1> QED BY <1>1, KnownStays DEF boltz

LEMMA SuccessStep ==
  ASSUME TypeOK, SuccessIsTrue, PaymentFollows, [Next]_vars
  PROVE  SuccessIsTrue'
<1> USE DEF fixed, boltz, wait, wire, record
<1>1. /\ kind \in Kind /\ server \in Status /\ lockup \in Lockup /\ payout \in Payout
      /\ ws \in Seq(Status) /\ steps \subseteq Steps /\ manager \in Manager
  BY SwapWaitsAssumption DEF TypeOK
<1>2. CASE ServerMove
  <2>1. PICK status \in Status :
          /\ MayReport(kind, server, status, lockup, payout)
          /\ server' = status
          /\ lockup' = LockupAfter(kind, status, lockup)
          /\ payout' = PayoutAfter(kind, status, payout)
          /\ ws' = IF socket = "open" THEN Append(ws, status) ELSE ws
    BY <1>2 DEF ServerMove
  <2>2. ~Successful(server)
    BY <1>1, <2>1, SuccessIsLast DEF Successful, MayReport
  <2>3. /\ result # "resolved" /\ ~Successful(manager.status)
        /\ \A s \in steps : s.at = "txid" => ~Successful(s.status)
        /\ \A n \in 1 .. Len(ws) : ~Successful(ws[n])
    BY <2>2 DEF SuccessIsTrue
  <2>4. UNCHANGED <<kind, result, steps, manager>>
    BY <1>2 DEF ServerMove
  <2>5. Successful(server)' => Done'
    BY <1>1, <2>1, <2>4, SuccessReported DEF Successful, Done
  <2>6. \A n \in 1 .. Len(ws') : Successful(ws'[n]) => ws'[n] = server'
    <3>1. CASE socket = "open"
      <4>1. ws' = Append(ws, status)
        BY <2>1, <3>1
      <4> QED BY <1>1, <2>1, <2>3, <4>1
    <3>2. CASE socket # "open"
      BY <2>1, <2>3, <3>2
    <3> QED BY <3>1, <3>2
  <2> QED BY <2>3, <2>4, <2>5, <2>6 DEF SuccessIsTrue, Successful
<1>3. CASE PayChain \/ Refund \/ Send
  <2>1. Successful(server) /\ Done => Done'
    BY <1>3 DEF PayChain, Refund, Send, Done, PaymentFollows, IsChain
  <2>2. UNCHANGED <<kind, server, ws, result, manager, steps>>
    BY <1>3 DEF PayChain, Refund, Send
  <2> QED BY <2>1, <2>2, KnownStays
<1>4. CASE Create
  <2>1. manager'.status = manager.status
    BY <1>1, <1>4 DEF Create, Manager
  <2>2. UNCHANGED <<kind, boltz, ws, result, steps>>
    BY <1>4 DEF Create
  <2>3. Done => Done'
    BY <2>2 DEF Done
  <2> QED BY <2>1, <2>2, <2>3, KnownStays
<1>5. CASE \/ SendFails \/ VerifyFails \/ AnswerIsNone \/ QuoteFails \/ ClaimRejected \/ ClaimFails
           \/ AnswerFails
  <2>1. \/ Settle("failed") \/ Settle("refundable") \/ Settle("claimFailed")
        \/ UNCHANGED result
    BY <1>5 DEF SendFails, VerifyFails, AnswerIsNone, QuoteFails, ClaimRejected, ClaimFails,
                AnswerFails
  <2>2. result' = "resolved" => result = "resolved"
    BY <2>1, SettleIsNoSuccess DEF Result
  <2>3. UNCHANGED <<kind, boltz, ws, manager>> /\ steps' \subseteq steps
    BY <1>5 DEF SendFails, VerifyFails, AnswerIsNone, QuoteFails, ClaimRejected, ClaimFails,
                AnswerFails
  <2> QED BY <2>2, <2>3, CallerKeeps
<1>6. CASE \/ Wait \/ RefundSkips \/ RefundThrows \/ RefundFails \/ SaveRefunded \/ Quote
           \/ SaveClaimed
  <2>1. UNCHANGED <<kind, boltz, ws, manager, result>> /\ steps' \subseteq steps
    BY <1>6 DEF Wait, RefundSkips, RefundThrows, RefundFails, SaveRefunded, Quote, SaveClaimed
  <2> QED BY <2>1, CallerKeeps
<1>7. CASE Connect
  <2>1. ws' = <<server>> /\ UNCHANGED <<kind, boltz, result, manager, steps>>
    BY <1>7 DEF Connect
  <2>2. Done => Done'
    BY <2>1 DEF Done
  <2> QED BY <2>1, <2>2 DEF SuccessIsTrue, Successful
<1>8. CASE ConnectionError \/ ConnectionCloses
  <2>1. ws' = <<>> /\ UNCHANGED <<kind, boltz, manager, steps>>
    BY <1>8 DEF ConnectionError, ConnectionCloses
  <2>2. result' = "resolved" => result = "resolved"
    BY <1>8, SettleIsNoSuccess DEF ConnectionError, ConnectionCloses, Result
  <2>3. Done => Done'
    BY <2>1 DEF Done
  <2> QED BY <2>1, <2>2, <2>3 DEF SuccessIsTrue, Successful
<1>9. CASE Receive
  <2>1. PICK status \in Status, negotiable \in BOOLEAN :
           /\ ws # <<>> /\ status = ws[1]
           /\ \A n \in 1 .. Len(ws') : n + 1 \in 1 .. Len(ws) /\ ws'[n] = ws[n + 1]
           /\ \A s \in steps' : s \in steps \/ (s.status = status
                                                /\ s.at \in After(status, negotiable))
    BY <1>9, ReceiveEffect
  <2>2. UNCHANGED <<kind, boltz, result, manager>>
    BY <1>9 DEF Receive
  <2>3. Done => Done'
    BY <2>2 DEF Done
  <2>4. Successful(status) => Successful(server)
    <3>1. 1 \in 1 .. Len(ws)
      BY <1>1, <2>1
    <3> QED BY <2>1, <3>1 DEF SuccessIsTrue
  <2>5. \A s \in steps' : s.at = "txid" /\ Successful(s.status) => Successful(server)
    BY <2>1, <2>4 DEF SuccessIsTrue
  <2>6. \A n \in 1 .. Len(ws') : Successful(ws'[n]) => Successful(server)
    BY <2>1 DEF SuccessIsTrue
  <2> QED BY <2>2, <2>3, <2>5, <2>6 DEF SuccessIsTrue, Successful
<1>10. CASE Reject
  <2>1. PICK s \in steps, r \in {"failed", "refundable"} : steps' = steps \ {s} /\ Settle(r)
    BY <1>10 DEF Reject, At
  <2>2. result' = "resolved" => result = "resolved"
    BY <2>1, SettleIsNoSuccess DEF Result
  <2> QED BY <1>10, <2>1, <2>2, CallerKeeps DEF Reject
<1>11. CASE Answer
  <2>1. PICK s \in steps : /\ s.at = "txid" /\ steps' = steps \ {s}
                           /\ Settle(IF Successful(s.status) THEN "resolved" ELSE "existing")
    BY <1>11 DEF Answer, At, Successful
  <2>2. result' = "resolved" => result = "resolved" \/ Successful(server)
    <3>1. CASE Successful(s.status)
      BY <2>1, <3>1 DEF SuccessIsTrue
    <3>2. CASE ~Successful(s.status)
      BY <2>1, <3>2, SettleIsNoSuccess DEF Result
    <3> QED BY <3>1, <3>2
  <2> QED BY <1>11, <2>1, <2>2, CallerKeeps DEF Answer
<1>12. CASE StartClaim \/ Claim \/ AskStatus
  <2>1. \A s \in steps' : s \in steps \/ s.at # "txid"
    <3>1. CASE StartClaim
      <4>1. PICK s \in steps : IF MayClaim THEN Follow(s, "look") ELSE steps' = steps \ {s}
        BY <3>1 DEF StartClaim, At
      <4> QED BY <4>1, FollowEffect DEF StepKind
    <3>2. CASE Claim
      <4>1. PICK s \in steps : steps' = steps \ {s} \/ Follow(s, "ask")
        BY <3>2 DEF Claim, At
      <4> QED BY <4>1, FollowEffect DEF StepKind
    <3>3. CASE AskStatus
      BY <3>3 DEF AskStatus
    <3> QED BY <1>12, <3>1, <3>2, <3>3
  <2>2. UNCHANGED <<kind, server, lockup, ws, result, manager>> /\ payout' \in {payout, "claimed"}
    BY <1>12 DEF StartClaim, Claim, AskStatus
  <2>3. Done => Done'
    BY <2>2 DEF Done
  <2> QED BY <2>1, <2>2, <2>3, KnownStays
<1>13. CASE WaitForCompletion
  <2>1. manager'.status = manager.status
    BY <1>1, <1>13 DEF WaitForCompletion, Manager
  <2>2. \A s \in steps' : s \in steps \/ s = Txid(manager.status)
    BY <1>13 DEF WaitForCompletion
  <2>3. \A s \in steps' : s \in steps \/ (Successful(s.status) => Successful(server))
    BY <2>2 DEF Txid, SuccessIsTrue
  <2>4. UNCHANGED <<kind, boltz, ws>>
    BY <1>13 DEF WaitForCompletion
  <2>5. result' = "resolved" => result = "resolved"
    BY <1>13, SettleIsNoSuccess DEF WaitForCompletion, Result
  <2>6. Done => Done'
    BY <2>4 DEF Done
  <2> QED BY <2>1, <2>3, <2>4, <2>5, <2>6, KnownStays
<1>14. CASE ManagerHears
  <2>1. manager'.status = server
    BY <1>1, <1>14 DEF ManagerHears, Manager
  <2>2. \A s \in steps' : s \in steps \/ s = Txid(server)
    BY <1>14 DEF ManagerHears
  <2>3. \A s \in steps' : s \in steps \/ (Successful(s.status) => Successful(server))
    BY <2>2 DEF Txid
  <2>4. UNCHANGED <<kind, boltz, ws>>
    BY <1>14 DEF ManagerHears
  <2>5. result' = "resolved" => result = "resolved" \/ Successful(server)
    <3>1. CASE Successful(server)
      BY <3>1
    <3>2. CASE ~Successful(server)
      BY <1>14, <3>2, SettleIsNoSuccess DEF ManagerHears, Succeeds, Successful, Result
    <3> QED BY <3>1, <3>2
  <2>6. Done => Done'
    BY <2>4 DEF Done
  <2> QED BY <2>1, <2>3, <2>4, <2>5, <2>6, KnownStays
<1>15. CASE ManagerActs
  <2>1. UNCHANGED <<kind, server, ws, result, manager, steps>> /\ (Done => Done')
    BY <1>15 DEF ManagerActs, Done
  <2> QED BY <2>1, KnownStays
<1>16. CASE ManagerForgets \/ ManagerLoses
  <2>1. manager'.status = manager.status
    BY <1>1, <1>16 DEF ManagerForgets, ManagerLoses, Manager
  <2>2. UNCHANGED <<kind, boltz, ws, result, steps>>
    BY <1>16 DEF ManagerForgets, ManagerLoses
  <2>3. Done => Done'
    BY <2>2 DEF Done
  <2> QED BY <2>1, <2>2, <2>3, KnownStays
<1>17. CASE UNCHANGED vars
  <2>1. UNCHANGED <<kind, boltz, ws, manager, result, steps>>
    BY <1>17 DEF vars
  <2> QED BY <2>1, CallerKeeps
<1> QED BY <1>2, <1>3, <1>4, <1>5, <1>6, <1>7, <1>8, <1>9, <1>10, <1>11, <1>12, <1>13, <1>14,
           <1>15, <1>16, <1>17 DEF Next, Own

-----------------------------------------------------------------------------
(* A payment, from await to await. *)

LEMMA PaymentStep ==
  ASSUME TypeOK, SocketComesLate, SuccessIsTrue, PaymentFollows, [Next]_vars
  PROVE  PaymentFollows'
<1> USE DEF fixed, boltz, wait, wire, record
<1>1. kind' = kind
  BY KindStays
<1> SUFFICES ASSUME kind = "submarine"
             PROVE  PaymentFollows'
  BY <1>1 DEF PaymentFollows
<1>2. /\ lockup \in Lockup /\ payout \in Payout /\ call \in Call /\ result \in Result
      /\ steps \subseteq Steps /\ manager \in Manager /\ count \in Counts
      /\ call \in {"new", "created", "paid", "asked"} => result = "none"
      /\ ~IsChain(kind)
  BY DEF TypeOK, Counts, IsChain
<1>3. /\ ~manager.sub /\ call # "asked"
      /\ \A s \in steps : /\ s.at \in {"reject", "txid"}
                          /\ s.at = "reject" => s.status \in SubmarineRefundable
                          /\ s.at = "txid" => Successful(s.status)
      /\ steps # {} => call \notin {"new", "created", "paid"}
      /\ call \in {"new", "created"} => lockup = "none"
      /\ call \in {"paid", "waiting", "refunding", "refunded"} => lockup # "none"
      /\ call = "refunded" => lockup = "refunded" \/ skipped
      /\ call \in {"refunding", "refunded", "done"} => result # "none"
      /\ call = "done" => lockup \in {"taken", "refunded"} \/ Missed
  BY DEF PaymentFollows
\* No step of a claim, nor of a new quote.
<1>4. \A at \in StepKind \ {"reject", "txid"} : At(at) = {}
  BY <1>3 DEF At
<1>5. At("look") = {} /\ At("ask") = {} /\ At("answered") = {} /\ At("claim") = {}
      /\ At("quote") = {} /\ At("badQuote") = {}
  BY <1>4 DEF StepKind
\* A settlement that refunds nothing ends the call.
<1>6. ASSUME NEW r \in Result \ {"none", "refundable"}, Settle(r),
             call \notin {"new", "created", "paid"} \/ (steps' = {} /\ call = "created"),
             UNCHANGED <<kind, lockup, manager>>, steps' \subseteq steps,
             Missed => Missed', skipped' = skipped, lockup \in {"taken", "refunded"} \/ Missed'
      PROVE  PaymentFollows'
  <2>1. \/ result' = result /\ call' = call /\ result # "none"
        \/ result = "none" /\ result' = r /\ call' = "done"
    BY <1>2, <1>6, SettleEffect
  <2>2. CASE result' = result /\ call' = call /\ result # "none"
    BY <1>2, <1>3, <1>6, <2>2 DEF PaymentFollows, Successful
  <2>3. CASE result = "none" /\ result' = r /\ call' = "done"
    BY <1>3, <1>6, <2>3 DEF PaymentFollows, Successful
  <2> QED BY <2>1, <2>2, <2>3
<1>7. CASE ServerMove
  <2>1. lockup' = lockup \/ (lockup = "locked" /\ lockup' = "taken")
    BY <1>2, <1>7, ReportKeeps DEF ServerMove, Kind
  <2> QED BY <1>1, <1>3, <1>7, <2>1 DEF ServerMove, PaymentFollows, Successful, Missed, Failed
<1>8. CASE Create
  <2>1. manager'.sub = manager.sub
    BY <1>2, <1>8 DEF Create, Manager
  <2> QED BY <1>1, <1>3, <1>8, <2>1 DEF Create, PaymentFollows, Successful, Missed, Failed
<1>9. CASE Send
  BY <1>1, <1>3, <1>9 DEF Send, PaymentFollows, Successful, Missed, Failed
<1>10. CASE SendFails
  <2>1. Settle("failed") /\ Missed' /\ UNCHANGED <<kind, lockup, manager, steps, skipped>>
        /\ steps = {} /\ call = "created"
    BY <1>3, <1>10, FailsEffect DEF SendFails
  <2> QED BY <1>6, <2>1 DEF Result
<1>11. CASE Wait
  <2>1. call = "paid" /\ call' = "waiting"
        /\ UNCHANGED <<kind, lockup, result, steps, manager, skipped>>
    BY <1>11 DEF Wait
  <2>2. steps = {} /\ lockup # "none"
    BY <1>3, <2>1
  <2> QED BY <1>1, <1>3, <2>1, <2>2 DEF PaymentFollows
<1>12. CASE Refund
  BY <1>1, <1>3, <1>12 DEF Refund, PaymentFollows, Successful
<1>26. CASE RefundSkips
  BY <1>1, <1>3, <1>26 DEF RefundSkips, PaymentFollows, Successful, Missed, Failed
<1>27. CASE RefundThrows
  <2>1. lockup \in {"taken", "refunded"}
    BY <1>2, <1>3, <1>27 DEF RefundThrows, Lockup
  <2> QED BY <1>1, <1>3, <1>27, <2>1 DEF RefundThrows, PaymentFollows, Successful, Missed, Failed
<1>13. CASE RefundFails
  <2>1. Missed' /\ call \in {"refunding", "refunded"}
    BY <1>13, FailsEffect DEF RefundFails
  <2> QED BY <1>1, <1>3, <1>13, <2>1 DEF RefundFails, PaymentFollows, Successful
<1>14. CASE SaveRefunded
  BY <1>1, <1>3, <1>14 DEF SaveRefunded, Save, PaymentFollows, Successful, Missed, Failed
<1>15. CASE Connect \/ UNCHANGED vars
  BY <1>1, <1>3, <1>15 DEF Connect, vars, PaymentFollows, Successful, Missed, Failed
<1>16. CASE ConnectionError
  <2>1. Missed' /\ UNCHANGED <<kind, lockup, manager, steps, skipped>>
        /\ (Settle("failed") \/ UNCHANGED <<call, result>>)
    BY <1>16, FailsEffect DEF ConnectionError
  <2>2. call \notin {"new", "created", "paid"}
    BY <1>16 DEF ConnectionError, SocketComesLate
  <2>3. CASE Settle("failed")
    BY <1>6, <2>1, <2>2, <2>3 DEF Result
  <2>4. CASE UNCHANGED <<call, result>>
    BY <1>1, <1>3, <2>1, <2>4 DEF PaymentFollows, Successful
  <2> QED BY <2>1, <2>3, <2>4
<1>17. CASE ConnectionCloses
  <2>1. Missed'
    BY <1>17, FailsEffect DEF ConnectionCloses
  <2> QED BY <1>1, <1>3, <1>17, <2>1 DEF ConnectionCloses, PaymentFollows, Successful
<1>18. CASE Receive
  <2>1. PICK status \in Status, negotiable \in BOOLEAN :
           /\ socket = "open"
           /\ \A s \in steps' : s \in steps \/ (s.status = status
                                                /\ s.at \in After(status, negotiable))
    BY <1>18, ReceiveEffect
  <2>2. \A at \in After(status, negotiable) :
          \/ at = "reject" /\ status \in SubmarineRefundable
          \/ at = "txid" /\ Successful(status)
    BY AfterKinds
  <2>3. \A s \in steps' : /\ s.at \in {"reject", "txid"}
                          /\ s.at = "reject" => s.status \in SubmarineRefundable
                          /\ s.at = "txid" => Successful(s.status)
    BY <1>3, <2>1, <2>2
  <2>4. UNCHANGED <<kind, lockup, call, result, manager, count, skipped>>
    BY <1>18 DEF Receive, Save
  <2>5. call \notin {"new", "created", "paid"}
    BY <2>1 DEF SocketComesLate
  <2> QED BY <1>3, <2>3, <2>4, <2>5 DEF PaymentFollows, Successful, Missed, Failed
<1>19. CASE Reject
  <2>1. PICK s \in steps : /\ s.at = "reject" /\ steps' = steps \ {s}
                           /\ Settle(IF s.status = "transaction.refunded" THEN "failed"
                                     ELSE "refundable")
    BY <1>19 DEF Reject, At
  <2>2. s.status # "transaction.refunded"
    BY <1>3, <2>1 DEF SubmarineRefundable
  <2>3. \/ result' = result /\ call' = call
        \/ result = "none" /\ result' = "refundable" /\ call' = "refunding"
    BY <2>1, <2>2, SettleEffect DEF Result
  <2>4. UNCHANGED <<kind, lockup, manager, count, skipped>>
    BY <1>19 DEF Reject
  <2>5. call \notin {"new", "created", "paid"}
    BY <1>3, <2>1
  <2>6. CASE result' = result /\ call' = call
    BY <1>3, <2>1, <2>4, <2>5, <2>6 DEF PaymentFollows, Successful, Missed, Failed
  <2>7. CASE result = "none" /\ result' = "refundable" /\ call' = "refunding"
    <3>1. lockup # "none"
      BY <1>2, <1>3, <2>5, <2>7 DEF Call
    <3> QED BY <1>3, <2>1, <2>4, <2>7, <3>1 DEF PaymentFollows, Successful
  <2> QED BY <2>3, <2>6, <2>7
<1>20. CASE Answer
  <2>1. PICK s \in steps : /\ s.at = "txid" /\ steps' = steps \ {s}
                           /\ Settle(IF Successful(s.status) THEN "resolved" ELSE "existing")
    BY <1>20 DEF Answer, At, Successful
  <2>2. Successful(s.status) /\ Settle("resolved")
    BY <1>3, <2>1
  <2>3. lockup = "taken"
    BY <2>1, <2>2 DEF SuccessIsTrue, Done
  <2>4. UNCHANGED <<kind, lockup, manager, count, skipped>>
    BY <1>20 DEF Answer, Save
  <2>5. call \notin {"new", "created", "paid"}
    BY <1>3, <2>1
  <2> QED BY <1>6, <2>1, <2>2, <2>3, <2>4, <2>5 DEF Result, Missed, Failed
<1>21. CASE AnswerFails
  <2>1. /\ Missed' /\ UNCHANGED <<kind, lockup, manager, skipped>> /\ steps' \subseteq steps
        /\ steps # {}
        /\ Settle("failed") \/ UNCHANGED <<call, result>>
    BY <1>21, FailsEffect DEF AnswerFails, At
  <2>2. call \notin {"new", "created", "paid"}
    BY <1>3, <2>1
  <2>3. CASE Settle("failed")
    BY <1>6, <2>1, <2>2, <2>3 DEF Result
  <2>4. CASE UNCHANGED <<call, result>>
    BY <1>1, <1>3, <2>1, <2>4 DEF PaymentFollows, Successful
  <2> QED BY <2>1, <2>3, <2>4
<1>22. CASE ManagerHears
  <2>1. /\ manager'.sub = FALSE /\ UNCHANGED <<kind, lockup, call, result, steps, count, skipped>>
    BY <1>2, <1>3, <1>22 DEF ManagerHears, Manager, Save
  <2> QED BY <1>3, <2>1 DEF PaymentFollows, Successful, Missed, Failed
<1>23. CASE ManagerActs
  <2>1. lockup' = lockup \/ (lockup = "locked" /\ lockup' = "refunded")
    BY <1>23 DEF ManagerActs
  <2>2. UNCHANGED <<kind, call, result, steps, manager, count, skipped>>
    BY <1>23 DEF ManagerActs, Save
  <2> QED BY <1>3, <2>1, <2>2 DEF PaymentFollows, Successful, Missed, Failed
<1>24. CASE ManagerForgets \/ ManagerLoses
  <2>1. manager'.sub = FALSE
    BY <1>2, <1>24 DEF ManagerForgets, ManagerLoses, Manager
  <2>2. UNCHANGED <<kind, lockup, call, result, steps, skipped>> /\ (Missed => Missed')
    BY <1>24, FailsEffect DEF ManagerForgets, ManagerLoses, Missed, Failed
  <2> QED BY <1>3, <2>1, <2>2 DEF PaymentFollows, Successful
<1>25. ~(\/ PayChain \/ VerifyFails \/ AnswerIsNone \/ Quote \/ QuoteFails \/ StartClaim \/ Claim
         \/ ClaimRejected \/ ClaimFails \/ AskStatus \/ SaveClaimed \/ WaitForCompletion)
  BY <1>2, <1>3, <1>5 DEF PayChain, VerifyFails, AnswerIsNone, Quote, QuoteFails, StartClaim, Claim,
                          ClaimRejected, ClaimFails, AskStatus, SaveClaimed, WaitForCompletion
<1> QED BY <1>7, <1>8, <1>9, <1>10, <1>11, <1>12, <1>13, <1>14, <1>15, <1>16, <1>17, <1>18, <1>19,
           <1>20, <1>21, <1>22, <1>23, <1>24, <1>25, <1>26, <1>27 DEF Next, Own

-----------------------------------------------------------------------------
(* What a refund that is put off leaves behind. *)

LEMMA RefusalStays ==
  ASSUME NEW from \in SubmarineRefundable, NEW to, NEW lock, NEW pay,
         MayReport("submarine", from, to, lock, pay)
  PROVE  to \in SubmarineRefundable
BY DEF MayReport, ServerNext, SubmarineRefundable

\* A payment's callback for a final status is its last.
LEMMA PaymentHears ==
  ASSUME TypeOK, Receive, kind = "submarine"
  PROVE  /\ flags.isResolved => UNCHANGED <<steps, stored, refunded, skipped, flags>>
         /\ steps' # steps => flags'.isResolved
         /\ refunded' => refunded
         /\ UNCHANGED <<kind, server, lockup, call, result, manager, count, skipped>>
<1> USE DEF fixed, boltz, wait, wire, record
<1>1. flags \in [claimStarted : BOOLEAN, isResolved : BOOLEAN]
  BY DEF TypeOK
<1>2. UNCHANGED <<kind, server, lockup, call, result, manager, count, skipped>>
  BY DEF Receive, Save
<1>3. (flags.isResolved => UNCHANGED <<steps, record, flags>>) /\ (refunded' => refunded)
  BY DEF Receive, Save
<1>4. ASSUME ~flags.isResolved, steps' # steps PROVE flags'.isResolved
  <2>1. PICK status \in {Head(ws)}, negotiable \in BOOLEAN :
          /\ steps' = steps \cup {[at |-> at, status |-> status] : at \in After(status, negotiable)}
          /\ flags' = [flags EXCEPT !.isResolved =
                         @ \/ (kind = "submarine" /\ After(status, negotiable) # {})]
    BY <1>4, Zenon DEF Receive
  <2>2. After(status, negotiable) # {}
    BY <1>4, <2>1
  <2> QED BY <1>1, <2>1, <2>2
<1> QED BY <1>2, <1>3, <1>4

\* A step that tells nothing new and stores nothing.
LEMMA RefundStays ==
  ASSUME RefundIsKept, UNCHANGED <<kind, server, stored, refunded, skipped, flags>>,
         Failed => Failed', lockup = "refunded" => lockup' = "refunded",
         steps' \subseteq steps, ws' \in {ws, <<>>},
         \/ call' = call
         \/ call' = "waiting" /\ ~skipped
         \/ call' = "done" /\ (Failed' \/ ~skipped)
  PROVE  RefundIsKept'
BY DEF RefundIsKept, Refunding, Refused

LEMMA RefundStep ==
  ASSUME TypeOK, SocketComesLate, SuccessIsTrue, PaymentFollows, RefundIsKept, [Next]_vars
  PROVE  RefundIsKept'
<1> USE DEF fixed, boltz, wait, wire, record
<1>1. kind' = kind
  BY KindStays
<1> SUFFICES ASSUME kind = "submarine"
             PROVE  RefundIsKept'
  BY <1>1 DEF RefundIsKept
<1>2. /\ server \in Status /\ lockup \in Lockup /\ call \in Call /\ result \in Result
      /\ ws \in Seq(Status) /\ steps \subseteq Steps /\ manager \in Manager
      /\ stored \in Status /\ refunded \in BOOLEAN /\ skipped \in BOOLEAN
      /\ flags \in [claimStarted : BOOLEAN, isResolved : BOOLEAN]
      /\ ~IsChain(kind)
  BY DEF TypeOK, IsChain
<1>3. /\ \A n \in 1 .. Len(ws) : Refused(ws[n]) => Refused(server)
      /\ \A s \in steps : s.at = "reject" => Refused(server)
      /\ steps # {} => flags.isResolved
      /\ Refunding => Refused(server) /\ flags.isResolved
      /\ skipped => call \in {"refunded", "done"}
      /\ refunded => lockup = "refunded"
      /\ skipped /\ call = "done" => Refused(stored) \/ Failed
  BY DEF RefundIsKept
<1>4. /\ \A s \in steps : s.at \in {"reject", "txid"}
      /\ \A s \in steps : s.at = "txid" => Successful(s.status) /\ Successful(server)
  BY DEF PaymentFollows, SuccessIsTrue
<1>5. ~(Refused(server) /\ Successful(server))
  BY DEF Refused, Successful, SubmarineRefundable, SuccessStatus
<1>6. At("look") = {} /\ At("ask") = {} /\ At("answered") = {} /\ At("claim") = {}
      /\ At("quote") = {} /\ At("badQuote") = {}
  BY <1>4 DEF At
<1>7. CASE ServerMove
  <2>1. PICK status \in Status :
          /\ MayReport(kind, server, status, lockup, payout)
          /\ server' = status
          /\ lockup' = LockupAfter(kind, status, lockup)
          /\ ws' = IF socket = "open" THEN Append(ws, status) ELSE ws
    BY <1>7 DEF ServerMove
  <2>2. Refused(server) => Refused(server')
    BY <2>1, RefusalStays DEF Refused
  <2>3. lockup = "refunded" => lockup' = "refunded"
    BY <2>1 DEF LockupAfter, MayReport
  <2>4. \A n \in 1 .. Len(ws') : ws'[n] = server' \/ (n \in 1 .. Len(ws) /\ ws'[n] = ws[n])
    <3>1. CASE socket = "open"
      BY <1>2, <2>1, <3>1
    <3>2. CASE socket # "open"
      BY <1>2, <2>1, <3>2
    <3> QED BY <3>1, <3>2
  <2>5. UNCHANGED <<steps, flags, stored, refunded, skipped, call, count>>
    BY <1>7 DEF ServerMove
  <2>6. \A n \in 1 .. Len(ws') : Refused(ws'[n]) => Refused(server')
    BY <1>3, <2>2, <2>4
  <2> QED BY <1>1, <1>3, <2>2, <2>3, <2>5, <2>6 DEF RefundIsKept, Refunding, Failed, Refused
<1>8. CASE Create \/ Send \/ SendFails
  <2>1. /\ call \in {"new", "created"} /\ result = "none" /\ steps = {} /\ socket = "none"
        /\ lockup = "none" /\ ws = <<>>
    <3>1. call \in {"new", "created"}
      BY <1>8, Zenon DEF Create, Send, SendFails
    <3> QED BY <1>2, <3>1 DEF TypeOK, PaymentFollows, SocketComesLate
  <2>2. call' \in {"created", "paid", "done"} /\ (call' = "done" => Failed')
    <3>1. CASE Create \/ Send
      BY <3>1, Zenon DEF Create, Send
    <3>2. CASE SendFails
      BY <2>1, <3>2, FailsEffect DEF SendFails, Settle
    <3> QED BY <1>8, <3>1, <3>2
  <2>3. UNCHANGED <<server, steps, flags, stored, refunded, skipped, ws>>
    BY <1>8, Zenon DEF Create, Send, SendFails
  <2> QED BY <1>1, <1>3, <2>1, <2>2, <2>3 DEF RefundIsKept, Refunding, Refused
<1>9. CASE Wait
  <2>1. call = "paid" /\ call' = "waiting"
    BY <1>9 DEF Wait
  <2>2. UNCHANGED <<server, lockup, steps, flags, stored, refunded, skipped, ws, count>>
    BY <1>9 DEF Wait
  <2>3. ~skipped
    BY <1>3, <2>1
  <2> QED BY <1>1, <2>1, <2>2, <2>3, RefundStays DEF Failed
<1>10. CASE Refund
  <2>1. /\ call = "refunding" /\ call' = "refunded" /\ lockup' = "refunded"
        /\ UNCHANGED <<server, steps, flags, skipped, ws>>
    BY <1>10 DEF Refund
  <2> QED BY <1>1, <1>3, <2>1 DEF RefundIsKept, Refunding, Refused
<1>11. CASE RefundSkips
  <2>1. /\ call = "refunding" /\ call' = "refunded" /\ refunded' = FALSE
        /\ UNCHANGED <<server, lockup, steps, flags, ws>>
    BY <1>11 DEF RefundSkips
  <2> QED BY <1>1, <1>3, <2>1 DEF RefundIsKept, Refunding, Refused
<1>12. CASE RefundThrows
  <2>1. /\ call = "refunding" /\ call' = "done" /\ lockup # "locked"
        /\ UNCHANGED <<server, lockup, steps, flags, stored, refunded, skipped, ws, count>>
    BY <1>12 DEF RefundThrows
  <2> QED BY <1>1, <1>3, <2>1 DEF RefundIsKept, Refunding, Refused
<1>13. CASE RefundFails
  <2>1. /\ call' = "done" /\ Failed'
        /\ UNCHANGED <<server, lockup, steps, flags, stored, refunded, skipped, ws>>
    BY <1>13, FailsEffect DEF RefundFails
  <2> QED BY <1>1, <2>1, RefundStays
<1>14. CASE SaveRefunded
  <2>1. /\ call = "refunded" /\ call' = "done" /\ stored' = server /\ refunded' = FALSE
        /\ UNCHANGED <<server, lockup, steps, flags, skipped, ws, count>>
    BY <1>14 DEF SaveRefunded, Save
  <2> QED BY <1>1, <1>3, <2>1 DEF RefundIsKept, Refunding, Refused
<1>15. CASE Connect
  <2>1. ws' = <<server>>
        /\ UNCHANGED <<server, lockup, call, steps, flags, stored, refunded, skipped, count>>
    BY <1>15 DEF Connect
  <2> QED BY <1>1, <1>3, <2>1 DEF RefundIsKept, Refunding, Refused, Failed
<1>16. CASE ConnectionError \/ ConnectionCloses
  <2>1. Failed' /\ ws' = <<>> /\ UNCHANGED <<server, lockup, steps, flags, stored, refunded, skipped>>
    BY <1>16, FailsEffect DEF ConnectionError, ConnectionCloses
  <2>2. call' \in {call, "done"}
    BY <1>16 DEF ConnectionError, ConnectionCloses, Settle
  <2> QED BY <1>1, <2>1, <2>2, RefundStays
<1>17. CASE Receive
  <2>1. /\ flags.isResolved => UNCHANGED <<steps, stored, refunded, skipped, flags>>
        /\ steps' # steps => flags'.isResolved
        /\ refunded' => refunded
        /\ UNCHANGED <<kind, server, lockup, call, result, manager, count, skipped>>
    BY <1>17, PaymentHears
  <2>2. PICK status \in Status, negotiable \in BOOLEAN :
           /\ ws # <<>> /\ status = ws[1]
           /\ \A n \in 1 .. Len(ws') : n + 1 \in 1 .. Len(ws) /\ ws'[n] = ws[n + 1]
           /\ \A s \in steps' : s \in steps \/ (s.status = status
                                                /\ s.at \in After(status, negotiable))
    BY <1>17, ReceiveEffect
  <2>3. Refused(status) => Refused(server)
    <3>1. 1 \in 1 .. Len(ws)
      BY <1>2, <2>2
    <3> QED BY <1>3, <2>2, <3>1
  <2>4. \A s \in steps' : s.at = "reject" => Refused(server)
    BY <1>3, <2>2, <2>3, AfterKinds DEF Refused
  <2>5. \A n \in 1 .. Len(ws') : Refused(ws'[n]) => Refused(server)
    BY <1>3, <2>2
  <2>6. (steps' # {} => flags'.isResolved) /\ (Refunding => flags'.isResolved)
    BY <1>3, <2>1
  <2>7. skipped /\ call = "done" => Refused(stored') \/ Failed
    BY <1>3, <2>1 DEF Refunding
  <2> QED BY <1>1, <1>3, <2>1, <2>4, <2>5, <2>6, <2>7 DEF RefundIsKept, Refunding, Refused, Failed
<1>18. CASE Reject
  <2>1. PICK s \in steps, r \in {"failed", "refundable"} : /\ s.at = "reject" /\ steps' = steps \ {s}
                                                           /\ Settle(r)
    BY <1>18 DEF Reject, At
  <2>2. UNCHANGED <<server, lockup, flags, stored, refunded, skipped, ws, count>>
    BY <1>18 DEF Reject
  <2>3. Refused(server) /\ flags.isResolved
    BY <1>3, <2>1
  <2>4. skipped => call' = call
    BY <1>3, <2>1, SettleEffect DEF Result, PaymentFollows
  <2> QED BY <1>1, <1>3, <2>1, <2>2, <2>3, <2>4 DEF RefundIsKept, Refunding, Refused, Failed
<1>19. CASE Answer
  <2>1. PICK s \in steps : s.at = "txid" /\ steps' = steps \ {s}
    BY <1>19 DEF Answer, At
  <2>2. Successful(server) /\ ~Refused(server) /\ ~skipped
    BY <1>3, <1>4, <1>5, <2>1 DEF Refunding
  <2>3. call' \notin {"refunding", "refunded"}
    BY <1>2, <1>3, <2>2, <1>19, SettleEffect DEF Answer, Refunding, Result
  <2>4. UNCHANGED <<server, lockup, flags, skipped, ws, count>> /\ (refunded' => refunded)
    BY <1>19 DEF Answer, Save
  <2> QED BY <1>1, <1>3, <2>1, <2>2, <2>3, <2>4 DEF RefundIsKept, Refunding, Refused
<1>20. CASE AnswerFails
  <2>1. Failed' /\ steps' \subseteq steps
        /\ UNCHANGED <<server, lockup, flags, stored, refunded, skipped, ws>>
    BY <1>20, FailsEffect DEF AnswerFails
  <2>2. call' \in {call, "done"}
    BY <1>20 DEF AnswerFails, Settle
  <2> QED BY <1>1, <2>1, <2>2, RefundStays
<1>21. CASE ManagerHears
  <2>1. /\ stored' = server /\ refunded' = FALSE
        /\ UNCHANGED <<server, lockup, call, steps, flags, skipped, ws, count>>
    BY <1>2, <1>21 DEF ManagerHears, Save, PaymentFollows
  <2> QED BY <1>1, <1>3, <2>1 DEF RefundIsKept, Refunding, Refused, Failed
<1>22. CASE ManagerActs
  <2>1. ClaimableStatus(kind) = {} /\ RefundableStatus(kind) = SubmarineRefundable
    BY DEF ClaimableStatus, RefundableStatus
  <2>2. /\ Refused(manager.status) /\ lockup = "locked" /\ stored' = manager.status
        /\ refunded' => lockup' = "refunded"
        /\ UNCHANGED <<server, call, steps, flags, skipped, ws, count>>
    BY <1>22, <2>1 DEF ManagerActs, Refused
  <2> QED BY <1>1, <1>3, <2>2 DEF RefundIsKept, Refunding, Refused, Failed
<1>23. CASE ManagerForgets \/ ManagerLoses \/ UNCHANGED vars
  <2>1. /\ UNCHANGED <<server, lockup, call, steps, flags, stored, refunded, skipped, ws>>
        /\ Failed => Failed'
    BY <1>23, FailsEffect DEF ManagerForgets, ManagerLoses, vars, Failed
  <2> QED BY <1>1, <2>1, RefundStays
<1>24. ~(\/ PayChain \/ VerifyFails \/ AnswerIsNone \/ Quote \/ QuoteFails \/ StartClaim \/ Claim
         \/ ClaimRejected \/ ClaimFails \/ AskStatus \/ SaveClaimed \/ WaitForCompletion)
  BY <1>2, <1>6 DEF PayChain, VerifyFails, AnswerIsNone, Quote, QuoteFails, StartClaim, Claim,
                    ClaimRejected, ClaimFails, AskStatus, SaveClaimed, WaitForCompletion,
                    PaymentFollows
<1> QED BY <1>7, <1>8, <1>9, <1>10, <1>11, <1>12, <1>13, <1>14, <1>15, <1>16, <1>17, <1>18, <1>19,
           <1>20, <1>21, <1>22, <1>23, <1>24 DEF Next, Own

-----------------------------------------------------------------------------
(* The claims of a chain swap. *)

\* A step that neither starts a claim nor takes part in one keeps the claims.
LEMMA ClaimsStay ==
  ASSUME OneClaim, UNCHANGED <<kind, managed>>, manager'.has = manager.has,
         flags'.claimStarted = flags.claimStarted, payout' = "claimed" => payout = "claimed",
         \A s \in steps' : s \in steps \/ s.at \notin {"look", "ask", "answered"}
  PROVE  OneClaim'
<1>1. Claiming' \subseteq Claiming
  BY DEF Claiming
<1> QED BY <1>1 DEF OneClaim

LEMMA ClaimStep ==
  ASSUME TypeOK, SuccessIsTrue, OneClaim, [Next]_vars
  PROVE  OneClaim'
<1> USE DEF fixed, boltz, wait, wire, record
<1>1. /\ kind \in Kind /\ lockup \in Lockup /\ payout \in Payout
      /\ steps \subseteq Steps /\ manager \in Manager
      /\ flags \in [claimStarted : BOOLEAN, isResolved : BOOLEAN]
  BY SwapWaitsAssumption DEF TypeOK
<1>2. UNCHANGED <<kind, managed>>
  BY KindStays
<1> SUFFICES ASSUME IsChain(kind), ~managed
             PROVE  OneClaim'
  BY <1>2 DEF OneClaim
<1>3. /\ ~manager.has
      /\ ~flags.claimStarted => Claiming = {} /\ payout # "claimed"
      /\ \A s, t \in Claiming : s = t
      /\ \A s \in steps : s.at = "look" => payout # "claimed"
  BY DEF OneClaim
<1>4. CASE ServerMove
  <2>1. payout' = "claimed" => payout = "claimed"
    <3>1. PICK status \in Status : /\ MayReport(kind, server, status, lockup, payout)
                                   /\ payout' = PayoutAfter(kind, status, payout)
      BY <1>4 DEF ServerMove
    <3>2. PayoutAfter(kind, status, payout) = "claimed" => payout = "claimed"
      BY <1>1, <3>1, ReportKeeps
    <3> QED BY <3>1, <3>2
  <2>2. UNCHANGED <<steps, flags, manager>>
    BY <1>4 DEF ServerMove
  <2> QED BY <1>2, <2>1, <2>2, ClaimsStay
<1>5. CASE Create
  <2>1. manager'.has = manager.has
    BY <1>1, <1>2, <1>3, <1>5 DEF Create, Manager, TypeOK
  <2>2. UNCHANGED <<payout, steps, flags>>
    BY <1>5 DEF Create
  <2> QED BY <1>2, <2>1, <2>2, ClaimsStay
<1>6. CASE \/ PayChain \/ Send \/ SendFails \/ VerifyFails \/ Wait \/ Refund \/ RefundSkips
           \/ RefundThrows \/ RefundFails \/ SaveRefunded \/ Connect \/ ConnectionError \/ ConnectionCloses \/ UNCHANGED vars
  <2>1. UNCHANGED <<payout, steps, flags, manager>>
    BY <1>6 DEF PayChain, Send, SendFails, VerifyFails, Wait, Refund, RefundSkips, RefundThrows,
                RefundFails, SaveRefunded, Connect, ConnectionError, ConnectionCloses, vars
  <2> QED BY <1>2, <2>1, ClaimsStay
<1>7. CASE Receive
  <2>1. PICK status \in Status, negotiable \in BOOLEAN :
           /\ \A s \in steps' : s \in steps \/ (s.status = status
                                                /\ s.at \in After(status, negotiable))
           /\ flags'.claimStarted = flags.claimStarted
    BY <1>7, ReceiveEffect
  <2>2. \A s \in steps' : s \in steps \/ s.at \notin {"look", "ask", "answered"}
    BY <2>1, AfterKinds
  <2>3. UNCHANGED <<payout, manager>>
    BY <1>7 DEF Receive
  <2> QED BY <1>2, <2>1, <2>2, <2>3, ClaimsStay
<1>8. CASE \/ Reject \/ Answer \/ AnswerIsNone \/ AnswerFails \/ Quote \/ QuoteFails
           \/ ClaimRejected \/ ClaimFails \/ SaveClaimed
  <2>1. UNCHANGED <<payout, flags, manager>> /\ steps' \subseteq steps
    BY <1>8 DEF Reject, Answer, AnswerIsNone, AnswerFails, Quote, QuoteFails, ClaimRejected,
                ClaimFails, SaveClaimed
  <2> QED BY <1>2, <2>1, ClaimsStay
<1>9. CASE StartClaim
  <2>1. PICK s \in steps : /\ s.at = "claim"
                           /\ IF MayClaim THEN Follow(s, "look") ELSE steps' = steps \ {s}
    BY <1>9 DEF StartClaim, At
  <2>2. UNCHANGED <<payout, manager>> /\ flags'.claimStarted = TRUE
    BY <1>1, <1>9 DEF StartClaim
  <2>3. CASE MayClaim
    <3>1. Claiming = {} /\ payout # "claimed"
      BY <1>3, <2>3 DEF MayClaim
    <3>2. PICK u \in Steps : steps' = (steps \ {s}) \cup {u}
      BY <2>1, <2>3, FollowEffect DEF StepKind
    <3>3. \A t \in Claiming' : t = u
      BY <3>1, <3>2 DEF Claiming
    <3> QED BY <1>2, <1>3, <2>2, <3>1, <3>3 DEF OneClaim
  <2>4. CASE ~MayClaim
    <3>1. flags.claimStarted = TRUE /\ steps' \subseteq steps
      BY <1>1, <2>1, <2>4 DEF MayClaim
    <3> QED BY <1>2, <2>2, <3>1, ClaimsStay
  <2> QED BY <2>3, <2>4
<1>10. CASE Claim
  <2>1. PICK s \in steps : s.at = "look" /\ (steps' = steps \ {s} \/ Follow(s, "ask"))
    BY <1>10 DEF Claim, At
  <2>2. s \in Claiming /\ UNCHANGED <<flags, manager>>
    BY <1>10, <2>1 DEF Claiming, Claim
  <2>3. flags'.claimStarted
    BY <1>3, <2>2
  <2>4. \A t \in steps \ {s} : t \notin Claiming
    BY <1>3, <2>2
  <2>5. CASE steps' = steps \ {s}
    <3>1. Claiming' = {} /\ \A t \in steps' : t.at # "look"
      BY <2>4, <2>5 DEF Claiming
    <3> QED BY <1>2, <1>3, <2>2, <2>3, <3>1 DEF OneClaim
  <2>6. CASE Follow(s, "ask")
    <3>1. PICK u \in Steps : u.at = "ask" /\ steps' = (steps \ {s}) \cup {u}
      BY <2>6, FollowEffect DEF StepKind
    <3>2. (\A t \in Claiming' : t = u) /\ \A t \in steps' : t.at # "look"
      BY <2>4, <3>1 DEF Claiming
    <3> QED BY <1>2, <1>3, <2>2, <2>3, <3>2 DEF OneClaim
  <2> QED BY <2>1, <2>5, <2>6
<1>11. CASE AskStatus
  <2> DEFINE u == [at |-> "answered", status |-> server]
  <2>1. PICK s \in steps : s.at = "ask" /\ steps' = (steps \ {s}) \cup {u}
    BY <1>11 DEF AskStatus, At
  <2>2. s \in Claiming /\ UNCHANGED <<payout, flags, manager>>
    BY <1>11, <2>1 DEF Claiming, AskStatus
  <2>3. \A t \in steps \ {s} : t \notin Claiming
    BY <1>3, <2>2
  <2>4. (\A t \in Claiming' : t = u) /\ \A t \in steps' : t.at # "look"
    BY <2>1, <2>3 DEF Claiming
  <2> QED BY <1>2, <1>3, <2>2, <2>4 DEF OneClaim
<1>12. CASE WaitForCompletion
  <2>1. manager'.has = manager.has
    BY <1>1, <1>12 DEF WaitForCompletion, Manager
  <2>2. UNCHANGED <<payout, flags>> /\ \A s \in steps' : s \in steps \/ s.at = "txid"
    BY <1>12 DEF WaitForCompletion, Txid
  <2> QED BY <1>2, <2>1, <2>2, ClaimsStay
<1>13. ~(ManagerHears \/ ManagerActs \/ ManagerForgets \/ ManagerLoses)
  BY <1>3 DEF ManagerHears, ManagerActs, ManagerForgets, ManagerLoses
<1> QED BY <1>4, <1>5, <1>6, <1>7, <1>8, <1>9, <1>10, <1>11, <1>12, <1>13 DEF Next, Own

-----------------------------------------------------------------------------
(* The invariant and what follows from it. *)

LEMMA InitInv == Init => Inv
<1> SUFFICES ASSUME Init PROVE Inv
  OBVIOUS
<1> USE DEF Init
<1>1. /\ kind \in Kinds /\ kind \in Kind /\ CreatedStatus(kind) \in Status
      /\ ~Successful(CreatedStatus(kind)) /\ MaxFails \in Nat /\ MaxLost \in Nat
  BY SwapWaitsAssumption, CreatedIsNoSuccess DEF Successful
<1>2. TypeOK
  <2>1. flags \in [claimStarted : BOOLEAN, isResolved : BOOLEAN] /\ manager \in Manager
        /\ count \in [fails : 0 .. MaxFails, lost : 0 .. MaxLost]
    BY <1>1 DEF Manager
  <2>2. /\ call = "new" /\ result = "none" /\ socket = "none" /\ ws = <<>> /\ steps = {}
        /\ lockup = "none" /\ payout = "none" /\ server = CreatedStatus(kind)
        /\ stored = server /\ refunded = FALSE /\ skipped = FALSE /\ managed \in BOOLEAN
    OBVIOUS
  <2> HIDE DEF Init
  <2>3. server \in Status /\ stored \in Status /\ lockup \in Lockup /\ payout \in Payout
        /\ call \in Call /\ result \in Result
    BY <1>1, <2>2 DEF Lockup, Payout, Call, Result
  <2>4. ws \in Seq(Status) /\ steps \subseteq Steps
    BY <2>2
  <2> QED BY <1>1, <2>1, <2>2, <2>3, <2>4, Zenon DEF TypeOK
<1>3. SuccessIsTrue
  BY <1>1 DEF SuccessIsTrue
<1>4. PaymentFollows
  BY DEF PaymentFollows
<1>5. OneClaim
  BY DEF OneClaim, Claiming
<1>6. RefundIsKept
  BY DEF RefundIsKept, Refunding
<1> QED BY <1>2, <1>3, <1>4, <1>5, <1>6 DEF Inv, SocketComesLate

LEMMA StepInv == Inv /\ [Next]_vars => Inv'
BY TypeStep, SocketStep, SuccessStep, PaymentStep, RefundStep, ClaimStep DEF Inv

LEMMA Inductive == Spec => []Inv
BY InitInv, StepInv, PTL DEF Spec

\* The claims under way of a chain swap without a manager are one at most.
LEMMA OneIsCounted ==
  ASSUME OneClaim, IsChain(kind), ~managed
  PROVE  Cardinality(At("look") \cup At("ask") \cup At("answered")) <= 1
<1>1. At("look") \cup At("ask") \cup At("answered") = Claiming
  BY DEF At, Claiming
<1>2. CASE Claiming = {}
  BY <1>1, <1>2, FS_EmptySet
<1>3. CASE Claiming # {}
  <2>1. PICK s : s \in Claiming
    BY <1>3
  <2>2. Claiming = {s}
    BY <2>1 DEF OneClaim
  <2>3. Cardinality(Claiming) = 1
    BY <2>2, FS_Singleton
  <2> QED BY <1>1, <2>3
<1> QED BY <1>2, <1>3

\* Whatever the kinds of swap and however many requests and connections fail,
\* every variable keeps the values the code gives it.
THEOREM TypesHold == Spec => []TypeOK
<1>1. Inv => TypeOK
  BY DEF Inv
<1> QED BY <1>1, Inductive, PTL

\* waitAndClaim, waitAndClaimArk, waitAndClaimBtc and sendLightningPayment never
\* report a success that Boltz has not: a reverse swap's coins are claimed, the
\* coins of another are taken, whichever of socket, manager and request told it.
THEOREM ResolvesOnlyDone == Spec => []ResolvedIsDone
<1>1. Inv => ResolvedIsDone
  BY DEF Inv, SuccessIsTrue, ResolvedIsDone, Done
<1> QED BY <1>1, Inductive, PTL

\* The callbacks of a chain swap may overlap at every await: claimStarted lets
\* one of them claim, and coins that were claimed are not claimed again.
THEOREM ClaimedOnce == Spec => []ClaimsOnce
<1>1. Inv => ClaimsOnce
  BY OneIsCounted DEF Inv, OneClaim, ClaimsOnce, At
<1> QED BY <1>1, Inductive, PTL

\* sendLightningPayment returns with its coins paid for or refunded, whatever
\* Boltz reports and in whatever order, unless a request or connection failed;
\* or refundVHTLC had to skip them, and then their record stays refundable.
THEOREM PaymentIsSettled == Spec => []NothingLeftLocked
<1>1. Inv => NothingLeftLocked
  <2> SUFFICES ASSUME Inv, kind = "submarine", call = "done", count.fails + count.lost = 0
               PROVE  lockup \in {"taken", "refunded"} \/ (skipped /\ SaysRefundable)
    BY DEF NothingLeftLocked
  <2>1. ~Failed
    BY DEF Inv, TypeOK, Failed
  <2>2. lockup \in {"taken", "refunded"} \/ skipped
    BY <2>1 DEF Inv, PaymentFollows, Missed
  <2>3. skipped /\ lockup # "refunded" => SaysRefundable
    BY <2>1 DEF Inv, RefundIsKept, Refused, SaysRefundable
  <2> QED BY <2>2, <2>3
<1> QED BY <1>1, Inductive, PTL

=============================================================================
