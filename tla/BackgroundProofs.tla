-------------------------- MODULE BackgroundProofs --------------------------
(***************************************************************************)
(* Theorems about what works by itself behind an application: the connection *)
(* of the SwapManager (SwapConnection), the service worker with its services *)
(* (SwapWorker), the wallet's background work (VtxoManager) and the rounds   *)
(* on Expo (ExpoTasks).  They share nothing; each has its invariant.  They   *)
(* hold for any sockets, swaps, delays, pages, calls, services, outputs,     *)
(* tasks and bounds.  Two of SwapConnection                                  *)
(* are about a manager that is started once: after stop() and start() the    *)
(* handlers of an old socket act on the new one.                             *)
(***************************************************************************)
EXTENDS SwapConnection, SwapWorker, VtxoManager, ExpoTasks, TLAPS

(* SwapConnection.                                                           *)

\* Only one socket is ever on its way, and this.websocket is it as long as it is
\* alive; a reconnection is scheduled only when there is none.
OneSocket ==
    running =>
        /\ \A v, w \in Sockets : socket[v] # "none" /\ socket[w] # "none" => v = w
        /\ \A w \in Sockets : Live(w) => websocket = w
        /\ reconnectTimer => \A w \in Sockets : socket[w] = "none"

\* An open socket has been asked for every swap.
AllSubscribed ==
    running => \A w \in Sockets : socket[w] = "open" => monitored \subseteq subscribed[w]

\* Before start() there is nothing.
NothingBefore ==
    /\ running => started
    /\ ~started => \A w \in Sockets : socket[w] = "none"

Inv == TypeOK /\ OneSocket /\ AllSubscribed /\ NothingBefore /\ StoppedStaysDown

-----------------------------------------------------------------------------
(* Types. *)

LEMMA TypeStep ==
  ASSUME TypeOK, [Next]_vars
  PROVE  TypeOK'
<1> USE ConstantsAssumption DEF flags, sockets, timers, delays, TypeOK
<1>1. \A a, b \in Nat \ {0} : Lesser(a, b) \in Nat \ {0}
  BY DEF Lesser
<1>2. \A d \in Nat : /\ [runs |-> "regular", delay |-> d] \in PollTimer
                     /\ [runs |-> "fallback", delay |-> d] \in PollTimer
  BY DEF PollTimer
<1>3. NoTimer \in PollTimer
  BY DEF PollTimer, NoTimer
<1>4. \A w \in Sockets : Closing(w) \in [Sockets -> SocketState]
  BY DEF Closing, SocketState
<1>5. ASSUME EnterFallback
      PROVE  /\ {connecting', fallback', initialTimer'} \subseteq BOOLEAN
             /\ websocket' = NoSocket /\ pollTimer' \in PollTimer
             /\ interval' = interval /\ retryDelay' \in Nat \ {0}
  <2>1. retryDelay' \in Nat \ {0}
    BY <1>1, <1>5 DEF EnterFallback
  <2> QED BY <1>2, <1>5, <2>1 DEF EnterFallback, StartPollingFallback
<1>6. ASSUME Connect
      PROVE  /\ {connecting', fallback', unavailable', initialTimer'} \subseteq BOOLEAN
             /\ websocket' \in Sockets \cup {NoSocket}
             /\ socket' \in [Sockets -> SocketState] /\ timeouts' \subseteq Sockets
             /\ subscribed' \in [Sockets -> SUBSET Swaps]
             /\ pollTimer' \in PollTimer
             /\ interval' = interval /\ retryDelay' \in Nat \ {0}
  <2>1. CASE EnterFallback /\ UNCHANGED <<socket, timeouts, subscribed>>
               /\ unavailable' \in {unavailable, TRUE}
    BY <1>5, <2>1
  <2>2. CASE \E w \in Sockets :
               /\ websocket' = w
               /\ socket' = [socket EXCEPT ![w] = "connecting"]
               /\ timeouts' = timeouts \cup {w}
               /\ subscribed' = [subscribed EXCEPT ![w] = {}]
               /\ connecting' = TRUE
               /\ UNCHANGED <<fallback, unavailable, initialTimer, pollTimer, interval, retryDelay>>
    BY <2>2 DEF SocketState
  <2> QED BY <1>6, <2>1, <2>2 DEF Connect
<1>7. ASSUME NEW r \in Round, BeginRound(r)
      PROVE  rounds' \in [Round -> 0 .. MaxRounds]
  BY <1>7 DEF BeginRound
<1>8. ReconnectDelay \in ReconnectDelay .. MaxReconnectDelay
      /\ Lesser(2 * reconnectDelay, MaxReconnectDelay) \in ReconnectDelay .. MaxReconnectDelay
  BY DEF Lesser
<1>9. CASE Start
  BY <1>6, <1>9 DEF Start
<1>10. CASE Stop
  BY <1>3, <1>4, <1>10 DEF Stop
<1>11. ASSUME NEW s \in Swaps, AddSwap(s)
       PROVE  TypeOK'
  <2>1. retryDelay' \in Nat \ {0}
    BY <1>1, <1>11 DEF AddSwap
  <2>2. subscribed' \in [Sockets -> SUBSET Swaps]
    BY <1>11 DEF AddSwap
  <2>3. pollTimer' \in PollTimer /\ rounds' \in [Round -> 0 .. MaxRounds]
    BY <1>2, <1>7, <1>11, <2>1 DEF AddSwap, StartPollingFallback, Round
  <2> QED BY <1>11, <2>1, <2>2, <2>3 DEF AddSwap
<1>12. ASSUME NEW ms \in Intervals, SetPollInterval(ms)
       PROVE  TypeOK'
  <2>1. interval' \in Nat \ {0}
    BY <1>1, <1>12 DEF SetPollInterval
  <2>2. retryDelay' \in Nat \ {0}
    BY <1>1, <1>12, <2>1 DEF SetPollInterval
  <2>3. pollTimer' \in PollTimer
    BY <1>2, <1>12, <2>1, <2>2 DEF SetPollInterval, StartPollingFallback, StartPolling
  <2> QED BY <1>12, <2>1, <2>2, <2>3 DEF SetPollInterval
<1>13. ASSUME NEW w \in Sockets, SocketOpens(w)
       PROVE  TypeOK'
  <2>1. subscribed' \in [Sockets -> SUBSET Swaps]
    BY <1>13 DEF SocketOpens, SubscribeAll
  <2>2. pollTimer' \in PollTimer
    BY <1>2, <1>13 DEF SocketOpens, StartPolling
  <2>3. socket' \in [Sockets -> SocketState] /\ reconnectDelay' \in ReconnectDelay .. MaxReconnectDelay
    BY <1>8, <1>13 DEF SocketOpens, SocketState
  <2> QED BY <1>13, <2>1, <2>2, <2>3 DEF SocketOpens, LeaveFallback
<1>14. ASSUME NEW w \in Sockets, ConnectionTimeout(w)
       PROVE  TypeOK'
  BY <1>4, <1>5, <1>14 DEF ConnectionTimeout
<1>15. ASSUME NEW w \in Sockets, NEW failed \in BOOLEAN, SocketEnds(w, failed)
       PROVE  TypeOK'
  <2>1. socket' \in [Sockets -> SocketState] /\ subscribed' \in [Sockets -> SUBSET Swaps]
        /\ timeouts' \subseteq Sockets
    BY <1>15 DEF SocketEnds, SocketState
  <2>2. reconnectTimer' \in BOOLEAN /\ reconnectDelay' \in ReconnectDelay .. MaxReconnectDelay
    BY <1>8, <1>15 DEF SocketEnds, Reconnect, ScheduleReconnect
  <2>3. CASE failed /\ running
    BY <1>5, <1>15, <2>1, <2>2, <2>3 DEF SocketEnds
  <2>4. CASE ~(failed /\ running)
    BY <1>15, <2>1, <2>2, <2>4 DEF SocketEnds
  <2> QED BY <2>3, <2>4
<1>16. CASE ReconnectTimerFires
  BY <1>6, <1>16 DEF ReconnectTimerFires
<1>17. CASE PollTimerFires
  <2>1. pollTimer' \in PollTimer
    BY <1>17 DEF PollTimerFires, PollTimer
  <2>2. rounds' \in [Round -> 0 .. MaxRounds]
    BY <1>7, <1>17 DEF PollTimerFires, Round
  <2> QED BY <1>17, <2>1, <2>2 DEF PollTimerFires
<1>18. CASE InitialTimerFires \/ RetryTimerFires
  <2>1. rounds' \in [Round -> 0 .. MaxRounds]
    BY <1>7, <1>18 DEF InitialTimerFires, RetryTimerFires, Round
  <2> QED BY <1>18, <2>1 DEF InitialTimerFires, RetryTimerFires
<1>19. ASSUME NEW r \in Round, RoundEnds(r)
       PROVE  TypeOK'
  <2>1. rounds' \in [Round -> 0 .. MaxRounds]
    BY <1>19 DEF RoundEnds
  <2>2. retryDelay' \in Nat \ {0}
    <3>1. 2 * retryDelay \in Nat \ {0}
      OBVIOUS
    <3> QED BY <1>1, <1>19, <3>1 DEF RoundEnds
  <2>3. pollTimer' \in PollTimer
    BY <1>2, <1>19, <2>2 DEF RoundEnds, StartPolling, StartPollingFallback
  <2> QED BY <1>19, <2>1, <2>2, <2>3 DEF RoundEnds
<1>20. CASE UNCHANGED vars
  BY <1>20 DEF vars
<1> QED BY <1>9, <1>10, <1>11, <1>12, <1>13, <1>14, <1>15, <1>16, <1>17, <1>18, <1>19, <1>20
        DEF Next

-----------------------------------------------------------------------------
(* The connection. *)

\* Whatever it had, a manager in fallback has no socket, and one that connects has
\* the one socket it has just made.
LEMMA Connected ==
  ASSUME TypeOK, Connect, \A w \in Sockets : socket[w] = "none"
  PROVE  /\ \A v, w \in Sockets : socket'[v] # "none" /\ socket'[w] # "none" => v = w
         /\ \A w \in Sockets : Live(w)' => websocket' = w
         /\ \A w \in Sockets : socket'[w] \in {"none", "connecting"}
BY DEF Connect, EnterFallback, TypeOK, Live

\* Steps that leave the sockets alone.
LEMMA SocketsKept ==
  ASSUME Inv, UNCHANGED <<running, started, websocket, socket, subscribed, monitored, reconnectTimer>>
  PROVE  (OneSocket /\ AllSubscribed /\ NothingBefore /\ StoppedStaysDown)'
<1>1. OneSocket' /\ AllSubscribed'
  BY DEF Inv, OneSocket, AllSubscribed, Live
<1>2. NothingBefore' /\ StoppedStaysDown'
  BY DEF Inv, NothingBefore, StoppedStaysDown, Live
<1> QED BY <1>1, <1>2

\* A manager that is started once keeps to one socket.
LEMMA ConnectionStep ==
  ASSUME "restart" \notin Events, Inv, [Next]_vars
  PROVE  (OneSocket /\ AllSubscribed /\ NothingBefore /\ StoppedStaysDown)'
<1> USE DEF flags, sockets, timers, delays
<1>1. TypeOK /\ OneSocket /\ AllSubscribed /\ NothingBefore /\ StoppedStaysDown
  BY DEF Inv
<1> DEFINE Held == OneSocket /\ AllSubscribed /\ NothingBefore /\ StoppedStaysDown
<1>2. \A w \in Sockets : w # NoSocket
  BY ConstantsAssumption
<1>3. /\ socket \in [Sockets -> SocketState] /\ subscribed \in [Sockets -> SUBSET Swaps]
      /\ websocket \in Sockets \cup {NoSocket}
  BY <1>1 DEF TypeOK
<1>4. CASE Start
  <2>1. ~started /\ running' = TRUE /\ started' = TRUE
        /\ reconnectTimer' = reconnectTimer /\ ~reconnectTimer
    BY <1>1, <1>4 DEF Start, StoppedStaysDown
  <2>2. \A w \in Sockets : socket[w] = "none"
    BY <1>1, <2>1 DEF NothingBefore
  <2>3. CASE Connect
    BY <1>1, <2>1, <2>2, <2>3, Connected
       DEF OneSocket, AllSubscribed, NothingBefore, StoppedStaysDown, Live
  <2>4. CASE UNCHANGED sockets
    BY <2>1, <2>2, <2>4 DEF OneSocket, AllSubscribed, NothingBefore, StoppedStaysDown, Live
  <2> QED BY <1>4, <2>3, <2>4 DEF Start
<1>5. CASE Stop
  <2>1. running /\ started' = started /\ running' = FALSE /\ reconnectTimer' = FALSE
    BY <1>5 DEF Stop
  <2>2. \A w \in Sockets : socket'[w] \notin {"connecting", "open"}
    <3>1. CASE websocket = NoSocket
      BY <1>1, <1>2, <1>5, <2>1, <3>1 DEF Stop, OneSocket, Live
    <3>2. CASE websocket \in Sockets
      <4>1. socket' = Closing(websocket)
        BY <1>2, <1>5, <3>2 DEF Stop
      <4>2. \A w \in Sockets : w # websocket => socket'[w] = socket[w]
        BY <1>3, <4>1 DEF Closing
      <4>3. socket'[websocket] \notin {"connecting", "open"}
        BY <1>3, <3>2, <4>1 DEF Closing
      <4> QED BY <1>1, <2>1, <4>2, <4>3 DEF OneSocket, Live
    <3> QED BY <1>3, <3>1, <3>2
  <2> QED BY <1>1, <2>1, <2>2 DEF OneSocket, AllSubscribed, NothingBefore, StoppedStaysDown, Live
<1>6. ASSUME NEW s \in Swaps, AddSwap(s)
      PROVE  Held'
  <2>1. UNCHANGED <<running, started, websocket, socket, reconnectTimer>>
        /\ monitored' = monitored \cup {s}
    BY <1>6 DEF AddSwap
  <2>2. ASSUME running, NEW w \in Sockets, socket[w] = "open"
        PROVE  monitored' \subseteq subscribed'[w]
    <3>1. websocket = w
      BY <1>1, <2>2 DEF OneSocket, Live
    <3>2. subscribed' = [subscribed EXCEPT ![w] = @ \cup {s}]
      BY <1>2, <1>6, <2>2, <3>1 DEF AddSwap
    <3> QED BY <1>1, <1>3, <2>1, <2>2, <3>2 DEF AllSubscribed
  <2>3. AllSubscribed'
    BY <2>1, <2>2 DEF AllSubscribed
  <2> QED BY <1>1, <2>1, <2>3 DEF OneSocket, NothingBefore, StoppedStaysDown, Live
<1>7. ASSUME NEW w \in Sockets, SocketOpens(w)
      PROVE  Held'
  <2>1. /\ UNCHANGED <<running, started, websocket, monitored, reconnectTimer>>
        /\ socket[w] = "connecting" /\ socket' = [socket EXCEPT ![w] = "open"]
    BY <1>7 DEF SocketOpens
  <2>2. running /\ websocket = w
    BY <1>1, <2>1 DEF StoppedStaysDown, OneSocket, Live
  <2>3. \A v \in Sockets : v # w => socket[v] = "none" /\ socket'[v] = "none"
    BY <1>1, <1>3, <2>1, <2>2 DEF OneSocket
  <2>4. socket'[w] = "open"
    BY <1>3, <2>1
  <2>5. monitored \subseteq subscribed'[w]
    BY <1>2, <1>3, <1>7, <2>2, <2>4 DEF SocketOpens, SubscribeAll
  <2>6. ~reconnectTimer
    BY <1>1, <2>1, <2>2 DEF OneSocket
  <2> QED BY <1>1, <2>1, <2>2, <2>3, <2>4, <2>5, <2>6
          DEF OneSocket, AllSubscribed, NothingBefore, StoppedStaysDown, Live
<1>8. ASSUME NEW w \in Sockets, ConnectionTimeout(w)
      PROVE  Held'
  <2>1. /\ UNCHANGED <<running, started, subscribed, monitored, reconnectTimer>>
        /\ socket' = IF websocket = NoSocket THEN socket ELSE Closing(websocket)
        /\ running => websocket' = NoSocket
    BY <1>8 DEF ConnectionTimeout, EnterFallback
  <2>2. \A v \in Sockets : /\ socket'[v] = "none" <=> socket[v] = "none"
                           /\ Live(v)' => Live(v) /\ v # websocket
                           /\ socket'[v] = "open" => socket[v] = "open"
    BY <1>1, <1>2, <1>3, <2>1 DEF Closing, Live, OneSocket, StoppedStaysDown
  <2>3. running => \A v \in Sockets : ~Live(v)'
    BY <1>1, <2>2 DEF OneSocket
  <2> QED BY <1>1, <2>1, <2>2, <2>3 DEF OneSocket, AllSubscribed, NothingBefore, StoppedStaysDown, Live
<1>9. ASSUME NEW w \in Sockets, NEW failed \in BOOLEAN, SocketEnds(w, failed)
      PROVE  Held'
  <2>1. /\ UNCHANGED <<running, started, monitored>>
        /\ socket[w] # "none" /\ socket' = [socket EXCEPT ![w] = "none"]
        /\ ~running => reconnectTimer' = reconnectTimer
    BY <1>9 DEF SocketEnds, Reconnect
  <2>2. \A v \in Sockets : socket'[v] = "none" \/ (v # w /\ socket'[v] = socket[v])
    BY <1>3, <2>1
  <2>3. running => \A v \in Sockets : socket'[v] = "none"
    BY <1>1, <2>1, <2>2 DEF OneSocket
  <2>4. ~running' => \A v \in Sockets : ~Live(v)'
    BY <1>1, <2>1, <2>2 DEF StoppedStaysDown, Live
  <2>5. ~started' => \A v \in Sockets : socket'[v] = "none"
    BY <1>1, <2>1, <2>2 DEF NothingBefore
  <2> QED BY <1>1, <2>1, <2>3, <2>4, <2>5
          DEF OneSocket, AllSubscribed, NothingBefore, StoppedStaysDown, Live
<1>10. CASE ReconnectTimerFires
  <2>1. reconnectTimer /\ ~reconnectTimer' /\ Connect /\ UNCHANGED <<running, started, monitored>>
    BY <1>10 DEF ReconnectTimerFires
  <2>2. running /\ \A w \in Sockets : socket[w] = "none"
    BY <1>1, <2>1 DEF OneSocket, StoppedStaysDown
  <2> QED BY <1>1, <2>1, <2>2, Connected
          DEF OneSocket, AllSubscribed, NothingBefore, StoppedStaysDown, Live
<1>11. CASE \/ \E ms \in Intervals : SetPollInterval(ms)
            \/ PollTimerFires \/ InitialTimerFires \/ RetryTimerFires
            \/ \E r \in Round : RoundEnds(r)
            \/ UNCHANGED vars
  <2>1. UNCHANGED <<running, started, websocket, socket, subscribed, monitored, reconnectTimer>>
    BY <1>11 DEF SetPollInterval, PollTimerFires, InitialTimerFires, RetryTimerFires, RoundEnds, vars
  <2> QED BY <2>1, SocketsKept
<1> HIDE DEF Held
<1>12. Held'
  BY <1>4, <1>5, <1>6, <1>7, <1>8, <1>9, <1>10, <1>11 DEF Next, Held
<1> QED BY <1>12 DEF Held

-----------------------------------------------------------------------------
(* The invariant. *)

LEMMA InitInv ==
  ASSUME Init
  PROVE  Inv
<1>1. TypeOK
  <2>1. /\ socket \in [Sockets -> SocketState] /\ subscribed \in [Sockets -> SUBSET Swaps]
        /\ pollTimer \in PollTimer
    BY DEF Init, SocketState, PollTimer, NoTimer
  <2>2. rounds \in [Round -> 0 .. MaxRounds]
    BY ConstantsAssumption DEF Init
  <2>3. /\ interval \in Nat \ {0} /\ retryDelay \in Nat \ {0}
        /\ reconnectDelay \in ReconnectDelay .. MaxReconnectDelay
    BY ConstantsAssumption DEF Init
  <2> QED BY <2>1, <2>2, <2>3 DEF Init, TypeOK
<1> QED BY <1>1 DEF Init, Inv, OneSocket, AllSubscribed, NothingBefore, StoppedStaysDown, Live

LEMMA Inductive ==
  ASSUME "restart" \notin Events
  PROVE  Spec => []Inv
<1>1. Inv /\ [Next]_vars => Inv'
  BY TypeStep, ConnectionStep DEF Inv
<1> QED BY <1>1, InitInv, PTL DEF Spec

-----------------------------------------------------------------------------
(* The theorems. *)

\* The fields of the manager keep their types; delays are positive and reconnects
\* wait no longer than the configured maximum, however often it is started.
THEOREM TypesHold == Spec => []TypeOK
<1>1. Init => TypeOK
  BY InitInv DEF Inv
<1> QED BY <1>1, TypeStep, PTL DEF Spec

\* A manager that is started once has one connection, which knows every swap.
\* (SwapManager.tryConnectWebSocket, addSwap, enterPollingFallback)
THEOREM OneConnection ==
  ASSUME "restart" \notin Events
  PROVE  Spec => []ReportedOnce
<1>1. Inv => ReportedOnce
  BY DEF Inv, ReportedOnce, OneSocket, AllSubscribed, StoppedStaysDown, Live
<1> QED BY <1>1, Inductive, PTL

\* Once stopped it neither reconnects nor holds a connection. (SwapManager.stop)
THEOREM StaysDown ==
  ASSUME "restart" \notin Events
  PROVE  Spec => []StoppedStaysDown
<1>1. Inv => StoppedStaysDown
  BY DEF Inv
<1> QED BY <1>1, Inductive, PTL

-----------------------------------------------------------------------------
(* SwapWorker.  The types of what a call passes through.                     *)

Message == [kind : {"PING", "INIT"}, for : Waiter] \cup [kind : RequestKind, for : Calls \cup {Nobody}]
PageType == [open : {"no", "creating", "yes"}, setup : BOOLEAN, pinging : BOOLEAN,
             inbox : Seq(Message)]
CallType == [stage : {"idle", "ping", "reinit", "post", "sent", "joined"},
             kind : RequestKind, attempt : 0 .. MaxRetries, runs : Nat]
ServiceType == [running : BOOLEAN, loading : BOOLEAN, left : BOOLEAN]
CountType == [kills : 0 .. MaxTroubles, inits : 0 .. MaxInits, slow : 0 .. MaxTroubles]

RequestTypes ==
    page \in [Pages -> PageType] /\ call \in [Calls -> CallType] /\ jobs \subseteq Job

BusTypes ==
    /\ ready \in BOOLEAN /\ building \in BOOLEAN /\ ~(ready /\ building)
    /\ handler \in Services \cup {NoService}
    /\ service \in [Services -> ServiceType] /\ count \in CountType

(* A call's request is in one place: in the inbox of its page before it runs, *)
(* or in a job of the worker, once it does; or it is lost.                    *)
For(p, i) == page[p].inbox[i].for

InboxHas(c) ==
    \A p \in Pages : \A i \in DOMAIN page[p].inbox : For(p, i) = c =>
        p = PageOf[c] /\ call[c].stage = "sent" /\ call[c].runs = 0

InboxHasOne(c) ==
    \A p \in Pages : \A i, k \in DOMAIN page[p].inbox :
        For(p, i) = c /\ For(p, k) = c => i = k

JobHas(c) == \A j \in jobs : j.for = c => call[c].stage = "sent" /\ call[c].runs = 1

JobHasOne(c) == \A j, k \in jobs : j.for = c /\ k.for = c => j = k

Runs(c) == call[c].runs <= 1 /\ (call[c].stage # "sent" => call[c].runs = 0)

Once(c) == InboxHas(c) /\ InboxHasOne(c) /\ JobHas(c) /\ JobHasOne(c) /\ Runs(c)

OnceInv == RequestTypes /\ \A c \in Calls : Once(c)

(* A manager that runs, or will as soon as the stored swaps are loaded, is that *)
(* of the handler or is marked.                                                 *)
MayRun(s) == service[s].running \/ Starting(s)

StraysMarked == \A s \in Services : MayRun(s) => s = handler \/ service[s].left

SwapWorkerInv == OnceInv /\ BusTypes /\ StraysMarked

\* The messages of s for w are among those of t, so many places later.
Fewer(s, t, w) ==
    \E d \in Nat : \A i \in DOMAIN s :
        s[i].for = w => i + d \in DOMAIN t /\ s[i] = t[i + d]

\* A page with no more requests of calls than another one.
Less(new, old) ==
    new \in PageType /\ \A c \in Calls : Fewer(new.inbox, old.inbox, c)

\* A page is no more than itself.
LEMMA LessSame ==
  ASSUME NEW old \in PageType, NEW new \in PageType, new.inbox = old.inbox
  PROVE  Less(new, old)
<1>1. old.inbox \in Seq(Message)
  BY DEF PageType
<1>2. \A c \in Calls : \A i \in DOMAIN new.inbox :
        new.inbox[i].for = c => i + 0 \in DOMAIN old.inbox /\ new.inbox[i] = old.inbox[i + 0]
  BY <1>1
<1>3. 0 \in Nat
  OBVIOUS
<1> QED BY <1>2, <1>3 DEF Less, Fewer

\* What has fewer requests of a call than that which has fewer.
LEMMA LessTrans ==
  ASSUME NEW a \in PageType, NEW b \in PageType, NEW e \in PageType, Less(a, b), Less(b, e)
  PROVE  Less(a, e)
<1> SUFFICES ASSUME NEW c \in Calls PROVE Fewer(a.inbox, e.inbox, c)
  BY DEF Less
<1>1. PICK d1 \in Nat : \A i \in DOMAIN a.inbox : a.inbox[i].for = c =>
          i + d1 \in DOMAIN b.inbox /\ a.inbox[i] = b.inbox[i + d1]
  BY DEF Less, Fewer
<1>2. PICK d2 \in Nat : \A i \in DOMAIN b.inbox : b.inbox[i].for = c =>
          i + d2 \in DOMAIN e.inbox /\ b.inbox[i] = e.inbox[i + d2]
  BY DEF Less, Fewer
<1>3. d1 + d2 \in Nat
  OBVIOUS
<1>4. ASSUME NEW i \in DOMAIN a.inbox, a.inbox[i].for = c
      PROVE  i + (d1 + d2) \in DOMAIN e.inbox /\ a.inbox[i] = e.inbox[i + (d1 + d2)]
  <2>1. i \in Nat
    BY DEF PageType
  <2>2. i + (d1 + d2) = (i + d1) + d2
    BY <2>1
  <2>3. i + d1 \in DOMAIN b.inbox /\ a.inbox[i] = b.inbox[i + d1]
    BY <1>1, <1>4
  <2> QED BY <1>2, <1>4, <2>2, <2>3
<1> QED BY <1>3, <1>4 DEF Fewer

\* Posting what the page itself waits for adds no request of a call.
LEMMA PostedLess ==
  ASSUME NEW pg \in PageType, NEW kind \in {"PING", "INIT"}, NEW w \in {Setup, Ping}
  PROVE  Less(Posted(pg, kind, w), pg)
<1> DEFINE m == [kind |-> kind, for |-> w]
<1>1. m \in Message /\ m.for = w /\ w \notin Calls
  BY SwapWorkerAssumption DEF Message, Waiter
<1>2. pg.inbox \in Seq(Message)
  BY DEF PageType
<1>3. Posted(pg, kind, w) \in PageType /\ Posted(pg, kind, w).inbox = Append(pg.inbox, m)
  BY <1>1, <1>2 DEF Posted, PageType
<1> HIDE DEF m
<1>4. \A c \in Calls : \A i \in DOMAIN Append(pg.inbox, m) : Append(pg.inbox, m)[i].for = c =>
          i + 0 \in DOMAIN pg.inbox /\ Append(pg.inbox, m)[i] = pg.inbox[i + 0]
  BY <1>1, <1>2
<1>5. 0 \in Nat
  OBVIOUS
<1>6. \A c \in Calls : Fewer(Append(pg.inbox, m), pg.inbox, c)
  BY <1>4, <1>5 DEF Fewer
<1> QED BY <1>3, <1>6 DEF Less

\* Initialising the worker again adds no request of a call.
LEMMA ReinitializedLess ==
  ASSUME NEW pg \in PageType
  PROVE  Less(Reinitialized(pg), pg)
<1> DEFINE new == [pg EXCEPT !.setup = TRUE]
<1>1. new \in PageType /\ new.inbox = pg.inbox
  BY DEF PageType
<1> HIDE DEF new
<1>2. Less(Posted(new, "INIT", Setup), pg)
  BY <1>1, PostedLess DEF Less
<1>3. Less(pg, pg)
  BY LessSame
<1> QED BY <1>2, <1>3 DEF Reinitialized, new

\* Forgetting the messages of one waiter leaves none of its own and adds none.
LEMMA ForgottenLess ==
  ASSUME NEW pg \in PageType, NEW w \in Waiter
  PROVE  Less(Forgotten(pg, w), pg)
<1> DEFINE new == [i \in DOMAIN pg.inbox |-> IF pg.inbox[i].for = w
                     THEN [pg.inbox[i] EXCEPT !.for = Nobody] ELSE pg.inbox[i]]
<1>1. pg.inbox \in Seq(Message)
  BY DEF PageType
<1>2. \A m \in Message : [m EXCEPT !.for = Nobody] \in Message /\ [m EXCEPT !.for = Nobody].for = Nobody
  BY DEF Message, Waiter
<1>3. new \in Seq(Message)
  BY <1>1, <1>2
<1>4. Forgotten(pg, w) \in PageType /\ Forgotten(pg, w).inbox = new
  BY <1>3 DEF Forgotten, PageType
<1>5. \A c \in Calls : \A i \in DOMAIN new :
        new[i].for = c => i + 0 \in DOMAIN pg.inbox /\ new[i] = pg.inbox[i + 0]
  <2> SUFFICES ASSUME NEW c \in Calls, NEW i \in DOMAIN pg.inbox, new[i].for = c
               PROVE  i + 0 \in DOMAIN pg.inbox /\ new[i] = pg.inbox[i + 0]
    OBVIOUS
  <2>1. pg.inbox[i] \in Message /\ i + 0 = i
    BY <1>1
  <2>2. c # Nobody
    BY SwapWorkerAssumption
  <2> QED BY <1>2, <2>1, <2>2
<1>6. 0 \in Nat
  OBVIOUS
<1> QED BY <1>4, <1>5, <1>6 DEF Less, Fewer

-----------------------------------------------------------------------------
(* What a step does to the requests of a call. *)

NoMore(c) ==
    /\ \A p \in Pages : Fewer(page'[p].inbox, page[p].inbox, c)
    /\ \A j \in jobs' : j.for = c => j \in jobs

Nowhere(c) ==
    /\ \A p \in Pages : \A i \in DOMAIN page'[p].inbox : page'[p].inbox[i].for # c
    /\ \A j \in jobs' : j.for # c

\* The inboxes of a step that adds no message of a call.
LEMMA InboxKept ==
  ASSUME RequestTypes', NEW c \in Calls, Once(c),
         call'[c].stage = call[c].stage, call'[c].runs = call[c].runs,
         \A p \in Pages : Fewer(page'[p].inbox, page[p].inbox, c)
  PROVE  InboxHas(c)' /\ InboxHasOne(c)'
<1>1. InboxHas(c)'
  <2> SUFFICES ASSUME NEW p \in Pages, NEW i \in DOMAIN page'[p].inbox,
                      page'[p].inbox[i].for = c
               PROVE  p = PageOf[c] /\ call'[c].stage = "sent" /\ call'[c].runs = 0
    BY DEF InboxHas, For
  <2>1. PICK d \in Nat : i + d \in DOMAIN page[p].inbox
                            /\ page'[p].inbox[i] = page[p].inbox[i + d]
    BY DEF Fewer
  <2> QED BY <2>1 DEF Once, InboxHas, For
<1>2. InboxHasOne(c)'
  <2> SUFFICES ASSUME NEW p \in Pages, NEW i \in DOMAIN page'[p].inbox,
                      NEW k \in DOMAIN page'[p].inbox,
                      page'[p].inbox[i].for = c, page'[p].inbox[k].for = c
               PROVE  i = k
    BY DEF InboxHasOne, For
  <2>1. PICK d \in Nat : \A n \in DOMAIN page'[p].inbox :
            page'[p].inbox[n].for = c => n + d \in DOMAIN page[p].inbox
                                         /\ page'[p].inbox[n] = page[p].inbox[n + d]
    BY DEF Fewer
  <2>2. i + d = k + d
    BY <2>1 DEF Once, InboxHasOne, For
  <2>3. page'[p].inbox \in Seq(Message)
    BY DEF RequestTypes, PageType
  <2>4. i \in Nat /\ k \in Nat
    BY <2>3
  <2> QED BY <2>2, <2>4
<1> QED BY <1>1, <1>2

\* A step that adds no message and no job of a call leaves it as it was.
LEMMA CallKept ==
  ASSUME RequestTypes', NEW c \in Calls, Once(c), call'[c] = call[c], NoMore(c)
  PROVE  Once(c)'
<1>1. InboxHas(c)' /\ InboxHasOne(c)'
  BY InboxKept DEF NoMore
<1>2. JobHas(c)' /\ JobHasOne(c)' /\ Runs(c)'
  BY DEF Once, JobHas, JobHasOne, Runs, NoMore
<1> QED BY <1>1, <1>2 DEF Once

\* A call nothing of which is left may go back to where it has not run.
LEMMA CallGone ==
  ASSUME NEW c \in Calls, call'[c].stage # "sent", call'[c].runs = 0, Nowhere(c)
  PROVE  Once(c)'
BY DEF Once, InboxHas, InboxHasOne, JobHas, JobHasOne, Runs, For, Nowhere

\* A call that waits without a request, released or ended.
Released(c) ==
    call[c].stage # "sent" /\ call'[c].stage # "sent" /\ call'[c].runs \in {0, call[c].runs}

LEMMA CallReleased ==
  ASSUME NEW c \in Calls, Once(c), Released(c), NoMore(c)
  PROVE  Once(c)'
<1>1. \A p \in Pages : \A i \in DOMAIN page[p].inbox : page[p].inbox[i].for # c
  BY DEF Once, InboxHas, For, Released
<1>2. ASSUME NEW p \in Pages, NEW i \in DOMAIN page'[p].inbox PROVE page'[p].inbox[i].for # c
  BY <1>1 DEF NoMore, Fewer
<1>3. \A j \in jobs' : j.for # c
  BY DEF Once, JobHas, NoMore, Released
<1>4. call'[c].runs = 0 /\ call'[c].stage # "sent"
  BY DEF Once, Runs, Released
<1> QED BY <1>2, <1>3, <1>4, CallGone DEF Nowhere

\* Where a call is before and after: the same, released, or gone.
Settles(c) ==
    \/ NoMore(c) /\ (call'[c] = call[c] \/ Released(c))
    \/ Nowhere(c) /\ call'[c].stage # "sent" /\ call'[c].runs = 0

LEMMA OnceKept ==
  ASSUME OnceInv, RequestTypes', \A c \in Calls : Settles(c)
  PROVE  OnceInv'
<1>1. ASSUME NEW c \in Calls PROVE Once(c)'
  <2>1. Once(c) /\ Settles(c)
    BY DEF OnceInv
  <2> QED BY <2>1, CallKept, CallReleased, CallGone DEF Settles
<1> QED BY <1>1 DEF OnceInv

-----------------------------------------------------------------------------
(* What an answer does to a page and to the calls. *)

\* Calls that wait without a request move on.
LEMMA CallsMove ==
  ASSUME RequestTypes, NEW p \in Pages, NEW from \in {"ping", "reinit"},
         NEW to \in {"reinit", "post"}, call' = MovedOn(Waiting(p, from), to)
  PROVE  /\ call' \in [Calls -> CallType]
         /\ \A c \in Calls : call'[c] = call[c] \/ Released(c)
<1>1. ASSUME NEW c \in Calls
      PROVE  call'[c] \in CallType /\ (call'[c] = call[c] \/ Released(c))
  <2>1. call[c] \in CallType
    BY DEF RequestTypes
  <2>2. CASE c \in Waiting(p, from)
    <3>1. call'[c] = [call[c] EXCEPT !.stage = to] /\ call[c].stage = from
      BY <2>2 DEF MovedOn, Waiting
    <3> QED BY <2>1, <3>1 DEF CallType, Released
  <2>3. CASE c \notin Waiting(p, from)
    BY <2>1, <2>3 DEF MovedOn
  <2> QED BY <2>2, <2>3
<1>2. call' = [c \in Calls |-> call'[c]]
  BY DEF MovedOn
<1> QED BY <1>1, <1>2

\* Calls end, and the reads that share their promise, which posted nothing.
LEMMA CallsStop ==
  ASSUME RequestTypes, NEW cs \in SUBSET Calls, call' = Ended(cs)
  PROVE  /\ call' \in [Calls -> CallType]
         /\ \A c \in cs : call'[c].stage # "sent" /\ call'[c].runs = 0
         /\ \A c \in Calls \ cs : call'[c] = call[c] \/ Released(c)
<1>1. IdleCall \in CallType /\ IdleCall.stage = "idle" /\ IdleCall.runs = 0
  BY DEF IdleCall, CallType, RequestKind, MaxRetries
<1>2. \A c \in Calls : call'[c] = call[c] \/ call'[c] = IdleCall
  BY DEF Ended
<1>3. \A c \in cs : call'[c] = IdleCall
  BY DEF Ended
<1>4. \A c \in Calls \ cs : call'[c] # call[c] => call[c].stage = "joined"
  BY DEF Ended, Sharing
<1>5. call' = [c \in Calls |-> call'[c]]
  BY DEF Ended
<1>6. \A c \in Calls : call'[c] \in CallType
  BY <1>1, <1>2 DEF RequestTypes
<1> QED BY <1>1, <1>2, <1>3, <1>4, <1>5, <1>6 DEF Released

\* The answered page, and what its waiter becomes.
Concludes(p, pg, w, outcome) ==
    /\ page' = [page EXCEPT ![p] = page'[p]] /\ Less(page'[p], pg)
    /\ call' \in [Calls -> CallType]
    /\ \A c \in Calls : c # w => call'[c] = call[c] \/ Released(c)
    /\ w \in Calls => /\ call'[w].stage # "sent"
                      /\ \/ call'[w].runs = 0
                         \/ outcome = "notInitialized" /\ call'[w].runs = call[w].runs

\* The page is changed in what has no requests.
LEMMA PageSet ==
  ASSUME RequestTypes, NEW p \in Pages, NEW pg \in PageType, NEW new \in PageType,
         new.inbox = pg.inbox, page' = [page EXCEPT ![p] = new]
  PROVE  page' = [page EXCEPT ![p] = page'[p]] /\ Less(page'[p], pg)
<1>1. page'[p] = new
  BY DEF RequestTypes
<1> QED BY <1>1, LessSame

\* An answered call has ended, or is about to be repeated: then it was refused.
LEMMA CallConcludes ==
  ASSUME RequestTypes, NEW c \in Calls, NEW pg \in PageType, NEW outcome,
         CallAnswered(c, pg, outcome)
  PROVE  Concludes(PageOf[c], pg, c, outcome)
<1> DEFINE p == PageOf[c]
<1>1. p \in Pages /\ page \in [Pages -> PageType] /\ call \in [Calls -> CallType]
  BY SwapWorkerAssumption DEF RequestTypes
<1>2. CASE Retries(c, outcome)
  <2>1. /\ outcome = "notInitialized" /\ call[c].attempt < MaxRetries
        /\ call' = [call EXCEPT ![c].stage = "reinit", ![c].attempt = @ + 1]
        /\ page' = [page EXCEPT ![p] = Reinitialized(pg)]
    BY <1>2 DEF CallAnswered, Retries
  <2>2. page'[p] = Reinitialized(pg) /\ Less(page'[p], pg)
    BY <1>1, <2>1, ReinitializedLess
  <2>3. /\ call'[c] = [call[c] EXCEPT !.stage = "reinit", !.attempt = @ + 1]
        /\ \A d \in Calls : d # c => call'[d] = call[d]
    BY <1>1, <2>1
  <2>4. call'[c] \in CallType /\ call'[c].stage = "reinit" /\ call'[c].runs = call[c].runs
    BY <1>1, <2>1, <2>3 DEF CallType, MaxRetries
  <2>5. call' \in [Calls -> CallType]
    <3>1. call' = [call EXCEPT ![c] = call'[c]]
      BY <1>1, <2>1, <2>3
    <3> QED BY <1>1, <2>4, <3>1
  <2>6. page' = [page EXCEPT ![p] = page'[p]]
    BY <2>1, <2>2
  <2> QED BY <2>1, <2>2, <2>3, <2>4, <2>5, <2>6 DEF Concludes
<1>3. CASE ~Retries(c, outcome)
  <2>1. call' = Ended({c}) /\ page' = [page EXCEPT ![p] = pg]
    BY <1>3 DEF CallAnswered
  <2>2. page' = [page EXCEPT ![p] = page'[p]] /\ Less(page'[p], pg)
    BY <1>1, <2>1, PageSet
  <2>3. /\ call' \in [Calls -> CallType]
        /\ \A d \in {c} : call'[d].stage # "sent" /\ call'[d].runs = 0
        /\ \A d \in Calls \ {c} : call'[d] = call[d] \/ Released(d)
    BY <2>1, CallsStop
  <2> QED BY <2>2, <2>3 DEF Concludes
<1> QED BY <1>2, <1>3

\* The answer to create() or reinitialize() releases the calls that wait for it.
LEMMA SetupConcludes ==
  ASSUME RequestTypes, NEW p \in Pages, NEW pg \in PageType, NEW outcome, NEW w, w \notin Calls,
         SetupAnswered(p, pg, outcome)
  PROVE  Concludes(p, pg, w, outcome)
<1> DEFINE new == [pg EXCEPT !.setup = FALSE,
                             !.open = IF @ # "creating" THEN @
                                      ELSE IF outcome = "ok" THEN "yes" ELSE "no"]
<1>1. new \in PageType /\ new.inbox = pg.inbox
  BY DEF PageType
<1>2. page' = [page EXCEPT ![p] = new]
  BY DEF SetupAnswered
<1> HIDE DEF new
<1>3. page' = [page EXCEPT ![p] = page'[p]] /\ Less(page'[p], pg)
  BY <1>1, <1>2, PageSet
<1>4. CASE call' = MovedOn(Waiting(p, "reinit"), "post")
  BY <1>3, <1>4, CallsMove DEF Concludes
<1>5. CASE call' = Ended(Waiting(p, "reinit"))
  <2>1. Waiting(p, "reinit") \in SUBSET Calls
    BY DEF Waiting
  <2>2. /\ call' \in [Calls -> CallType]
        /\ \A c \in Waiting(p, "reinit") : call'[c].stage # "sent" /\ call'[c].runs = 0
        /\ \A c \in Calls \ Waiting(p, "reinit") : call'[c] = call[c] \/ Released(c)
    BY <1>5, <2>1, CallsStop
  <2>3. \A c \in Calls : call'[c] = call[c] \/ Released(c)
    BY <2>2 DEF Waiting, Released
  <2> QED BY <1>3, <2>2, <2>3 DEF Concludes
<1> QED BY <1>4, <1>5 DEF SetupAnswered

\* A pong releases the calls that wait for it.
LEMMA PingConcludes ==
  ASSUME RequestTypes, NEW p \in Pages, NEW pg \in PageType, NEW outcome, NEW w, w \notin Calls,
         PingAnswered(p, pg)
  PROVE  Concludes(p, pg, w, outcome)
<1> DEFINE new == [pg EXCEPT !.pinging = FALSE]
<1>1. new \in PageType /\ new.inbox = pg.inbox
  BY DEF PageType
<1>2. page' = [page EXCEPT ![p] = new]
  BY DEF PingAnswered
<1> HIDE DEF new
<1>3. page' = [page EXCEPT ![p] = page'[p]] /\ Less(page'[p], pg)
  BY <1>1, <1>2, PageSet
<1>4. /\ call' \in [Calls -> CallType]
      /\ \A c \in Calls : call'[c] = call[c] \/ Released(c)
  BY CallsMove DEF PingAnswered
<1> QED BY <1>3, <1>4 DEF Concludes

\* Any answer to what a page posted.
LEMMA AnswerConcludes ==
  ASSUME RequestTypes, NEW p \in Pages, NEW pg \in PageType, NEW w \in Waiter, NEW outcome,
         w \in Calls => PageOf[w] = p, Answered(p, pg, w, outcome)
  PROVE  Concludes(p, pg, w, outcome)
<1>1. CASE w = Setup
  <2>1. w \notin Calls /\ SetupAnswered(p, pg, outcome)
    BY <1>1, SwapWorkerAssumption DEF Answered
  <2> QED BY <2>1, SetupConcludes
<1>2. CASE w = Ping /\ w # Setup
  <2>1. w \notin Calls /\ PingAnswered(p, pg)
    BY <1>2, SwapWorkerAssumption DEF Answered
  <2> QED BY <2>1, PingConcludes
<1>3. CASE w = Nobody /\ w # Setup /\ w # Ping
  <2>1. w \notin Calls /\ page' = [page EXCEPT ![p] = pg] /\ call' = call
    BY <1>3, SwapWorkerAssumption DEF Answered
  <2>2. page' = [page EXCEPT ![p] = page'[p]] /\ Less(page'[p], pg)
    BY <2>1, PageSet
  <2> QED BY <2>1, <2>2 DEF Concludes, RequestTypes
<1>4. CASE w \in Calls
  <2>1. CallAnswered(w, pg, outcome)
    BY <1>4, SwapWorkerAssumption DEF Answered
  <2> QED BY <1>4, <2>1, CallConcludes
<1> QED BY <1>1, <1>2, <1>3, <1>4 DEF Waiter
-----------------------------------------------------------------------------
(* The steps of a request. *)

\* A page that changes to one with no more requests.
LEMMA PagesFewer ==
  ASSUME RequestTypes, NEW p \in Pages, NEW pg \in PageType, Less(pg, page[p]),
         page' = [page EXCEPT ![p] = page'[p]], Less(page'[p], pg)
  PROVE  /\ page' \in [Pages -> PageType]
         /\ \A q \in Pages, c \in Calls : Fewer(page'[q].inbox, page[q].inbox, c)
<1>1. page \in [Pages -> PageType] /\ page'[p] \in PageType
  BY DEF RequestTypes, Less
<1>2. page' \in [Pages -> PageType]
  BY <1>1
<1>3. \A q \in Pages : Less(page'[q], page[q])
  <2>1. Less(page'[p], page[p])
    BY <1>1, LessTrans
  <2>2. ASSUME NEW q \in Pages, q # p PROVE Less(page'[q], page[q])
    <3>1. page'[q] = page[q] /\ page[q] \in PageType
      BY <1>1, <2>2
    <3> QED BY <3>1, LessSame
  <2> QED BY <2>1, <2>2
<1> QED BY <1>2, <1>3 DEF Less

\* A step of a page that posts no request, and at most releases calls.
LEMMA PageStep ==
  ASSUME OnceInv, NEW p \in Pages, page' = [page EXCEPT ![p] = page'[p]],
         Less(page'[p], page[p]), call' \in [Calls -> CallType], jobs' = jobs,
         \A c \in Calls : call'[c] = call[c] \/ Released(c)
  PROVE  OnceInv'
<1>1. RequestTypes /\ page[p] \in PageType
  BY DEF OnceInv, RequestTypes
<1>2. Less(page[p], page[p])
  BY <1>1, LessSame
<1>3. /\ page' \in [Pages -> PageType]
      /\ \A q \in Pages, c \in Calls : Fewer(page'[q].inbox, page[q].inbox, c)
  BY <1>1, <1>2, PagesFewer
<1>4. RequestTypes'
  BY <1>1, <1>3 DEF RequestTypes
<1>5. \A c \in Calls : Settles(c)
  BY <1>3 DEF Settles, NoMore
<1> QED BY <1>4, <1>5, OnceKept

\* A step of the worker that only drops requests, or goes on with them for nobody.
LEMMA WorkerStep ==
  ASSUME OnceInv, page' = page, call' = call, jobs' \subseteq Job,
         \A j \in jobs' : j.for \in Calls => j \in jobs
  PROVE  OnceInv'
<1>1. RequestTypes /\ RequestTypes'
  BY DEF OnceInv, RequestTypes
<1>2. \A p \in Pages, c \in Calls : Fewer(page'[p].inbox, page[p].inbox, c)
  <2>1. \A p \in Pages : page'[p] = page[p] /\ page[p] \in PageType
    BY <1>1 DEF RequestTypes
  <2> QED BY <2>1, LessSame DEF Less
<1>3. \A c \in Calls : Settles(c)
  BY <1>2 DEF Settles, NoMore
<1> QED BY <1>1, <1>3, OnceKept

\* An answer to a call of which nothing is left but what the worker drops.
LEMMA RequestEnds ==
  ASSUME OnceInv, NEW c \in Calls, NEW outcome, outcome # "notInitialized",
         NEW pg \in PageType, Less(pg, page[PageOf[c]]), CallAnswered(c, pg, outcome),
         \A i \in DOMAIN pg.inbox : pg.inbox[i].for # c,
         \A p \in Pages \ {PageOf[c]} : \A i \in DOMAIN page[p].inbox : page[p].inbox[i].for # c,
         jobs' \subseteq Job, \A j \in jobs' : j.for # c /\ (j.for \in Calls => j \in jobs)
  PROVE  OnceInv'
<1> DEFINE p == PageOf[c]
<1>1. RequestTypes /\ p \in Pages /\ page[p] \in PageType
  BY SwapWorkerAssumption DEF OnceInv, RequestTypes
<1>2. Less(pg, page[p]) /\ Concludes(p, pg, c, outcome)
  BY <1>1, CallConcludes
<1> HIDE DEF p
<1>3. /\ page' \in [Pages -> PageType]
      /\ \A q \in Pages, d \in Calls : Fewer(page'[q].inbox, page[q].inbox, d)
  BY <1>1, <1>2, PagesFewer DEF Concludes
<1>4. RequestTypes'
  BY <1>2, <1>3 DEF RequestTypes, Concludes
<1>5. ASSUME NEW d \in Calls, d # c PROVE Settles(d)
  <2>1. call'[d] = call[d] \/ Released(d)
    BY <1>2, <1>5 DEF Concludes
  <2>2. NoMore(d)
    BY <1>3 DEF NoMore
  <2> QED BY <2>1, <2>2 DEF Settles
<1>6. Settles(c)
  <2>1. \A i \in DOMAIN page'[p].inbox : page'[p].inbox[i].for # c
    BY <1>2 DEF Concludes, Less, Fewer
  <2>2. \A q \in Pages \ {p} : \A i \in DOMAIN page'[q].inbox : page'[q].inbox[i].for # c
    BY <1>3 DEF Fewer, p
  <2>3. call'[c].stage # "sent" /\ call'[c].runs = 0
    BY <1>2 DEF Concludes
  <2> QED BY <2>1, <2>2, <2>3 DEF Settles, Nowhere
<1>7. \A d \in Calls : Settles(d)
  BY <1>5, <1>6
<1> QED BY <1>4, <1>7, OnceKept

\* Orphans are jobs for nobody.
LEMMA OrphansForNobody ==
  ASSUME NEW js \in SUBSET Job
  PROVE  Orphans(js) \subseteq Job /\ \A k \in Orphans(js) : k.for = Nobody
BY DEF Orphans, Job

\* A job ends for the page.
LEMMA JobEnds ==
  ASSUME OnceInv, NEW j \in jobs, NEW outcome, outcome # "notInitialized",
         JobAnswered(j, outcome), NEW js \in SUBSET {j},
         jobs' = (jobs \ {j}) \cup Orphans(js)
  PROVE  OnceInv'
<1>1. RequestTypes /\ jobs \subseteq Job
  BY DEF OnceInv, RequestTypes
<1>2. js \in SUBSET Job
  BY <1>1
<1>3. Orphans(js) \subseteq Job /\ \A k \in Orphans(js) : k.for = Nobody
  BY <1>2, OrphansForNobody
<1>4. jobs' \subseteq Job /\ \A k \in jobs' : k.for \in Calls => k \in jobs /\ k # j
  BY <1>1, <1>3, SwapWorkerAssumption
<1>5. CASE j.for = Nobody
  BY <1>4, <1>5, WorkerStep DEF JobAnswered
<1>6. CASE j.for # Nobody
  <2>1. j.for \in Calls
    BY <1>1, <1>6 DEF Job
  <2>2. PICK c \in Calls : c = j.for
    BY <2>1
  <2>3. Once(c)
    BY DEF OnceInv
  <2>4. \A p \in Pages : \A i \in DOMAIN page[p].inbox : page[p].inbox[i].for # c
    <3>1. call[c].runs = 1
      BY <2>2, <2>3 DEF Once, JobHas
    <3> QED BY <2>3, <3>1 DEF Once, InboxHas, For
  <2>5. \A k \in jobs' : k.for # c
    BY <1>4, <2>2, <2>3 DEF Once, JobHasOne
  <2>6. CallAnswered(c, page[PageOf[c]], outcome)
    BY <1>6, <2>2 DEF JobAnswered
  <2>7. page[PageOf[c]] \in PageType /\ Less(page[PageOf[c]], page[PageOf[c]])
        /\ PageOf[c] \in Pages
    BY SwapWorkerAssumption, LessSame DEF OnceInv, RequestTypes
  <2> QED BY <1>4, <2>4, <2>5, <2>6, <2>7, RequestEnds
<1> QED BY <1>5, <1>6

\* A job goes on under another form.
LEMMA JobGoesOn ==
  ASSUME OnceInv, NEW j \in jobs, NEW k \in Job, k.for = j.for,
         jobs' = (jobs \ {j}) \cup {k}, page' = page, call' = call
  PROVE  OnceInv'
<1>1. RequestTypes /\ RequestTypes'
  BY DEF OnceInv, RequestTypes
<1>2. ASSUME NEW c \in Calls PROVE Once(c)'
  <2>1. Once(c)
    BY DEF OnceInv
  <2>2. JobHas(c)' /\ JobHasOne(c)'
    BY <2>1 DEF Once, JobHas, JobHasOne
  <2>3. InboxHas(c)' /\ InboxHasOne(c)' /\ Runs(c)'
    BY <2>1 DEF Once, InboxHas, InboxHasOne, Runs, For
  <2> QED BY <2>2, <2>3 DEF Once
<1> QED BY <1>1, <1>2 DEF OnceInv

\* A page begins to wait for a worker.
LEMMA CreateStep ==
  ASSUME OnceInv, NEW p \in Pages, Create(p)
  PROVE  OnceInv'
<1> DEFINE new == [page[p] EXCEPT !.open = "creating", !.setup = TRUE]
<1>1. RequestTypes /\ page \in [Pages -> PageType] /\ page[p] \in PageType
  BY DEF OnceInv, RequestTypes
<1>2. new \in PageType /\ new.inbox = page[p].inbox
  BY <1>1 DEF PageType
<1>3. page' = [page EXCEPT ![p] = Posted(new, "INIT", Setup)] /\ call' = call /\ jobs' = jobs
  BY DEF Create, worker
<1> HIDE DEF new
<1>4. page'[p] = Posted(new, "INIT", Setup) /\ page' = [page EXCEPT ![p] = page'[p]]
  BY <1>1, <1>3
<1>5. Less(page'[p], new) /\ Less(new, page[p])
  BY <1>1, <1>2, <1>4, PostedLess, LessSame
<1>6. Less(page'[p], page[p])
  BY <1>1, <1>2, <1>5, LessTrans DEF Less
<1>7. call' \in [Calls -> CallType]
  BY <1>1, <1>3 DEF RequestTypes
<1> QED BY <1>3, <1>4, <1>6, <1>7, PageStep

\* A call that has not been made.
LEMMA IdleCallType ==
  IdleCall \in CallType
<1>1. "act" \in RequestKind /\ 0 \in 0 .. MaxRetries
  BY DEF RequestKind, MaxRetries
<1> QED BY <1>1 DEF IdleCall, CallType

\* A call that is made, and waits for the pong of its page.
LEMMA SendStep ==
  ASSUME OnceInv, NEW c \in Calls, NEW kind \in RequestKind, call[c].stage = "idle",
         SendWithRetry(c, kind), jobs' = jobs
  PROVE  OnceInv'
<1> DEFINE p == PageOf[c]
           new == [page[p] EXCEPT !.pinging = TRUE]
<1>1. /\ RequestTypes /\ page \in [Pages -> PageType] /\ p \in Pages /\ page[p] \in PageType
      /\ call \in [Calls -> CallType]
  BY SwapWorkerAssumption DEF OnceInv, RequestTypes
<1>2. new \in PageType /\ new.inbox = page[p].inbox
  BY <1>1 DEF PageType
<1>3. page' = [page EXCEPT ![p] = IF page[p].pinging THEN page[p]
                                  ELSE Posted(new, "PING", Ping)]
  BY DEF SendWithRetry
<1>4. call' = [call EXCEPT ![c] = [IdleCall EXCEPT !.stage = "ping", !.kind = kind]]
  BY DEF SendWithRetry
<1>5. /\ call' \in [Calls -> CallType]
      /\ \A d \in Calls : call'[d] = call[d] \/ Released(d)
  <2>1. [IdleCall EXCEPT !.stage = "ping", !.kind = kind] \in CallType
    BY IdleCallType DEF CallType
  <2>2. Released(c)
    BY <1>1, <1>4 DEF IdleCall, Released
  <2> QED BY <1>1, <1>4, <2>1, <2>2
<1> HIDE DEF p, new
<1>6. page'[p] \in {page[p], Posted(new, "PING", Ping)} /\ page' = [page EXCEPT ![p] = page'[p]]
  BY <1>1, <1>3
<1>7. Less(Posted(new, "PING", Ping), new) /\ Less(new, page[p]) /\ Less(page[p], page[p])
  BY <1>1, <1>2, PostedLess, LessSame
<1>8. Less(Posted(new, "PING", Ping), page[p])
  BY <1>1, <1>2, <1>7, LessTrans DEF Less
<1>9. Less(page'[p], page[p])
  BY <1>6, <1>7, <1>8
<1> QED BY <1>1, <1>5, <1>6, <1>9, PageStep

\* A read that joins another one posts nothing.
LEMMA ReadStep ==
  ASSUME OnceInv, NEW c \in Calls, Read(c)
  PROVE  OnceInv'
<1>1. RequestTypes /\ call[c].stage = "idle" /\ jobs' = jobs
  BY DEF OnceInv, Read, CanMake, worker
<1>2. CASE SendWithRetry(c, "read")
  BY <1>1, <1>2, SendStep DEF RequestKind
<1>3. CASE /\ call' = [call EXCEPT ![c] = [IdleCall EXCEPT !.stage = "joined", !.kind = "read"]]
           /\ page' = page
  <2>1. call \in [Calls -> CallType]
    BY <1>1 DEF RequestTypes
  <2>2. [IdleCall EXCEPT !.stage = "joined", !.kind = "read"] \in CallType
    BY IdleCallType DEF CallType, RequestKind
  <2>3. Released(c)
    BY <1>1, <1>3, <2>1 DEF IdleCall, Released
  <2>4. /\ call' \in [Calls -> CallType]
        /\ \A d \in Calls : call'[d] = call[d] \/ Released(d)
    BY <1>3, <2>1, <2>2, <2>3
  <2>5. PageOf[c] \in Pages /\ page[PageOf[c]] \in PageType
    BY <1>1, SwapWorkerAssumption DEF RequestTypes
  <2>6. page' = [page EXCEPT ![PageOf[c]] = page'[PageOf[c]]]
    BY <1>1, <1>3 DEF RequestTypes
  <2>7. Less(page'[PageOf[c]], page[PageOf[c]])
    BY <1>3, <2>5, LessSame
  <2> QED BY <1>1, <2>4, <2>5, <2>6, <2>7, PageStep
<1> QED BY <1>2, <1>3 DEF Read

\* A call is posted: its request is the last message of its page.
LEMMA PostStep ==
  ASSUME OnceInv, NEW c \in Calls, Post(c)
  PROVE  OnceInv'
<1> DEFINE p == PageOf[c]
           m == [kind |-> call[c].kind, for |-> c]
<1>1. /\ RequestTypes /\ page \in [Pages -> PageType] /\ p \in Pages /\ page[p] \in PageType
      /\ call \in [Calls -> CallType] /\ call[c] \in CallType /\ call[c].stage = "post"
      /\ jobs' = jobs
  BY SwapWorkerAssumption DEF OnceInv, RequestTypes, Post, worker
<1>2. m \in Message /\ m.for = c
  BY <1>1 DEF Message, CallType
<1>3. page[p].inbox \in Seq(Message)
  BY <1>1 DEF PageType
<1>4. Posted(page[p], call[c].kind, c) = [page[p] EXCEPT !.inbox = Append(page[p].inbox, m)]
  BY DEF Posted
<1> HIDE DEF p, m
<1>5. /\ page' = [page EXCEPT ![p] = [page[p] EXCEPT !.inbox = Append(page[p].inbox, m)]]
      /\ call' = [call EXCEPT ![c].stage = "sent"]
  BY <1>4 DEF Post, p
<1>6. /\ page' \in [Pages -> PageType] /\ page'[p].inbox = Append(page[p].inbox, m)
      /\ \A q \in Pages : q # p => page'[q] = page[q]
  <2>1. Append(page[p].inbox, m) \in Seq(Message)
    BY <1>2, <1>3
  <2>2. [page[p] EXCEPT !.inbox = Append(page[p].inbox, m)] \in PageType
    BY <1>1, <2>1 DEF PageType
  <2>3. [page[p] EXCEPT !.inbox = Append(page[p].inbox, m)].inbox = Append(page[p].inbox, m)
    BY <1>1 DEF PageType
  <2> QED BY <1>1, <1>5, <2>2, <2>3
<1>7. /\ call' \in [Calls -> CallType] /\ call'[c].stage = "sent" /\ call'[c].runs = call[c].runs
      /\ \A d \in Calls : d # c => call'[d] = call[d]
  BY <1>1, <1>5 DEF CallType
<1>8. RequestTypes'
  BY <1>1, <1>6, <1>7 DEF RequestTypes
<1>9. ASSUME NEW d \in Calls, d # c PROVE Once(d)'
  <2>1. ASSUME NEW q \in Pages PROVE Fewer(page'[q].inbox, page[q].inbox, d)
    <3>1. \A i \in DOMAIN page'[q].inbox : page'[q].inbox[i].for = d =>
            i + 0 \in DOMAIN page[q].inbox /\ page'[q].inbox[i] = page[q].inbox[i + 0]
      <4>1. CASE q = p
        <5>1. \A i \in DOMAIN Append(page[p].inbox, m) : Append(page[p].inbox, m)[i].for = d =>
                i + 0 \in DOMAIN page[p].inbox
                /\ Append(page[p].inbox, m)[i] = page[p].inbox[i + 0]
          BY <1>2, <1>3, <1>9
        <5> QED BY <1>6, <4>1, <5>1
      <4>2. CASE q # p
        <5>1. page'[q] = page[q] /\ page[q].inbox \in Seq(Message)
          BY <1>1, <1>6, <4>2 DEF PageType
        <5> QED BY <5>1
      <4> QED BY <4>1, <4>2
    <3>2. 0 \in Nat
      OBVIOUS
    <3> QED BY <3>1, <3>2 DEF Fewer
  <2>2. NoMore(d)
    BY <1>1, <2>1 DEF NoMore
  <2>3. Once(d)
    BY DEF OnceInv
  <2> QED BY <1>7, <1>8, <1>9, <2>2, <2>3, CallKept
<1>10. Once(c)'
  <2>1. Once(c)
    BY DEF OnceInv
  <2>2. /\ call[c].runs = 0 /\ \A j \in jobs : j.for # c
        /\ \A q \in Pages : \A i \in DOMAIN page[q].inbox : page[q].inbox[i].for # c
    BY <1>1, <2>1 DEF Once, Runs, JobHas, InboxHas, For
  <2>3. \A q \in Pages : \A i \in DOMAIN page'[q].inbox :
            page'[q].inbox[i].for = c => q = p /\ i = Len(page[p].inbox) + 1
    <3>1. ASSUME NEW i \in DOMAIN Append(page[p].inbox, m), Append(page[p].inbox, m)[i].for = c
          PROVE  i = Len(page[p].inbox) + 1
      BY <1>1, <1>3, <2>2, <3>1
    <3> QED BY <1>6, <2>2, <3>1
  <2>4. InboxHas(c)' /\ InboxHasOne(c)'
    BY <1>7, <2>2, <2>3 DEF InboxHas, InboxHasOne, For, p
  <2>5. JobHas(c)' /\ JobHasOne(c)' /\ Runs(c)'
    BY <1>1, <1>7, <2>2 DEF JobHas, JobHasOne, Runs
  <2> QED BY <2>4, <2>5 DEF Once
<1>11. \A d \in Calls : Once(d)'
  BY <1>9, <1>10
<1> QED BY <1>8, <1>11 DEF OnceInv

\* No pong came: the calls that wait for it wait for the initialisation.
LEMMA PingTimeoutStep ==
  ASSUME OnceInv, NEW p \in Pages, PingTimeout(p)
  PROVE  OnceInv'
<1> DEFINE new == [page[p] EXCEPT !.pinging = FALSE]
<1>1. RequestTypes /\ page \in [Pages -> PageType] /\ page[p] \in PageType
  BY DEF OnceInv, RequestTypes
<1>2. new \in PageType /\ new.inbox = page[p].inbox
  BY <1>1 DEF PageType
<1>3. /\ page' = [page EXCEPT ![p] = Reinitialized(Forgotten(new, Ping))]
      /\ call' = MovedOn(Waiting(p, "ping"), "reinit") /\ jobs' = jobs
  BY DEF PingTimeout, worker
<1> HIDE DEF new
<1>4. Less(new, page[p]) /\ Less(Forgotten(new, Ping), new)
  BY <1>1, <1>2, LessSame, ForgottenLess DEF Waiter
<1>5. Less(Reinitialized(Forgotten(new, Ping)), Forgotten(new, Ping))
  BY <1>4, ReinitializedLess DEF Less
<1>6. Less(Forgotten(new, Ping), page[p])
  BY <1>1, <1>2, <1>4, LessTrans DEF Less
<1>7. Less(Reinitialized(Forgotten(new, Ping)), page[p])
  BY <1>1, <1>4, <1>5, <1>6, LessTrans DEF Less
<1>8. page'[p] = Reinitialized(Forgotten(new, Ping)) /\ page' = [page EXCEPT ![p] = page'[p]]
  BY <1>1, <1>3
<1>9. /\ call' \in [Calls -> CallType]
      /\ \A c \in Calls : call'[c] = call[c] \/ Released(c)
  BY <1>1, <1>3, CallsMove
<1> QED BY <1>3, <1>7, <1>8, <1>9, PageStep

\* No answer to INIT_ARKADE_SWAPS came.
LEMMA SetupTimeoutStep ==
  ASSUME OnceInv, NEW p \in Pages, SetupTimeout(p)
  PROVE  OnceInv'
<1>1. /\ RequestTypes /\ page \in [Pages -> PageType] /\ page[p] \in PageType
      /\ SetupAnswered(p, Forgotten(page[p], Setup), "timeout") /\ jobs' = jobs
  BY DEF OnceInv, RequestTypes, SetupTimeout, worker
<1>2. Less(Forgotten(page[p], Setup), page[p])
  BY <1>1, ForgottenLess DEF Waiter
<1>3. Setup \notin Calls
  BY SwapWorkerAssumption
<1>4. Concludes(p, Forgotten(page[p], Setup), Setup, "timeout")
  BY <1>1, <1>2, <1>3, SetupConcludes DEF Less
<1>5. Less(page'[p], page[p])
  BY <1>1, <1>2, <1>4, LessTrans DEF Concludes, Less
<1> QED BY <1>1, <1>3, <1>4, <1>5, PageStep DEF Concludes

\* No answer to a call came in time, to one the worker was given or has yet to take.
LEMMA CallTimeoutStep ==
  ASSUME OnceInv, NEW c \in Calls, CallTimeout(c)
  PROVE  OnceInv'
<1> DEFINE p == PageOf[c]
           pg == Forgotten(page[p], c)
<1>1. /\ RequestTypes /\ p \in Pages /\ page[p] \in PageType
      /\ Once(c) /\ CallAnswered(c, pg, "timeout")
      /\ jobs' = (jobs \ Underway(c)) \cup Orphans(Underway(c))
  BY SwapWorkerAssumption DEF OnceInv, CallTimeout, RequestTypes
<1>2. Underway(c) \in SUBSET Job
  BY <1>1 DEF RequestTypes, Underway
<1>3. Orphans(Underway(c)) \subseteq Job /\ \A k \in Orphans(Underway(c)) : k.for = Nobody
  BY <1>2, OrphansForNobody
<1>4. jobs' \subseteq Job /\ \A j \in jobs' : j.for # c /\ (j.for \in Calls => j \in jobs)
  BY <1>1, <1>3, SwapWorkerAssumption DEF RequestTypes, Underway
<1>5. Less(pg, page[p]) /\ pg \in PageType
  BY <1>1, ForgottenLess DEF Waiter, Less
<1>6. \A i \in DOMAIN pg.inbox : pg.inbox[i].for # c
  <2>1. page[p].inbox \in Seq(Message)
    BY <1>1 DEF PageType
  <2>2. \A m \in Message : [m EXCEPT !.for = Nobody].for = Nobody
    BY DEF Message
  <2> QED BY <1>1, <2>1, <2>2, SwapWorkerAssumption DEF Forgotten, PageType
<1>7. \A q \in Pages \ {p} : \A i \in DOMAIN page[q].inbox : page[q].inbox[i].for # c
  BY <1>1 DEF Once, InboxHas, For
<1> HIDE DEF pg
<1> QED BY <1>1, <1>4, <1>5, <1>6, <1>7, RequestEnds

(* Taking a message. *)
Taken(p) == [page[p] EXCEPT !.inbox = Tail(@)]
Sender(p) == Head(page[p].inbox).for

\* The page whose first message was taken.
LEMMA TakenLess ==
  ASSUME RequestTypes, NEW p \in Pages, page[p].inbox # <<>>
  PROVE  /\ Taken(p) \in PageType /\ Less(Taken(p), page[p])
         /\ Taken(p).inbox = Tail(page[p].inbox)
         /\ page[p].inbox \in Seq(Message) /\ 1 \in DOMAIN page[p].inbox
         /\ Head(page[p].inbox) = page[p].inbox[1] /\ Head(page[p].inbox) \in Message
         /\ Sender(p) \in Waiter /\ Sender(p) = page[p].inbox[1].for
<1>1. page[p] \in PageType
  BY DEF RequestTypes
<1>2. page[p].inbox \in Seq(Message)
  BY <1>1 DEF PageType
<1>3. 1 \in DOMAIN page[p].inbox /\ Head(page[p].inbox) = page[p].inbox[1]
      /\ page[p].inbox[1] \in Message
  BY <1>2
<1>4. Tail(page[p].inbox) \in Seq(Message)
      /\ \A i \in DOMAIN Tail(page[p].inbox) :
           i + 1 \in DOMAIN page[p].inbox /\ Tail(page[p].inbox)[i] = page[p].inbox[i + 1]
  BY <1>2
<1>5. \A c \in Calls : Fewer(Tail(page[p].inbox), page[p].inbox, c)
  <2>1. 1 \in Nat
    OBVIOUS
  <2> QED BY <1>4, <2>1 DEF Fewer
<1>6. Taken(p) \in PageType /\ Taken(p).inbox = Tail(page[p].inbox)
  BY <1>1, <1>4 DEF Taken, PageType
<1>7. Less(Taken(p), page[p])
  BY <1>5, <1>6 DEF Less
<1>8. Sender(p) \in Waiter /\ Sender(p) = page[p].inbox[1].for
  BY <1>3 DEF Sender, Message, Waiter
<1> QED BY <1>2, <1>3, <1>6, <1>7, <1>8

\* A request that is taken has not run, and is all that is left of its call.
LEMMA OnlyMessage ==
  ASSUME RequestTypes, NEW p \in Pages, page[p].inbox # <<>>,
         NEW c \in Calls, Once(c), Sender(p) = c
  PROVE  /\ p = PageOf[c] /\ call[c].stage = "sent" /\ call[c].runs = 0
         /\ \A q \in Pages : q # p => \A i \in DOMAIN page[q].inbox : page[q].inbox[i].for # c
         /\ \A i \in DOMAIN Taken(p).inbox : Taken(p).inbox[i].for # c
         /\ \A j \in jobs : j.for # c
<1>1. /\ page[p].inbox \in Seq(Message) /\ 1 \in DOMAIN page[p].inbox
      /\ page[p].inbox[1].for = c /\ Taken(p).inbox = Tail(page[p].inbox)
  BY TakenLess
<1>2. /\ p = PageOf[c] /\ call[c].stage = "sent" /\ call[c].runs = 0
      /\ \A q \in Pages : q # p => \A i \in DOMAIN page[q].inbox : page[q].inbox[i].for # c
  BY <1>1 DEF Once, InboxHas, For
<1>3. ASSUME NEW i \in DOMAIN Tail(page[p].inbox) PROVE Tail(page[p].inbox)[i].for # c
  <2>1. /\ i \in Nat /\ i + 1 \in DOMAIN page[p].inbox /\ i + 1 # 1
        /\ Tail(page[p].inbox)[i] = page[p].inbox[i + 1]
    BY <1>1
  <2> QED BY <1>1, <2>1 DEF Once, InboxHasOne, For
<1>4. \A j \in jobs : j.for # c
  BY <1>2 DEF Once, JobHas
<1> QED BY <1>1, <1>2, <1>3, <1>4

\* A message that is answered at once.
LEMMA MessageAnswered ==
  ASSUME OnceInv, NEW p \in Pages, page[p].inbox # <<>>, NEW outcome,
         Answered(p, Taken(p), Sender(p), outcome), jobs' = jobs
  PROVE  OnceInv'
<1> DEFINE w == Sender(p)
<1>1. RequestTypes /\ \A c \in Calls : Once(c)
  BY DEF OnceInv
<1>2. Taken(p) \in PageType /\ Less(Taken(p), page[p]) /\ w \in Waiter
  BY <1>1, TakenLess
<1>3. w \in Calls => PageOf[w] = p
  BY <1>1, OnlyMessage
<1>4. Concludes(p, Taken(p), w, outcome)
  BY <1>1, <1>2, <1>3, AnswerConcludes
<1> HIDE DEF w
<1>5. /\ page' \in [Pages -> PageType]
      /\ \A q \in Pages, c \in Calls : Fewer(page'[q].inbox, page[q].inbox, c)
  BY <1>1, <1>2, <1>4, PagesFewer DEF Concludes
<1>6. RequestTypes'
  BY <1>1, <1>4, <1>5 DEF RequestTypes, Concludes
<1>7. ASSUME NEW c \in Calls, c # w PROVE Settles(c)
  <2>1. NoMore(c)
    BY <1>5 DEF NoMore
  <2>2. call'[c] = call[c] \/ Released(c)
    BY <1>4, <1>7 DEF Concludes
  <2> QED BY <2>1, <2>2 DEF Settles
<1>8. ASSUME NEW c \in Calls, c = w PROVE Settles(c)
  <2>1. /\ call[c].runs = 0 /\ \A j \in jobs' : j.for # c
        /\ \A q \in Pages : q # p => \A i \in DOMAIN page[q].inbox : page[q].inbox[i].for # c
        /\ \A i \in DOMAIN Taken(p).inbox : Taken(p).inbox[i].for # c
    BY <1>1, <1>8, OnlyMessage DEF w
  <2>2. \A q \in Pages : q # p => page'[q] = page[q]
    BY <1>1, <1>4 DEF Concludes, RequestTypes
  <2>3. \A i \in DOMAIN page'[p].inbox : page'[p].inbox[i].for # c
    BY <1>4, <2>1 DEF Concludes, Less, Fewer
  <2>4. call'[c].stage # "sent" /\ call'[c].runs = 0
    BY <1>4, <1>8, <2>1 DEF Concludes
  <2> QED BY <2>1, <2>2, <2>3, <2>4 DEF Settles, Nowhere
<1>9. \A c \in Calls : Settles(c)
  BY <1>7, <1>8
<1> QED BY <1>6, <1>9, OnceKept

\* A request the handler awaits: it has run, and its job is all that is left of it.
LEMMA RequestAwaits ==
  ASSUME OnceInv, BusTypes, NEW p \in Pages, page[p].inbox # <<>>,
         Head(page[p].inbox).kind \in RequestKind, handler # NoService,
         NEW stage \in {"load", "work"}, Awaits(p, Taken(p), Sender(p), stage)
  PROVE  OnceInv'
<1> DEFINE w == Sender(p)
           job == [for |-> w, service |-> handler, stage |-> stage]
<1>1. RequestTypes /\ \A c \in Calls : Once(c)
  BY DEF OnceInv
<1>2. /\ Taken(p) \in PageType /\ Less(Taken(p), page[p])
      /\ page \in [Pages -> PageType] /\ call \in [Calls -> CallType] /\ jobs \subseteq Job
  BY <1>1, TakenLess DEF RequestTypes
<1>3. w \in Calls \cup {Nobody}
  BY <1>1, TakenLess DEF Sender, Message, RequestKind
<1>4. job \in Job /\ job.for = w
  BY <1>3 DEF BusTypes, Job
<1>5. jobs' = jobs \cup (IF w = Nobody THEN Orphans({job}) ELSE {job})
  BY DEF Awaits
<1>6. page' = [page EXCEPT ![p] = Taken(p)]
  BY DEF Awaits
<1>7. call' = IF w = Nobody THEN call ELSE [call EXCEPT ![w].runs = @ + 1]
  BY DEF Awaits
<1> HIDE DEF w, job
<1>8. page'[p] = Taken(p) /\ page' = [page EXCEPT ![p] = page'[p]]
      /\ \A q \in Pages : q # p => page'[q] = page[q]
  BY <1>2, <1>6
<1>9. Less(page'[p], Taken(p))
  BY <1>2, <1>8, LessSame
<1>10. /\ page' \in [Pages -> PageType]
       /\ \A q \in Pages, c \in Calls : Fewer(page'[q].inbox, page[q].inbox, c)
  BY <1>1, <1>2, <1>8, <1>9, PagesFewer
<1>11. Orphans({job}) \subseteq Job /\ \A k \in Orphans({job}) : k.for = Nobody
  BY <1>4, OrphansForNobody
<1>12. /\ jobs' \subseteq Job
       /\ \A k \in jobs' : k.for \in Calls => k \in jobs \/ (k = job /\ k.for = w)
  BY <1>2, <1>4, <1>5, <1>11, SwapWorkerAssumption
<1>13. CASE w = Nobody
  <2>1. call' = call /\ \A c \in Calls : c # w
    BY <1>7, <1>13, SwapWorkerAssumption
  <2>2. RequestTypes'
    BY <1>2, <1>10, <1>12, <2>1 DEF RequestTypes
  <2>3. \A c \in Calls : Settles(c)
    BY <1>10, <1>12, <2>1 DEF Settles, NoMore
  <2> QED BY <2>2, <2>3, OnceKept
<1>14. CASE w # Nobody
  <2>1. w \in Calls /\ call[w] \in CallType
    BY <1>2, <1>3, <1>14
  <2>2. /\ call'[w] = [call[w] EXCEPT !.runs = @ + 1]
        /\ call' = [call EXCEPT ![w] = call'[w]]
        /\ \A c \in Calls : c # w => call'[c] = call[c]
    BY <1>2, <1>7, <1>14, <2>1
  <2>3. call'[w] \in CallType /\ call'[w].stage = call[w].stage
        /\ call'[w].runs = call[w].runs + 1
    BY <2>1, <2>2 DEF CallType
  <2>4. call' \in [Calls -> CallType]
    BY <1>2, <2>1, <2>2, <2>3
  <2>5. RequestTypes'
    BY <1>10, <1>12, <2>4 DEF RequestTypes
  <2>6. ASSUME NEW c \in Calls, c # w PROVE Once(c)'
    <3>1. NoMore(c)
      BY <1>10, <1>12, <2>6 DEF NoMore
    <3> QED BY <1>1, <2>2, <2>5, <2>6, <3>1, CallKept
  <2>7. ASSUME NEW c \in Calls, c = w PROVE Once(c)'
    <3>1. /\ call[c].stage = "sent" /\ call[c].runs = 0 /\ \A j \in jobs : j.for # c
          /\ \A q \in Pages : q # p => \A i \in DOMAIN page[q].inbox : page[q].inbox[i].for # c
          /\ \A i \in DOMAIN Taken(p).inbox : Taken(p).inbox[i].for # c
      BY <1>1, <2>7, OnlyMessage DEF w
    <3>2. \A q \in Pages : \A i \in DOMAIN page'[q].inbox : page'[q].inbox[i].for # c
      BY <1>8, <3>1
    <3>3. InboxHas(c)' /\ InboxHasOne(c)'
      BY <3>2 DEF InboxHas, InboxHasOne, For
    <3>4. \A k, l \in jobs' : k.for = c /\ l.for = c => k = l
      BY <1>12, <3>1
    <3>5. call'[c].stage = "sent" /\ call'[c].runs = 1
      BY <2>1, <2>3, <2>7, <3>1
    <3>6. JobHas(c)' /\ JobHasOne(c)' /\ Runs(c)'
      BY <3>4, <3>5 DEF JobHas, JobHasOne, Runs
    <3> QED BY <3>3, <3>6 DEF Once
  <2>8. \A c \in Calls : Once(c)'
    BY <2>6, <2>7
  <2> QED BY <2>5, <2>8 DEF OnceInv
<1> QED BY <1>13, <1>14

\* The worker takes a message.
LEMMA TakeStep ==
  ASSUME OnceInv, BusTypes, NEW p \in Pages, Take(p)
  PROVE  OnceInv'
<1> DEFINE msg == Head(page[p].inbox)
<1>1. page[p].inbox # <<>> /\ RequestTypes
  BY DEF Take, OnceInv
<1>2. msg.kind \in RequestKind \cup {"PING", "INIT"}
  BY <1>1, TakenLess DEF Message
<1>3. \A outcome : Answered(p, Taken(p), Sender(p), outcome) /\ jobs' = jobs => OnceInv'
  BY <1>1, MessageAnswered
<1>4. CASE msg.kind = "PING"
  <2>1. ~(msg.kind # "PING") /\ msg.kind \notin {"INIT", "read", "act", "start", "stop"}
    BY <1>4
  <2>2. msg.kind \notin RequestKind
    BY <2>1 DEF RequestKind
  <2>3. Answered(p, Taken(p), Sender(p), "ok") /\ jobs' = jobs
    BY <1>4, <2>1, <2>2 DEF Take, Taken, Sender, worker
  <2> QED BY <1>3, <2>3
<1>5. CASE msg.kind # "PING" /\ ~ready
  <2>1. Answered(p, Taken(p), Sender(p), "notInitialized") /\ jobs' = jobs
    BY <1>5 DEF Take, Taken, Sender, worker
  <2> QED BY <1>3, <2>1
<1>6. CASE ready /\ msg.kind = "INIT"
  <2>1. HandleInit(p, Taken(p), Sender(p))
    BY <1>6 DEF Take, Taken, Sender, RequestKind
  <2>2. jobs' = jobs /\ \E outcome : Answered(p, Taken(p), Sender(p), outcome)
    BY <2>1 DEF HandleInit
  <2> QED BY <1>3, <2>2
<1>7. CASE ready /\ msg.kind \in RequestKind /\ handler = NoService
  <2>1. Answered(p, Taken(p), Sender(p), "noService") /\ jobs' = jobs
    BY <1>7 DEF Take, Taken, Sender, RequestKind, worker
  <2> QED BY <1>3, <2>1
<1>8. CASE ready /\ msg.kind = "stop" /\ handler # NoService
  <2>1. HandleStop(p, Taken(p), Sender(p))
    BY <1>8 DEF Take, Taken, Sender, RequestKind
  <2> QED BY <1>3, <2>1 DEF HandleStop
<1>9. CASE ready /\ msg.kind \in {"read", "act", "start"} /\ handler # NoService
  <2>1. \/ Awaits(p, Taken(p), Sender(p), "work")
        \/ Awaits(p, Taken(p), Sender(p), "load")
    BY <1>9 DEF Take, Taken, Sender, RequestKind, HandleRead, HandleAct, HandleStart
  <2>2. msg.kind \in RequestKind
    BY <1>9 DEF RequestKind
  <2> QED BY <1>1, <1>9, <2>1, <2>2, RequestAwaits
<1> QED BY <1>2, <1>4, <1>5, <1>6, <1>7, <1>8, <1>9 DEF RequestKind

-----------------------------------------------------------------------------
(* The worker and its services. *)

\* What the page does, and what the worker keeps of a request, are no matter to
\* the services.
LEMMA LoadsKept ==
  ASSUME StraysMarked, service' = service, handler' = handler,
         \A j \in jobs' : j.stage = "load" =>
             \/ j.service = handler
             \/ \E k \in jobs : k.stage = "load" /\ k.service = j.service
  PROVE  StraysMarked'
BY DEF StraysMarked, MayRun, Starting

\* Orphans still load.
LEMMA OrphansLoad ==
  ASSUME NEW js \in SUBSET Job, NEW k \in Orphans(js)
  PROVE  \E j \in js : j.stage = "load" /\ k.service = j.service
BY DEF Orphans, Job

\* A message changes the services or the jobs, and the handler with them.
LEMMA TakeServices ==
  ASSUME RequestTypes, BusTypes, StraysMarked, NEW p \in Pages, Take(p)
  PROVE  BusTypes' /\ StraysMarked'
<1> DEFINE msg == Head(page[p].inbox)
<1>1. page[p].inbox # <<>>
  BY DEF Take
<1>2. msg.kind \in {"PING", "INIT", "read", "act", "start", "stop"}
  BY <1>1, TakenLess DEF Message, RequestKind
<1>3. /\ ready \in BOOLEAN /\ service \in [Services -> ServiceType]
      /\ handler \in Services \cup {NoService}
  BY DEF BusTypes
<1>4. CASE UNCHANGED <<ready, building, handler, service, jobs, count>>
  BY <1>4 DEF BusTypes, StraysMarked, MayRun, Starting
<1>5. CASE HandleInit(p, Taken(p), Sender(p))
  <2>1. CASE UNCHANGED <<handler, service>>
    BY <1>5, <2>1, <1>4 DEF HandleInit
  <2>2. CASE \E s \in Services : Free(s) /\ handler' = s /\ service' = Replaced(s)
    <3>1. PICK s \in Services : Free(s) /\ handler' = s /\ service' = Replaced(s)
      BY <2>2
    <3>2. UNCHANGED <<ready, building, jobs, count>>
      BY <1>5 DEF HandleInit
    <3>3. ASSUME NEW t \in Services
          PROVE  service'[t] \in ServiceType /\ (MayRun(t)' => t = handler' \/ service'[t].left)
      <4>1. service[t] \in ServiceType
        BY <1>3
      <4>2. CASE t = s
        <5>1. service'[t] = [Unused EXCEPT !.loading = TRUE]
          BY <3>1, <4>2 DEF Replaced
        <5> QED BY <3>1, <4>2, <5>1 DEF Unused, ServiceType
      <4>3. CASE t # s /\ t = handler
        <5>1. service'[t] = [service[t] EXCEPT !.left = TRUE]
          BY <3>1, <4>3 DEF Replaced
        <5> QED BY <4>1, <5>1 DEF ServiceType
      <4>4. CASE t # s /\ t # handler
        <5>1. service'[t] = service[t]
          BY <3>1, <4>4 DEF Replaced
        <5> QED BY <3>2, <4>1, <4>4, <5>1 DEF StraysMarked, MayRun, Starting
      <4> QED BY <4>2, <4>3, <4>4
    <3>4. service' = [t \in Services |-> service'[t]]
      BY <3>1 DEF Replaced
    <3>5. service' \in [Services -> ServiceType]
      BY <3>3, <3>4
    <3> QED BY <3>1, <3>2, <3>3, <3>5 DEF BusTypes, StraysMarked
  <2> QED BY <1>5, <2>1, <2>2 DEF HandleInit
<1>6. CASE handler # NoService /\ HandleStop(p, Taken(p), Sender(p))
  <2>1. handler \in Services /\ service[handler] \in ServiceType
    BY <1>3, <1>6
  <2>2. /\ service' = Stopped(handler)
        /\ UNCHANGED <<ready, building, handler, jobs, count>>
    BY <1>6 DEF HandleStop
  <2>3. /\ \A t \in Services : t # handler => service'[t] = service[t]
        /\ service' \in [Services -> ServiceType]
    BY <1>3, <2>1, <2>2 DEF Stopped, ServiceType, Starting
  <2> QED BY <2>2, <2>3 DEF BusTypes, StraysMarked, MayRun, Starting
<1>7. CASE /\ handler # NoService
           /\ \E stage : Awaits(p, Taken(p), Sender(p), stage)
  <2>1. PICK stage : Awaits(p, Taken(p), Sender(p), stage)
    BY <1>7
  <2> DEFINE job == [for |-> Sender(p), service |-> handler, stage |-> stage]
  <2>2. /\ jobs' \subseteq jobs \cup {job} \cup Orphans({job})
        /\ UNCHANGED <<ready, building, handler, service, count>>
    BY <2>1 DEF Awaits
  <2>3. \A k \in Orphans({job}) : k.service = handler
    BY DEF Orphans
  <2> QED BY <2>2, <2>3, LoadsKept DEF BusTypes
<1>8. CASE ~(msg.kind = "PING" \/ (msg.kind # "PING" /\ ~ready)
             \/ (ready /\ msg.kind \in RequestKind /\ handler = NoService))
  <2>1. CASE msg.kind = "INIT"
    BY <1>2, <1>5, <1>8, <2>1 DEF Take, Taken, Sender, RequestKind
  <2>2. CASE msg.kind = "stop"
    BY <1>2, <1>6, <1>8, <2>2 DEF Take, Taken, Sender, RequestKind
  <2>3. CASE msg.kind \in {"read", "act", "start"}
    <3>1. handler # NoService
      BY <1>8, <2>3 DEF RequestKind
    <3> QED BY <1>2, <1>7, <1>8, <2>3, <3>1
          DEF Take, Taken, Sender, RequestKind, HandleRead, HandleAct, HandleStart
  <2> QED BY <1>2, <1>8, <2>1, <2>2, <2>3
<1>9. CASE msg.kind = "PING"
  <2>1. ~(msg.kind # "PING") /\ msg.kind \notin {"INIT", "read", "act", "start", "stop"}
    BY <1>9
  <2>2. msg.kind \notin RequestKind
    BY <2>1 DEF RequestKind
  <2>3. UNCHANGED <<worker, count>>
    BY <1>9, <2>1, <2>2 DEF Take
  <2> QED BY <1>4, <2>3 DEF worker
<1>10. CASE \/ msg.kind # "PING" /\ ~ready
            \/ ready /\ msg.kind \in RequestKind /\ handler = NoService
  <2>1. UNCHANGED <<worker, count>>
    BY <1>10 DEF Take, RequestKind
  <2> QED BY <1>4, <2>1 DEF worker
<1> QED BY <1>8, <1>9, <1>10

\* The worker is killed, or the bus is initialised.
LEMMA BusServices ==
  ASSUME BusTypes, StraysMarked, BusInit \/ BusReady \/ BusFails \/ Kill
  PROVE  BusTypes' /\ StraysMarked'
<1>1. /\ service \in [Services -> ServiceType] /\ handler \in Services \cup {NoService}
      /\ count \in CountType
  BY DEF BusTypes
<1>2. MaxTroubles \in Nat /\ MaxInits \in Nat /\ NoService \notin Services
  BY SwapWorkerAssumption
<1>3. CASE BusInit
  <2>1. /\ jobs' = jobs /\ building' = TRUE /\ ready' = FALSE
        /\ count.inits + count.slow < MaxInits
        /\ count' = [count EXCEPT !.inits = @ + 1]
    BY <1>3 DEF BusInit
  <2>2. count' \in CountType
    BY <1>1, <1>2, <2>1 DEF CountType
  <2>3. CASE UNCHANGED <<service, handler>>
    BY <2>1, <2>2, <2>3 DEF BusTypes, StraysMarked, MayRun, Starting
  <2>4. CASE handler = NoService /\ service' = service /\ handler' = NoService
    BY <2>1, <2>2, <2>4 DEF BusTypes, StraysMarked, MayRun, Starting
  <2>5. CASE handler # NoService /\ service' = Stopped(handler) /\ handler' = NoService
    <3>1. handler \in Services /\ service[handler] \in ServiceType
      BY <1>1, <2>5
    <3>2. /\ service' \in [Services -> ServiceType]
          /\ \A t \in Services : t # handler => service'[t] = service[t]
          /\ service'[handler].running = FALSE
          /\ service'[handler].loading = service[handler].loading
          /\ service'[handler].left = (service[handler].left \/ Starting(handler))
      BY <1>1, <2>5, <3>1 DEF Stopped, ServiceType, Starting
    <3>3. MayRun(handler) \/ ~MayRun(handler)
      OBVIOUS
    <3>4. ASSUME NEW t \in Services, MayRun(t)' PROVE service'[t].left
      <4>1. CASE t = handler
        BY <2>1, <3>2, <3>4, <4>1 DEF MayRun, Starting
      <4>2. CASE t # handler
        BY <2>1, <3>2, <3>4, <4>2 DEF MayRun, Starting, StraysMarked
      <4> QED BY <4>1, <4>2
    <3> QED BY <2>1, <2>2, <2>5, <3>2, <3>4 DEF BusTypes, StraysMarked
  <2> QED BY <1>3, <2>3, <2>4, <2>5 DEF BusInit, StopHandler
<1>4. CASE BusReady \/ BusFails
  BY <1>4 DEF BusReady, BusFails, BusTypes, StraysMarked, MayRun, Starting
<1>5. CASE Kill
  <2>1. count' \in CountType
    BY <1>1, <1>2, <1>5 DEF Kill, CountType
  <2>2. Unused \in ServiceType /\ ~Unused.running /\ ~Unused.loading
    BY DEF Unused, ServiceType
  <2> QED BY <1>5, <2>1, <2>2 DEF Kill, BusTypes, StraysMarked, MayRun, Starting
<1> QED BY <1>3, <1>4, <1>5

\* A service that loads its swaps begins to run.
LEMMA LoadedServices ==
  ASSUME RequestTypes, BusTypes, StraysMarked,
         \/ \E j \in jobs : StartLoaded(j) \/ JobDone(j) \/ BusTimeout(j)
         \/ \E s \in Services : Autostarted(s)
  PROVE  BusTypes' /\ StraysMarked'
<1>1. service \in [Services -> ServiceType] /\ jobs \subseteq Job
  BY DEF BusTypes, RequestTypes
<1>2. ASSUME NEW j \in jobs, StartLoaded(j) PROVE BusTypes' /\ StraysMarked'
  <2>1. j.service \in Services /\ service[j.service] \in ServiceType
    BY <1>1 DEF Job
  <2>2. /\ service' \in [Services -> ServiceType]
        /\ \A t \in Services : /\ service'[t].left = service[t].left
                               /\ service'[t].loading = service[t].loading
                               /\ t # j.service => service'[t].running = service[t].running
    BY <1>1, <1>2, <2>1 DEF StartLoaded, ServiceType
  <2>3. /\ \A k \in jobs' : k.stage = "load" => k \in jobs
        /\ UNCHANGED <<ready, building, handler, count>>
    BY <1>1, <1>2 DEF StartLoaded, Job
  <2>4. Starting(j.service)
    BY <1>2 DEF StartLoaded, Starting
  <2>5. \A t \in Services : MayRun(t)' => MayRun(t)
    BY <2>2, <2>3, <2>4 DEF MayRun, Starting
  <2> QED BY <2>2, <2>3, <2>5 DEF BusTypes, StraysMarked
<1>3. ASSUME NEW j \in jobs, JobDone(j) \/ BusTimeout(j) PROVE BusTypes' /\ StraysMarked'
  <2>1. /\ jobs' \subseteq jobs \cup Orphans({j})
        /\ UNCHANGED <<ready, building, handler, service, count>>
    BY <1>3 DEF JobDone, BusTimeout
  <2>2. \A k \in Orphans({j}) : j.stage = "load" /\ k.service = j.service
    BY <1>1, OrphansLoad
  <2> QED BY <2>1, <2>2, LoadsKept DEF BusTypes
<1>4. ASSUME NEW s \in Services, Autostarted(s) PROVE BusTypes' /\ StraysMarked'
  <2>1. /\ service' \in [Services -> ServiceType]
        /\ \A t \in Services : service'[t].left = service[t].left
        /\ \A t \in Services : t # s => service'[t] = service[t]
        /\ service[s].loading
        /\ UNCHANGED <<ready, building, handler, jobs, count>>
    BY <1>1, <1>4 DEF Autostarted, ServiceType
  <2>2. \A t \in Services : MayRun(t)' => MayRun(t)
    BY <2>1 DEF MayRun, Starting
  <2> QED BY <2>1, <2>2 DEF BusTypes, StraysMarked
<1> QED BY <1>2, <1>3, <1>4

\* A page does nothing to the services, but a slow answer is counted.
LEMMA PageServices ==
  ASSUME RequestTypes, BusTypes, StraysMarked,
         \/ \E p \in Pages : Create(p) \/ PingTimeout(p) \/ SetupTimeout(p)
         \/ \E c \in Calls : Read(c) \/ Act(c) \/ Control(c, "start") \/ Control(c, "stop")
         \/ \E c \in Calls : Post(c) \/ CallTimeout(c)
  PROVE  BusTypes' /\ StraysMarked'
<1>1. ASSUME UNCHANGED worker,
             \/ count' = count
             \/ count' = [count EXCEPT !.slow = @ + 1] /\ MayBeSlow
      PROVE  BusTypes' /\ StraysMarked'
  <2>1. count \in CountType /\ MaxTroubles \in Nat /\ MaxInits \in Nat
    BY SwapWorkerAssumption DEF BusTypes
  <2>2. count' \in CountType
    BY <1>1, <2>1 DEF CountType, MayBeSlow
  <2> QED BY <1>1, <2>2 DEF BusTypes, StraysMarked, MayRun, Starting, worker
<1>2. ASSUME NEW c \in Calls, CallTimeout(c) PROVE BusTypes' /\ StraysMarked'
  <2>1. /\ jobs' = (jobs \ Underway(c)) \cup Orphans(Underway(c))
        /\ UNCHANGED <<ready, building, handler, service>>
        /\ \/ count' = count
           \/ count' = [count EXCEPT !.slow = @ + 1] /\ MayBeSlow
    BY <1>2 DEF CallTimeout
  <2>2. Underway(c) \in SUBSET Job /\ Underway(c) \subseteq jobs
    BY DEF Underway, RequestTypes
  <2>3. \A k \in Orphans(Underway(c)) : \E j \in jobs : j.stage = "load" /\ j.service = k.service
    BY <2>2, OrphansLoad
  <2>4. count \in CountType /\ MaxTroubles \in Nat /\ MaxInits \in Nat
    BY SwapWorkerAssumption DEF BusTypes
  <2>5. count' \in CountType
    BY <2>1, <2>4 DEF CountType, MayBeSlow
  <2> QED BY <2>1, <2>3, <2>5, LoadsKept DEF BusTypes
<1>3. ASSUME NEW p \in Pages, Create(p) \/ PingTimeout(p) \/ SetupTimeout(p)
      PROVE  BusTypes' /\ StraysMarked'
  <2>1. /\ UNCHANGED worker
        /\ \/ count' = count
           \/ count' = [count EXCEPT !.slow = @ + 1] /\ MayBeSlow
    <3>1. CASE Create(p)
      BY <3>1, Zenon DEF Create
    <3>2. CASE PingTimeout(p)
      BY <3>2 DEF PingTimeout
    <3>3. CASE SetupTimeout(p)
      BY <3>3 DEF SetupTimeout
    <3> QED BY <1>3, <3>1, <3>2, <3>3
  <2> QED BY <1>1, <2>1
<1>4. ASSUME NEW c \in Calls,
             Read(c) \/ Act(c) \/ Control(c, "start") \/ Control(c, "stop") \/ Post(c)
      PROVE  BusTypes' /\ StraysMarked'
  <2>1. UNCHANGED <<worker, count>>
    BY <1>4 DEF Read, Act, Control, Post
  <2> QED BY <1>1, <2>1
<1> QED BY <1>2, <1>3, <1>4

-----------------------------------------------------------------------------

\* Nothing has been sent and nothing runs.
LEMMA SwapWorkerInit == WorkerInit => SwapWorkerInv
<1> SUFFICES ASSUME WorkerInit PROVE SwapWorkerInv
  OBVIOUS
<1>1. NewPage \in PageType /\ NewPage.inbox = <<>>
  BY DEF NewPage, PageType
<1>2. IdleCall \in CallType /\ IdleCall.stage = "idle" /\ IdleCall.runs = 0
  BY IdleCallType DEF IdleCall
<1>3. Unused \in ServiceType /\ ~Unused.running /\ ~Unused.loading
  BY DEF Unused, ServiceType
<1>4. RequestTypes
  BY <1>1, <1>2 DEF WorkerInit, RequestTypes
<1>5. \A c \in Calls : Once(c)
  BY <1>1, <1>2 DEF WorkerInit, Once, InboxHas, InboxHasOne, JobHas, JobHasOne, Runs, For
<1>6. BusTypes
  <2>1. count = [kills |-> 0, inits |-> 0, slow |-> 0] /\ MaxTroubles \in Nat /\ MaxInits \in Nat
    BY SwapWorkerAssumption DEF WorkerInit
  <2>2. count \in CountType
    BY <2>1 DEF CountType
  <2> QED BY <1>3, <2>2 DEF WorkerInit, BusTypes
<1>7. StraysMarked
  BY <1>3 DEF WorkerInit, StraysMarked, MayRun, Starting
<1> QED BY <1>4, <1>5, <1>6, <1>7 DEF SwapWorkerInv, OnceInv

\* Every step keeps a call's request in one place.
LEMMA OnceStep ==
  ASSUME OnceInv, BusTypes, WorkerNext
  PROVE  OnceInv'
<1>1. jobs \subseteq Job
  BY DEF OnceInv, RequestTypes
<1>2. ASSUME NEW p \in Pages, Create(p) \/ PingTimeout(p) \/ SetupTimeout(p) \/ Take(p)
      PROVE  OnceInv'
  BY <1>2, CreateStep, PingTimeoutStep, SetupTimeoutStep, TakeStep
<1>3. ASSUME NEW c \in Calls, Read(c) \/ Post(c) \/ CallTimeout(c) PROVE OnceInv'
  BY <1>3, ReadStep, PostStep, CallTimeoutStep
<1>4. ASSUME NEW c \in Calls, Act(c) \/ Control(c, "start") \/ Control(c, "stop")
      PROVE  OnceInv'
  <2>1. PICK kind \in RequestKind :
          call[c].stage = "idle" /\ SendWithRetry(c, kind) /\ jobs' = jobs
    BY <1>4 DEF Act, Control, CanMake, RequestKind, worker
  <2> QED BY <2>1, SendStep
<1>5. ASSUME NEW j \in jobs, StartLoaded(j) PROVE OnceInv'
  <2> DEFINE k == [j EXCEPT !.stage = "connect"]
  <2>1. k \in Job /\ k.for = j.for
    BY <1>1 DEF Job
  <2>2. jobs' = (jobs \ {j}) \cup {k} /\ page' = page /\ call' = call
    BY <1>5 DEF StartLoaded
  <2> HIDE DEF k
  <2> QED BY <2>1, <2>2, JobGoesOn
<1>6. ASSUME NEW j \in jobs, JobDone(j) PROVE OnceInv'
  <2>1. {} \in SUBSET {j} /\ jobs' = (jobs \ {j}) \cup Orphans({})
    BY <1>6 DEF JobDone, Orphans
  <2> QED BY <1>6, <2>1, JobEnds DEF JobDone
<1>7. ASSUME NEW j \in jobs, BusTimeout(j) PROVE OnceInv'
  <2>1. {j} \in SUBSET {j} /\ jobs' = (jobs \ {j}) \cup Orphans({j})
    BY <1>7 DEF BusTimeout
  <2> QED BY <1>7, <2>1, JobEnds DEF BusTimeout
<1>8. ASSUME \/ \E s \in Services : Autostarted(s)
             \/ BusInit \/ BusReady \/ BusFails \/ Kill
      PROVE  OnceInv'
  <2>1. page' = page /\ call' = call /\ jobs' \subseteq jobs
    BY <1>8 DEF Autostarted, BusInit, BusReady, BusFails, Kill
  <2> QED BY <1>1, <2>1, WorkerStep
<1> QED BY <1>2, <1>3, <1>4, <1>5, <1>6, <1>7, <1>8 DEF WorkerNext

\* The invariant is inductive.
LEMMA SwapWorkerStep == SwapWorkerInv /\ [WorkerNext]_workerVars => SwapWorkerInv'
<1> SUFFICES ASSUME SwapWorkerInv, [WorkerNext]_workerVars PROVE SwapWorkerInv'
  OBVIOUS
<1>1. OnceInv /\ RequestTypes /\ BusTypes /\ StraysMarked
  BY DEF SwapWorkerInv, OnceInv
<1>2. CASE WorkerNext
  <2>1. OnceInv'
    BY <1>1, <1>2, OnceStep
  <2>2. BusTypes' /\ StraysMarked'
    <3>1. CASE \E p \in Pages : Take(p)
      BY <1>1, <3>1, TakeServices
    <3>2. CASE BusInit \/ BusReady \/ BusFails \/ Kill
      BY <1>1, <3>2, BusServices
    <3>3. CASE \/ \E j \in jobs : StartLoaded(j) \/ JobDone(j) \/ BusTimeout(j)
               \/ \E s \in Services : Autostarted(s)
      BY <1>1, <3>3, LoadedServices
    <3>4. CASE \/ \E p \in Pages : Create(p) \/ PingTimeout(p) \/ SetupTimeout(p)
               \/ \E c \in Calls : Read(c) \/ Act(c) \/ Control(c, "start") \/ Control(c, "stop")
               \/ \E c \in Calls : Post(c) \/ CallTimeout(c)
      BY <1>1, <3>4, PageServices
    <3> QED BY <1>2, <3>1, <3>2, <3>3, <3>4 DEF WorkerNext
  <2> QED BY <2>1, <2>2 DEF SwapWorkerInv
<1>3. CASE UNCHANGED workerVars
  <2>1. UNCHANGED <<page, call, ready, building, handler, service, jobs, count>>
    BY <1>3 DEF workerVars, worker
  <2>2. OnceInv'
    BY <1>1, <2>1 DEF OnceInv, RequestTypes, Once, InboxHas, InboxHasOne, JobHas, JobHasOne,
                      Runs, For
  <2>3. BusTypes' /\ StraysMarked'
    BY <1>1, <2>1 DEF BusTypes, StraysMarked, MayRun, Starting
  <2> QED BY <2>2, <2>3 DEF SwapWorkerInv
<1> QED BY <1>2, <1>3

\* What the worker and its pages hold is always of its type.
THEOREM SwapWorkerTypes == WorkerSpec => []WorkerTypeOK
<1>1. SwapWorkerInv => WorkerTypeOK
  <2> SUFFICES ASSUME SwapWorkerInv PROVE WorkerTypeOK
    OBVIOUS
  <2>1. RequestTypes /\ BusTypes
    BY DEF SwapWorkerInv, OnceInv
  <2>2. Message \subseteq [kind : RequestKind \cup {"PING", "INIT"}, for : Waiter]
    BY DEF Message, Waiter
  <2>3. ASSUME NEW s \in Seq(Message)
        PROVE  s \in Seq([kind : RequestKind \cup {"PING", "INIT"}, for : Waiter])
    <3> DEFINE T == [kind : RequestKind \cup {"PING", "INIT"}, for : Waiter]
    <3>1. \A i \in 1 .. Len(s) : s[i] \in Message
      OBVIOUS
    <3>2. \A i \in 1 .. Len(s) : s[i] \in T
      BY <2>2, <3>1
    <3> HIDE DEF T
    <3>3. s = [i \in 1 .. Len(s) |-> s[i]] /\ Len(s) \in Nat
      OBVIOUS
    <3>4. s \in Seq(T)
      BY <3>2, <3>3
    <3> QED BY <3>4 DEF T
  <2>4. ASSUME NEW p \in Pages
        PROVE  /\ page[p].open \in {"no", "creating", "yes"}
               /\ page[p].setup \in BOOLEAN /\ page[p].pinging \in BOOLEAN
               /\ page[p].inbox \in Seq([kind : RequestKind \cup {"PING", "INIT"}, for : Waiter])
    <3>1. page[p] \in PageType
      BY <2>1 DEF RequestTypes
    <3> QED BY <2>3, <3>1 DEF PageType
  <2> QED BY <2>1, <2>4 DEF WorkerTypeOK, RequestTypes, BusTypes, CallType, ServiceType, CountType
<1> QED BY <1>1, SwapWorkerInit, SwapWorkerStep, PTL DEF WorkerSpec

\* Whatever is lost, late, killed or posted again, the handler of the worker is
\* given a call at most once: sendMessageWithRetry repeats it only after an
\* answer that says it was not handled.
THEOREM SwapCallsHandledOnce == WorkerSpec => []HandledOnce
<1>1. SwapWorkerInv => HandledOnce
  BY DEF SwapWorkerInv, OnceInv, Once, Runs, HandledOnce
<1> QED BY <1>1, SwapWorkerInit, SwapWorkerStep, PTL DEF WorkerSpec

\* A SwapManager that runs and is not the handler's was replaced by another
\* INIT_ARKADE_SWAPS, or stopped while a start of it loaded the stored swaps.
THEOREM StraysAreLeft == WorkerSpec => []StraysHaveACause
<1>1. SwapWorkerInv => StraysHaveACause
  BY DEF SwapWorkerInv, StraysMarked, MayRun, StraysHaveACause
<1> QED BY <1>1, SwapWorkerInit, SwapWorkerStep, PTL DEF WorkerSpec

-----------------------------------------------------------------------------
(* VtxoManager. *)

Stage == {"none", "listing", "choosing", "settling", "sweeping", "broadcasting"}
PollType == [stage : Stage, listed : SUBSET Utxos, picked : SUBSET Utxos, error : BOOLEAN]
RenewalType == [stage : {"none", "reading", "settling", "settled"}, inputs : SUBSET Vtxos]

BoardingTypes ==
    /\ chain \in [Utxos -> {"none", "open", "taken", "gone"}]
    /\ expired \subseteq Utxos /\ known \subseteq Utxos /\ swept \subseteq Utxos

\* What is picked has been listed; a poll that is yet to list has picked nothing.
PollTypes ==
    /\ poll \in PollType /\ poll.picked \subseteq poll.listed
    /\ poll.stage = "listing" => poll.picked = {}
    /\ timer \in {"none", "startup", "poll"} /\ consecutivePollFailures \in 0 .. LongestBackoff

RenewalTypes ==
    /\ vtxo \in [Vtxos -> {"none", "live", "expiring"}] /\ renewal \in RenewalType
    /\ events \in Nat /\ echoes \in Nat /\ cooled \in BOOLEAN /\ eager \in BOOLEAN
    /\ happened \in 0 .. MaxHappens

FailTypes == fails \in 0 .. MaxFails

\* After dispose() no timer is armed, and at its end nothing is subscribed to.
Disposed ==
    /\ disposed \in {"no", "waiting", "unsubscribing", "done"}
    /\ subscription \in {"pending", "active", "failed", "stopped"}
    /\ disposed # "no" => timer = "none"
    /\ disposed = "done" => subscription = "stopped"

ManagerInv == BoardingTypes /\ PollTypes /\ RenewalTypes /\ FailTypes /\ Disposed

LEMMA ManagerInitInv == ManagerInit => ManagerInv
<1> SUFFICES ASSUME ManagerInit PROVE ManagerInv
  OBVIOUS
<1>1. NoPoll \in PollType /\ NoPoll.picked = {} /\ NoPoll.listed = {}
  BY DEF NoPoll, PollType, Stage
<1>2. NoRenewal \in RenewalType
  BY DEF NoRenewal, RenewalType
<1>3. BoardingTypes /\ RenewalTypes
  BY <1>2 DEF ManagerInit, New, BoardingTypes, RenewalTypes
<1>4. PollTypes
  BY <1>1 DEF ManagerInit, PollTypes, LongestBackoff
<1>5. FailTypes /\ Disposed
  BY ManagerAssumption DEF ManagerInit, FailTypes, Disposed
<1> QED BY <1>3, <1>4, <1>5 DEF ManagerInv

\* The end of a poll: the next one is scheduled unless dispose() has begun.
LEMMA PollEnded ==
  ASSUME PollTypes, Disposed, poll' = NoPoll, timer' = Armed,
         consecutivePollFailures' \in 0 .. LongestBackoff, UNCHANGED closing
  PROVE  PollTypes' /\ Disposed'
<1>1. NoPoll \in PollType /\ NoPoll.picked = {} /\ NoPoll.listed = {} /\ NoPoll.stage = "none"
  BY DEF NoPoll, PollType, Stage
<1> QED BY <1>1 DEF PollTypes, Disposed, Armed, closing

\* A poll that goes on.
LEMMA PollGoesOn ==
  ASSUME PollTypes, Disposed, NEW stage \in Stage \ {"listing"}, NEW listed \in SUBSET Utxos,
         NEW picked \in SUBSET listed, NEW error \in BOOLEAN,
         poll' = [stage |-> stage, listed |-> listed, picked |-> picked, error |-> error],
         UNCHANGED <<timer, consecutivePollFailures, closing>>
  PROVE  PollTypes' /\ Disposed'
BY DEF PollTypes, PollType, Disposed, closing, Stage

\* A step of the poll.
LEMMA PollStepInv ==
  ASSUME ManagerInv, PollStep \/ ListFails
  PROVE  BoardingTypes' /\ PollTypes' /\ FailTypes' /\ Disposed' /\ UNCHANGED renewing
<1>1. BoardingTypes /\ PollTypes /\ FailTypes /\ Disposed
  BY DEF ManagerInv
<1>2. /\ poll \in PollType /\ poll.picked \subseteq poll.listed
      /\ poll = [stage |-> poll.stage, listed |-> poll.listed, picked |-> poll.picked,
                 error |-> poll.error]
      /\ poll.listed \in SUBSET Utxos /\ poll.error \in BOOLEAN
  BY <1>1 DEF PollTypes, PollType
<1>3. MaxFails \in Nat
  BY ManagerAssumption
<1>4. MayFail /\ Failing => FailTypes'
  BY <1>1, <1>3 DEF MayFail, Failing, FailTypes
<1>5. UNCHANGED fails => FailTypes'
  BY <1>1 DEF FailTypes
<1>6. UNCHANGED boarding => BoardingTypes'
  BY <1>1 DEF boarding, BoardingTypes
<1>7. CASE Listed
  <2>1. PICK S \in SUBSET {u \in Utxos : chain[u] = "taken"} :
          poll' = [poll EXCEPT !.stage = "choosing",
                               !.listed = S \cup {u \in Utxos : chain[u] = "open"}]
    BY <1>7, Zenon DEF Listed
  <2> DEFINE listed == S \cup {u \in Utxos : chain[u] = "open"}
  <2>2. listed \in SUBSET Utxos /\ poll.picked = {}
    BY <1>1, <1>7 DEF Listed, PollTypes
  <2>3. /\ poll' = [stage |-> "choosing", listed |-> listed, picked |-> {}, error |-> poll.error]
        /\ UNCHANGED <<boarding, timer, consecutivePollFailures, renewing, closing, fails>>
    BY <1>2, <1>7, <2>1, <2>2 DEF Listed
  <2> HIDE DEF listed
  <2> QED BY <1>1, <1>2, <1>5, <1>6, <2>2, <2>3, PollGoesOn DEF Stage
<1>8. CASE ListFails
  <2>1. /\ poll' = NoPoll /\ timer' = Armed /\ consecutivePollFailures' \in 0 .. LongestBackoff
        /\ MayFail /\ Failing /\ UNCHANGED <<boarding, renewing, closing>>
    BY <1>1, <1>8 DEF ListFails, EndPoll, PollTypes, LongestBackoff
  <2> QED BY <1>1, <1>4, <1>6, <2>1, PollEnded
<1>9. CASE SettleBoardingUtxos
  <2>1. UNCHANGED <<boarding, timer, consecutivePollFailures, renewing, closing, fails>>
    BY <1>9 DEF SettleBoardingUtxos
  <2>2. Unsettled \in SUBSET poll.listed
    BY DEF Unsettled
  <2>3. \/ poll' = [stage |-> "sweeping", listed |-> poll.listed, picked |-> poll.picked,
                    error |-> poll.error]
        \/ poll' = [stage |-> "settling", listed |-> poll.listed, picked |-> Unsettled,
                    error |-> poll.error]
    BY <1>2, <1>9 DEF SettleBoardingUtxos
  <2> QED BY <1>1, <1>2, <1>5, <1>6, <2>1, <2>2, <2>3, PollGoesOn DEF Stage
<1>10. CASE Settled
  <2>1. /\ chain' = [u \in Utxos |-> IF u \in poll.picked THEN "taken" ELSE chain[u]]
        /\ known' = known \cup poll.picked
        /\ UNCHANGED <<expired, swept, timer, consecutivePollFailures, renewing, closing, fails>>
    BY <1>10 DEF Settled
  <2>2. BoardingTypes'
    BY <1>1, <1>2, <2>1 DEF BoardingTypes
  <2>3. poll' = [stage |-> "sweeping", listed |-> poll.listed, picked |-> {},
                 error |-> poll.error]
    BY <1>2, <1>10 DEF Settled
  <2> QED BY <1>1, <1>2, <1>5, <2>1, <2>2, <2>3, PollGoesOn DEF Stage
<1>11. CASE SettleFails
  <2>1. /\ (MayFail /\ Failing) \/ UNCHANGED fails
        /\ UNCHANGED <<boarding, timer, consecutivePollFailures, renewing, closing>>
    BY <1>11 DEF SettleFails
  <2>2. poll' = [stage |-> "sweeping", listed |-> poll.listed, picked |-> {}, error |-> TRUE]
    BY <1>2, <1>11 DEF SettleFails
  <2> QED BY <1>1, <1>2, <1>4, <1>5, <1>6, <2>1, <2>2, PollGoesOn DEF Stage
<1>12. CASE SweepExpiredBoardingUtxos
  <2>1. UNCHANGED <<boarding, timer, consecutivePollFailures, renewing, closing, fails>>
    BY <1>12 DEF SweepExpiredBoardingUtxos
  <2>2. ToSweep \in SUBSET poll.listed
    BY DEF ToSweep
  <2>3. poll' = [stage |-> "broadcasting", listed |-> poll.listed, picked |-> ToSweep,
                 error |-> poll.error]
    BY <1>2, <1>12 DEF SweepExpiredBoardingUtxos
  <2> QED BY <1>1, <1>2, <1>5, <1>6, <2>1, <2>2, <2>3, PollGoesOn DEF Stage
<1>13. CASE NothingToSweep \/ NotEconomical
  <2>1. /\ poll' = NoPoll /\ timer' = Armed /\ consecutivePollFailures' \in 0 .. LongestBackoff
        /\ UNCHANGED <<boarding, renewing, closing, fails>>
    BY <1>1, <1>13 DEF NothingToSweep, NotEconomical, EndPoll, PollTypes, LongestBackoff
  <2> QED BY <1>1, <1>5, <1>6, <2>1, PollEnded
<1>14. CASE Swept
  <2>1. /\ poll' = NoPoll /\ timer' = Armed /\ consecutivePollFailures' \in 0 .. LongestBackoff
        /\ swept' = swept \cup poll.picked /\ UNCHANGED <<expired, renewing, closing, fails>>
    BY <1>1, <1>14 DEF Swept, EndPoll, PollTypes, LongestBackoff
  <2> DEFINE free == {u \in Utxos : chain[u] = "none"}
             spent == [u \in Utxos |-> IF u \in poll.picked THEN "taken" ELSE chain[u]]
  <2>2. IF free = {} THEN chain' = spent /\ UNCHANGED known
        ELSE \E out \in free : /\ chain' = [spent EXCEPT ![out] = "open"]
                               /\ known' = known \cup {out}
    BY <1>14 DEF Swept
  <2>3. spent \in [Utxos -> {"none", "open", "taken", "gone"}] /\ free \subseteq Utxos
    BY <1>1 DEF BoardingTypes
  <2> HIDE DEF free, spent
  <2>4. chain' \in [Utxos -> {"none", "open", "taken", "gone"}] /\ known' \subseteq Utxos
    <3>1. CASE free = {}
      BY <1>1, <2>2, <2>3, <3>1 DEF BoardingTypes
    <3>2. CASE free # {}
      BY <1>1, <2>2, <2>3, <3>2 DEF BoardingTypes
    <3> QED BY <3>1, <3>2
  <2>5. BoardingTypes'
    BY <1>1, <1>2, <2>1, <2>4 DEF BoardingTypes
  <2> QED BY <1>1, <1>5, <2>1, <2>5, PollEnded
<1>15. CASE SweepFails
  <2>1. /\ poll' = NoPoll /\ timer' = Armed /\ consecutivePollFailures' \in 0 .. LongestBackoff
        /\ (MayFail /\ Failing) \/ UNCHANGED fails
        /\ UNCHANGED <<boarding, renewing, closing>>
    BY <1>1, <1>15 DEF SweepFails, EndPoll, PollTypes, LongestBackoff
  <2> QED BY <1>1, <1>4, <1>5, <1>6, <2>1, PollEnded
<1> QED BY <1>7, <1>8, <1>9, <1>10, <1>11, <1>12, <1>13, <1>14, <1>15 DEF PollStep

\* A step of the renewals, or of what renewals are about.
LEMMA RenewalStepInv ==
  ASSUME ManagerInv,
         \/ \E v \in Vtxos : Ages(v) \/ Receives(v) \/ UserSpends(v)
         \/ UserRenews \/ RenewalStep \/ CooldownPasses
  PROVE  RenewalTypes' /\ FailTypes' /\ UNCHANGED keepsBoarding
<1>1. /\ vtxo \in [Vtxos -> {"none", "live", "expiring"}] /\ renewal \in RenewalType
      /\ events \in Nat /\ echoes \in Nat /\ cooled \in BOOLEAN /\ eager \in BOOLEAN
      /\ happened \in 0 .. MaxHappens /\ New \in {"live", "expiring"}
      /\ fails \in 0 .. MaxFails
  BY DEF ManagerInv, RenewalTypes, FailTypes, New
<1>2. MaxHappens \in Nat /\ MaxFails \in Nat
  BY ManagerAssumption
<1>3. Happens => happened' \in 0 .. MaxHappens
  BY <1>1, <1>2 DEF Happens
<1>4. MayFail /\ Failing => fails' \in 0 .. MaxFails
  BY <1>1, <1>2 DEF MayFail, Failing
<1>5. NoRenewal \in RenewalType /\ (StartRenewal => renewal' \in RenewalType)
  BY DEF NoRenewal, StartRenewal, RenewalType
<1>6. ASSUME NEW v \in Vtxos, Ages(v) \/ Receives(v) \/ UserSpends(v)
      PROVE  RenewalTypes' /\ FailTypes' /\ UNCHANGED keepsBoarding
  <2>1. /\ vtxo' \in [Vtxos -> {"none", "live", "expiring"}] /\ events' \in {events, events + 1}
        /\ Happens \/ happened' = happened
        /\ UNCHANGED <<keepsBoarding, echoes, renewal, cooled, fails>>
    BY <1>1, <1>6 DEF Ages, Receives, UserSpends
  <2> QED BY <1>1, <1>3, <2>1 DEF RenewalTypes, FailTypes, keepsBoarding
<1>7. CASE UserRenews
  BY <1>1, <1>3, <1>5, <1>7 DEF UserRenews, RenewalTypes, FailTypes, keepsBoarding
<1>8. CASE VtxoReceived
  <2>1. /\ events' \in Nat /\ echoes' \in Nat
        /\ StartRenewal \/ renewal' = renewal
        /\ UNCHANGED <<keepsBoarding, vtxo, cooled, happened, fails>>
    BY <1>1, <1>8 DEF VtxoReceived
  <2>2. eager' = eager /\ renewal' \in RenewalType
    BY <1>1, <1>5, <2>1 DEF keepsBoarding
  <2> QED BY <1>1, <2>1, <2>2 DEF RenewalTypes, FailTypes
<1>9. CASE RenewVtxos
  <2>1. renewal' \in RenewalType
    BY <1>5, <1>9 DEF RenewVtxos, Eligible, RenewalType
  <2> QED BY <1>1, <1>9, <2>1 DEF RenewVtxos, RenewalTypes, FailTypes, keepsBoarding
<1>10. CASE BatchRenews
  <2>1. /\ renewal' = [renewal EXCEPT !.stage = "settled"] /\ echoes' = echoes + 1
        /\ UNCHANGED <<keepsBoarding, events, cooled, happened, fails>>
    BY <1>10 DEF BatchRenews
  <2>2. vtxo' \in [Vtxos -> {"none", "live", "expiring"}]
    BY <1>1, <1>10 DEF BatchRenews
  <2>3. renewal' \in RenewalType /\ echoes' \in Nat
    BY <1>1, <2>1 DEF RenewalType
  <2> QED BY <1>1, <2>1, <2>2, <2>3 DEF RenewalTypes, FailTypes, keepsBoarding
<1>13. CASE Renewed
  BY <1>1, <1>5, <1>13 DEF Renewed, RenewalTypes, FailTypes, keepsBoarding
<1>11. CASE RenewFails
  <2>1. (MayFail /\ Failing) \/ UNCHANGED fails
    BY <1>11 DEF RenewFails
  <2> QED BY <1>1, <1>4, <1>5, <1>11, <2>1 DEF RenewFails, RenewalTypes, FailTypes, keepsBoarding
<1>12. CASE CooldownPasses
  BY <1>1, <1>12 DEF CooldownPasses, RenewalTypes, FailTypes, keepsBoarding
<1> QED BY <1>6, <1>7, <1>8, <1>9, <1>10, <1>11, <1>12, <1>13 DEF RenewalStep

\* A step of the chain or of the user leaves the poll and the renewals alone.
LEMMA ChainStepInv ==
  ASSUME ManagerInv,
         \/ \E u \in Utxos : Boards(u) \/ Expires(u) \/ Confirms(u)
         \/ UserSettles
  PROVE  ManagerInv' /\ UNCHANGED <<polling, renewing, closing>>
<1>1. UNCHANGED <<polling, renewing, closing, fails>>
  BY DEF Boards, Expires, Confirms, UserSettles
<1>2. BoardingTypes'
  <2>1. BoardingTypes
    BY DEF ManagerInv
  <2>2. ASSUME NEW u \in Utxos, Boards(u) \/ Expires(u) \/ Confirms(u) PROVE BoardingTypes'
    BY <2>1, <2>2 DEF Boards, Expires, Confirms, BoardingTypes
  <2>3. CASE UserSettles
    BY <2>1, <2>3 DEF UserSettles, BoardingTypes
  <2> QED BY <2>2, <2>3
<1> QED BY <1>1, <1>2 DEF ManagerInv, PollTypes, RenewalTypes, FailTypes, Disposed,
                          polling, renewing, closing

\* A timer, the subscription and dispose().
LEMMA ClosingStepInv ==
  ASSUME ManagerInv,
         \/ PollBoardingUtxos
         \/ InitializeSubscription \/ Dispose \/ DisposeWaited \/ Unsubscribe
  PROVE  ManagerInv' /\ UNCHANGED renewing
<1>1. BoardingTypes /\ PollTypes /\ RenewalTypes /\ FailTypes /\ Disposed
  BY DEF ManagerInv
<1>2. UNCHANGED <<boarding, renewing, fails>>
  BY DEF PollBoardingUtxos, InitializeSubscription, Dispose, DisposeWaited, Unsubscribe
<1>3. BoardingTypes' /\ RenewalTypes' /\ FailTypes'
  BY <1>1, <1>2 DEF BoardingTypes, RenewalTypes, FailTypes, boarding, renewing
<1>4. PollTypes' /\ Disposed'
  <2>1. CASE PollBoardingUtxos
    <3>1. /\ timer' = "none" /\ UNCHANGED <<consecutivePollFailures, disposed, subscription>>
          /\ poll' = poll \/ poll' = [NoPoll EXCEPT !.stage = "listing"]
      BY <2>1 DEF PollBoardingUtxos, closing
    <3>2. /\ [NoPoll EXCEPT !.stage = "listing"] \in PollType
          /\ [NoPoll EXCEPT !.stage = "listing"].picked = {}
      BY DEF NoPoll, PollType, Stage
    <3> QED BY <1>1, <3>1, <3>2 DEF PollTypes, Disposed
  <2>2. CASE InitializeSubscription
    BY <1>1, <2>2 DEF InitializeSubscription, PollTypes, Disposed, polling
  <2>3. CASE Dispose
    BY <1>1, <2>3 DEF Dispose, PollTypes, Disposed
  <2>4. CASE DisposeWaited \/ Unsubscribe
    BY <1>1, <2>4 DEF DisposeWaited, Unsubscribe, PollTypes, Disposed, polling
  <2> QED BY <2>1, <2>2, <2>3, <2>4
<1> QED BY <1>2, <1>3, <1>4 DEF ManagerInv

LEMMA ManagerStepInv == ManagerInv /\ [ManagerNext]_managerVars => ManagerInv'
<1> SUFFICES ASSUME ManagerInv, [ManagerNext]_managerVars PROVE ManagerInv'
  OBVIOUS
<1>1. CASE PollStep \/ ListFails
  <2>1. BoardingTypes' /\ PollTypes' /\ FailTypes' /\ Disposed' /\ UNCHANGED renewing
    BY <1>1, PollStepInv
  <2>2. RenewalTypes'
    BY <2>1 DEF ManagerInv, RenewalTypes, renewing
  <2> QED BY <2>1, <2>2 DEF ManagerInv
<1>2. CASE \/ \E v \in Vtxos : Ages(v) \/ Receives(v) \/ UserSpends(v)
           \/ UserRenews \/ RenewalStep \/ CooldownPasses
  <2>1. RenewalTypes' /\ FailTypes' /\ UNCHANGED <<boarding, polling, closing>>
    BY <1>2, RenewalStepInv DEF keepsBoarding
  <2>2. BoardingTypes' /\ PollTypes' /\ Disposed'
    BY <2>1 DEF ManagerInv, BoardingTypes, PollTypes, Disposed, boarding, polling, closing
  <2> QED BY <2>1, <2>2 DEF ManagerInv
<1>3. CASE \/ \E u \in Utxos : Boards(u) \/ Expires(u) \/ Confirms(u)
           \/ UserSettles
  BY <1>3, ChainStepInv
<1>4. CASE \/ PollBoardingUtxos
           \/ InitializeSubscription \/ Dispose \/ DisposeWaited \/ Unsubscribe
  BY <1>4, ClosingStepInv
<1>5. CASE UNCHANGED managerVars
  BY <1>5 DEF managerVars, ManagerInv, BoardingTypes, PollTypes, RenewalTypes, FailTypes, Disposed
<1> QED BY <1>1, <1>2, <1>3, <1>4, <1>5 DEF ManagerNext

\* What the manager holds is always of its type.
THEOREM ManagerTypes == ManagerSpec => []ManagerTypeOK
<1>1. ManagerInv => ManagerTypeOK
  BY DEF ManagerInv, BoardingTypes, PollTypes, RenewalTypes, FailTypes, Disposed, PollType, Stage,
         RenewalType, ManagerTypeOK
<1> QED BY <1>1, ManagerInitInv, ManagerStepInv, PTL DEF ManagerSpec

\* A step of a poll is of a poll that runs; its end may arm the timer.
LEMMA PollRuns ==
  ASSUME PollStep \/ ListFails
  PROVE  poll.stage # "none" /\ timer' \in {timer, Armed}
<1>1. CASE Listed
  <2>1. poll.stage = "listing"
    BY <1>1, Zenon DEF Listed
  <2>2. timer' = timer
    BY <1>1, Zenon DEF Listed
  <2> QED BY <2>1, <2>2
<1>2. CASE SettleBoardingUtxos \/ Settled \/ SettleFails
  <2>1. poll.stage \in {"choosing", "settling"} /\ timer' = timer
    BY <1>2 DEF SettleBoardingUtxos, Settled, SettleFails
  <2> QED BY <2>1
<1>3. CASE SweepExpiredBoardingUtxos
  BY <1>3 DEF SweepExpiredBoardingUtxos
<1>4. CASE ListFails \/ NothingToSweep \/ NotEconomical
  BY <1>4 DEF ListFails, NothingToSweep, NotEconomical, EndPoll
<1>5. CASE Swept \/ SweepFails
  BY <1>5 DEF Swept, SweepFails, EndPoll
<1> QED BY <1>1, <1>2, <1>3, <1>4, <1>5 DEF PollStep

\* What a step does not do after dispose().
Quiet ==
    /\ disposed # "no" /\ poll = NoPoll => poll' = NoPoll
    /\ disposed # "no" => timer' = "none"
    /\ disposed = "done" /\ renewal = NoRenewal /\ <<events, echoes>>' # <<events, echoes>>
         => renewal' = NoRenewal

LEMMA QuietStep == ManagerInv /\ [ManagerNext]_managerVars => Quiet
<1> SUFFICES ASSUME ManagerInv, [ManagerNext]_managerVars PROVE Quiet
  OBVIOUS
<1>1. /\ disposed # "no" => timer = "none"
      /\ disposed = "done" => subscription = "stopped"
  BY DEF ManagerInv, Disposed
<1>2. NoPoll.stage = "none" /\ NoRenewal.stage = "none"
  BY DEF NoPoll, NoRenewal
<1>3. CASE PollStep \/ ListFails
  <2>1. renewal' = renewal
    BY <1>3, PollStepInv DEF renewing
  <2>2. poll.stage # "none" /\ timer' \in {timer, Armed}
    BY <1>3, PollRuns
  <2> QED BY <1>1, <1>2, <2>1, <2>2 DEF Quiet, Armed
<1>4. CASE \/ \E v \in Vtxos : Ages(v) \/ Receives(v) \/ UserSpends(v)
           \/ UserRenews \/ RenewalStep \/ CooldownPasses
  <2>1. UNCHANGED <<poll, timer>>
    BY <1>4, RenewalStepInv DEF keepsBoarding, polling
  <2>2. \/ disposed = "done" /\ renewal = NoRenewal => renewal' = NoRenewal
        \/ UNCHANGED <<events, echoes>>
    BY <1>1, <1>2, <1>4 DEF Ages, Receives, UserSpends, UserRenews, RenewalStep, CooldownPasses,
         VtxoReceived, RenewVtxos, BatchRenews, Renewed, RenewFails
  <2> QED BY <1>1, <2>1, <2>2 DEF Quiet
<1>5. CASE \/ \E u \in Utxos : Boards(u) \/ Expires(u) \/ Confirms(u)
           \/ UserSettles
  BY <1>1, <1>5, ChainStepInv DEF Quiet, polling, renewing
<1>6. CASE \/ PollBoardingUtxos
           \/ InitializeSubscription \/ Dispose \/ DisposeWaited \/ Unsubscribe
  <2>1. renewal' = renewal
    BY <1>6, ClosingStepInv DEF renewing
  <2>2. disposed # "no" => poll' = poll /\ timer' \in {"none", timer}
    BY <1>6 DEF PollBoardingUtxos, InitializeSubscription, Dispose, DisposeWaited, Unsubscribe,
         polling
  <2> QED BY <1>1, <2>1, <2>2 DEF Quiet
<1>7. CASE UNCHANGED managerVars
  BY <1>1, <1>7 DEF managerVars, Quiet
<1> QED BY <1>3, <1>4, <1>5, <1>6, <1>7 DEF ManagerNext

\* Once dispose() has begun no poll begins and no timer is armed again, not by
\* the poll that was in progress; once it is done no event starts a renewal.
THEOREM DisposedIsQuiet == ManagerSpec => QuietAfterDispose
<1>1. ManagerInv /\ [ManagerNext]_managerVars => [Quiet]_managerVars
  BY QuietStep
<1>2. ManagerSpec => [][Quiet]_managerVars
  BY <1>1, ManagerInitInv, ManagerStepInv, PTL DEF ManagerSpec
<1> QED BY <1>2 DEF QuietAfterDispose, Quiet

-----------------------------------------------------------------------------
(* ExpoTasks.                                                                *)

\* What a round holds, it holds only between the awaits that use it.
Held(round) ==
    /\ round.todo # {} => round.stage \in {"loop", "poll", "save", "act", "remove", "removeW"}
    /\ round.task # NoTask => round.stage \in {"poll", "save", "act", "remove", "removeW"}
    /\ round.list # {} => round.stage \in {"removeW", "addW"}
    /\ round.loaded # Idle.loaded \/ round.polls # {} => round.stage \in {"poll", "save", "act"}
    /\ round.swap # NoSwap \/ round.status # "swap.created" => round.stage \in {"save", "act"}
    /\ round.stage \in {"save", "act"} => round.swap \in StoredSwaps

RoundTypes ==
    /\ runner \in [Runners -> RoundType]
    /\ \A r \in Runners : Held(runner[r])
    /\ ~open => runner[App].stage = "idle"

QueueTypes ==
    /\ config \in BOOLEAN /\ open \in BOOLEAN
    /\ inbox \subseteq Tasks /\ troubles \in 0 .. MostTroubles

SwapTypes ==
    /\ kindOf \in [StoredSwaps -> Kinds]
    /\ stored \in [StoredSwaps -> SwapRecord]
    /\ server \in [StoredSwaps -> Status]
    /\ coin \in [StoredSwaps -> {"locked", "spent"}]

\* A status that somebody holds of a swap is true as long as it matters: a final
\* one is the last, what may be refunded will not be paid, and what may be
\* claimed has been locked.
StatusTrue(s, status) ==
    /\ status \in FinalStatus(kindOf[s]) => server[s] = status
    /\ status \in RefundableStatus(kindOf[s]) => server[s] \in RefundableStatus(kindOf[s])
    /\ kindOf[s] = "reverse" /\ status \in ReverseClaimable =>
         server[s] \in ReverseClaimable \cup {"invoice.settled", "transaction.refunded"}

RecordTrue(s, record) ==
    /\ StatusTrue(s, record.status)
    /\ record.refunded => coin[s] = "spent"

\* Boltz has the preimage of a reverse swap, from the claim, before it calls it settled.
SettledIsSpent ==
    \A s \in StoredSwaps : kindOf[s] = "reverse" /\ server[s] = "invoice.settled" => coin[s] = "spent"

\* Every copy of a record is true: the stored ones, those a round has loaded, and
\* the answer it is about to save.
CopiesTrue ==
    /\ \A s \in StoredSwaps : RecordTrue(s, stored[s])
    /\ \A r \in Runners, s \in StoredSwaps : RecordTrue(s, runner[r].loaded[s])
    /\ \A r \in Runners :
         runner[r].stage \in {"save", "act"} =>
            StatusTrue(runner[r].swap, runner[r].status)

\* The coins have moved only when it was time.
SpentInTime ==
    \A s \in StoredSwaps :
        coin[s] = "spent" =>
            /\ kindOf[s] = "submarine" => server[s] \in SubmarineRefundable \cup {"transaction.claimed"}
            /\ kindOf[s] = "reverse" => server[s] \in ReverseClaimable \cup
                                                     {"invoice.settled", "transaction.refunded"}

TaskTypes == RoundTypes /\ QueueTypes /\ SwapTypes
TaskInv == TaskTypes /\ SettledIsSpent /\ CopiesTrue /\ SpentInTime

\* The lifecycles: a final status is the last, a refundable one is followed by
\* others, and a new swap is neither, nor claimable.
LEMMA KindFacts ==
  ASSUME NEW k \in Kind
  PROVE  /\ \A status \in FinalStatus(k) : ServerNext(k, status) = {}
         /\ \A status \in RefundableStatus(k) : ServerNext(k, status) \subseteq RefundableStatus(k)
         /\ CreatedStatus(k) \in Status
         /\ \A status \in Status : ServerNext(k, status) \subseteq Status
         /\ CreatedStatus(k) \notin FinalStatus(k) \cup RefundableStatus(k) \cup ClaimableStatus(k)
<1> DEFINE Facts ==
  /\ \A status \in FinalStatus(k) : ServerNext(k, status) = {}
  /\ \A status \in RefundableStatus(k) : ServerNext(k, status) \subseteq RefundableStatus(k)
  /\ CreatedStatus(k) \in Status
  /\ \A status \in Status : ServerNext(k, status) \subseteq Status
  /\ CreatedStatus(k) \notin FinalStatus(k) \cup RefundableStatus(k) \cup ClaimableStatus(k)
<1>1. CASE k = "reverse"
  <2>1. FinalStatus(k) = ReverseFinal /\ RefundableStatus(k) = {} /\ ClaimableStatus(k) = ReverseClaimable
    BY <1>1 DEF FinalStatus, RefundableStatus, ClaimableStatus
  <2> QED BY <1>1, <2>1 DEF ReverseFinal, ReverseClaimable, ServerNext, CreatedStatus, Status
<1>2. CASE k = "submarine"
  <2>1. /\ FinalStatus(k) = SubmarineFinal /\ RefundableStatus(k) = SubmarineRefundable
        /\ ClaimableStatus(k) = {}
    BY <1>2 DEF FinalStatus, RefundableStatus, ClaimableStatus
  <2> QED BY <1>2, <2>1 DEF SubmarineFinal, SubmarineRefundable, ServerNext, CreatedStatus, Status
<1>3. CASE k \in {"chainToArk", "chainToBtc"}
  <2>1. /\ FinalStatus(k) = ChainFinal /\ RefundableStatus(k) \subseteq {"swap.expired"}
        /\ ClaimableStatus(k) = ChainClaimable
    BY <1>3 DEF FinalStatus, RefundableStatus, ClaimableStatus, ChainRefundable
  <2> QED BY <1>3, <2>1 DEF ChainFinal, ChainClaimable, ServerNext, CreatedStatus, Status
<1> QED BY <1>1, <1>2, <1>3 DEF Kind

LEMMA IdleRound == Idle \in RoundType /\ Held(Idle)
<1>1. "swap.created" \in Status
  BY DEF Status
<1>2. Idle.loaded \in [StoredSwaps -> SwapRecord]
  BY <1>1 DEF Idle, SwapRecord
<1> QED BY <1>2 DEF Idle, Held, RoundType, RoundStage, Status

\* A round that is over holds nothing.
LEMMA IdleIsEmpty ==
  ASSUME NEW round \in RoundType, Held(round), round.stage = "idle"
  PROVE  round = Idle
  BY DEF RoundType, Held, Idle

\* A step of one round, with the app open or as it was.
LEMMA RoundChange ==
  ASSUME RoundTypes, NEW r \in Runners, NEW new \in RoundType, Held(new),
         runner' = [runner EXCEPT ![r] = new],
         \/ open'
         \/ open' = open /\ (r # App \/ runner[r].stage # "idle")
         \/ new.stage = "idle" /\ (r = App \/ open' = open)
  PROVE  RoundTypes'
  BY DEF RoundTypes, Runners

\* The awaits of a round that leave the swaps alone.
LEMMA QueueStepTypes ==
  ASSUME RoundTypes, QueueTypes, NEW r \in Runners,
         \/ GetTasks(r) \/ EndTasks(r) \/ ReadInbox(r) \/ RemoveTask(r) \/ Seed(r) \/ AddTask(r)
         \/ EndPolls(r) \/ Ends(r)
  PROVE  RoundTypes' /\ QueueTypes'
<1>0. runner[r] \in RoundType /\ Held(runner[r]) /\ inbox \subseteq Tasks
  BY DEF RoundTypes, QueueTypes
<1>1. CASE GetTasks(r)
  <2> DEFINE new == [runner[r] EXCEPT !.stage = "loop", !.todo = inbox]
  <2>1. new \in RoundType
    BY <1>0, <1>1 DEF GetTasks, RoundType, RoundStage
  <2>2. Held(new)
    BY <1>0, <1>1 DEF GetTasks, Held, At, RoundType
  <2>3. runner' = [runner EXCEPT ![r] = new]
    BY <1>1, Zenon DEF GetTasks, Goes
  <2>4. QueueTypes'
    BY <1>0, <1>1 DEF GetTasks, QueueTypes, queue
  <2>5. open' = open /\ runner[r].stage # "idle"
    BY <1>1 DEF GetTasks, At
  <2> HIDE DEF new
  <2> QED BY <2>1, <2>2, <2>3, <2>4, <2>5, RoundChange
<1>2. CASE EndTasks(r)
  <2> DEFINE new == [runner[r] EXCEPT !.stage = "seed"]
  <2>1. new \in RoundType
    BY <1>0, <1>2 DEF EndTasks, RoundType, RoundStage
  <2>2. Held(new)
    BY <1>0, <1>2 DEF EndTasks, Held, At, RoundType
  <2>3. runner' = [runner EXCEPT ![r] = new]
    BY <1>2, Zenon DEF EndTasks, Goes
  <2>4. QueueTypes'
    BY <1>0, <1>2 DEF EndTasks, QueueTypes, queue
  <2>5. open' = open /\ runner[r].stage # "idle"
    BY <1>2 DEF EndTasks, At
  <2> HIDE DEF new
  <2> QED BY <2>1, <2>2, <2>3, <2>4, <2>5, RoundChange
<1>3. CASE ReadInbox(r) /\ At(r, "remove")
  <2> DEFINE new == [runner[r] EXCEPT !.stage = "removeW", !.list = inbox]
  <2>1. new \in RoundType
    BY <1>0, <1>3 DEF ReadInbox, RoundType, RoundStage
  <2>2. Held(new)
    BY <1>0, <1>3 DEF ReadInbox, Held, At, RoundType
  <2>3. runner' = [runner EXCEPT ![r] = new]
    BY <1>3, Zenon DEF ReadInbox, Goes, At
  <2>4. QueueTypes'
    BY <1>0, <1>3 DEF ReadInbox, QueueTypes, queue
  <2>5. open' = open /\ runner[r].stage # "idle"
    BY <1>3 DEF ReadInbox, At
  <2> HIDE DEF new
  <2> QED BY <2>1, <2>2, <2>3, <2>4, <2>5, RoundChange
<1>4. CASE ReadInbox(r) /\ At(r, "add")
  <2> DEFINE new == [runner[r] EXCEPT !.stage = "addW", !.list = inbox]
  <2>1. new \in RoundType
    BY <1>0, <1>4 DEF ReadInbox, RoundType, RoundStage
  <2>2. Held(new)
    BY <1>0, <1>4 DEF ReadInbox, Held, At, RoundType
  <2>3. runner' = [runner EXCEPT ![r] = new]
    BY <1>4, Zenon DEF ReadInbox, Goes, At
  <2>4. QueueTypes'
    BY <1>0, <1>4 DEF ReadInbox, QueueTypes, queue
  <2>5. open' = open /\ runner[r].stage # "idle"
    BY <1>4 DEF ReadInbox, At
  <2> HIDE DEF new
  <2> QED BY <2>1, <2>2, <2>3, <2>4, <2>5, RoundChange
<1>5. CASE RemoveTask(r)
  <2> DEFINE new == [runner[r] EXCEPT !.stage = "loop", !.list = {}, !.task = NoTask,
                              !.todo = @ \ {runner[r].task}]
  <2>1. new \in RoundType
    BY <1>0, <1>5 DEF RemoveTask, RoundType, RoundStage
  <2>2. Held(new)
    BY <1>0, <1>5 DEF RemoveTask, Held, At, RoundType
  <2>3. runner' = [runner EXCEPT ![r] = new]
    BY <1>5, Zenon DEF RemoveTask, Goes
  <2>4. QueueTypes'
    BY <1>0, <1>5 DEF RemoveTask, QueueTypes, RoundType
  <2>5. open' = open /\ runner[r].stage # "idle"
    BY <1>5 DEF RemoveTask, At
  <2> HIDE DEF new
  <2> QED BY <2>1, <2>2, <2>3, <2>4, <2>5, RoundChange
<1>6. CASE Seed(r) /\ NeedsSeed
  <2> DEFINE new == [runner[r] EXCEPT !.stage = "add"]
  <2>1. new \in RoundType
    BY <1>0, <1>6 DEF Seed, RoundType, RoundStage
  <2>2. Held(new)
    BY <1>0, <1>6 DEF Seed, Held, At, RoundType
  <2>3. runner' = [runner EXCEPT ![r] = new]
    BY <1>6, Zenon DEF Seed, Goes
  <2>4. QueueTypes'
    BY <1>0, <1>6 DEF Seed, QueueTypes, queue
  <2>5. open' = open /\ runner[r].stage # "idle"
    BY <1>6 DEF Seed, At
  <2> HIDE DEF new
  <2> QED BY <2>1, <2>2, <2>3, <2>4, <2>5, RoundChange
<1>7. CASE Seed(r) /\ ~NeedsSeed
  <2> DEFINE new == [runner[r] EXCEPT !.stage = "idle"]
  <2>1. new \in RoundType
    BY <1>0, <1>7 DEF Seed, RoundType, RoundStage
  <2>2. Held(new)
    BY <1>0, <1>7 DEF Seed, Held, At, RoundType
  <2>3. runner' = [runner EXCEPT ![r] = new]
    BY <1>7, Zenon DEF Seed, Goes
  <2>4. QueueTypes'
    BY <1>0, <1>7 DEF Seed, QueueTypes, queue
  <2>5. open' = open /\ runner[r].stage # "idle"
    BY <1>7 DEF Seed, At
  <2> HIDE DEF new
  <2> QED BY <2>1, <2>2, <2>3, <2>4, <2>5, RoundChange
<1>8. CASE AddTask(r)
  <2> DEFINE new == Idle
  <2>1. new \in RoundType
    BY IdleRound
  <2>2. Held(new)
    BY IdleRound
  <2>3. runner' = [runner EXCEPT ![r] = new]
    BY <1>8, Zenon DEF AddTask, Goes
  <2>4. QueueTypes'
    BY <1>0, <1>8 DEF AddTask, QueueTypes, FreshTasks, RoundType
  <2>5. new.stage = "idle" /\ (r = App \/ open' = open)
    BY <1>8 DEF AddTask, Idle
  <2> HIDE DEF new
  <2> QED BY <2>1, <2>2, <2>3, <2>4, <2>5, RoundChange
<1>9. CASE EndPolls(r)
  <2> DEFINE new == [runner[r] EXCEPT !.stage = "remove", !.loaded = Idle.loaded]
  <2>1. new \in RoundType
    BY <1>0, <1>9, IdleRound DEF EndPolls, RoundType, RoundStage
  <2>2. Held(new)
    BY <1>0, <1>9 DEF EndPolls, Held, At, RoundType
  <2>3. runner' = [runner EXCEPT ![r] = new]
    BY <1>9, Zenon DEF EndPolls, Goes
  <2>4. QueueTypes'
    BY <1>0, <1>9 DEF EndPolls, QueueTypes, queue
  <2>5. open' = open /\ runner[r].stage # "idle"
    BY <1>9 DEF EndPolls, At
  <2> HIDE DEF new
  <2> QED BY <2>1, <2>2, <2>3, <2>4, <2>5, RoundChange
<1>10. CASE Ends(r)
  <2> DEFINE new == Idle
  <2>1. new \in RoundType
    BY IdleRound
  <2>2. Held(new)
    BY IdleRound
  <2>3. runner' = [runner EXCEPT ![r] = new]
    BY <1>10, Zenon DEF Ends, Goes
  <2>4. QueueTypes'
    <3>1. /\ troubles < MostTroubles /\ troubles' = troubles + 1
          /\ config' = config /\ inbox' = inbox
      BY <1>10, Zenon DEF Ends, queue
    <3>2. open' \in BOOLEAN
      BY <1>10, Zenon DEF Ends, QueueTypes
    <3>3. troubles' \in 0 .. MostTroubles
      BY <3>1, ExpoTasksAssumption DEF QueueTypes
    <3> QED BY <3>1, <3>2, <3>3, Zenon DEF QueueTypes
  <2>5. new.stage = "idle" /\ (r = App \/ open' = open)
    BY <1>10 DEF Ends, Idle
  <2> HIDE DEF new
  <2> QED BY <2>1, <2>2, <2>3, <2>4, <2>5, RoundChange
<1> QED BY <1>1, <1>2, <1>3, <1>4, <1>5, <1>6, <1>7, <1>8, <1>9, <1>10 DEF ReadInbox, Seed

\* The awaits of a round over the swaps.
LEMMA PollStepTypes ==
  ASSUME TaskTypes, NEW r \in Runners,
         \/ Execute(r) \/ PollSwap(r) \/ SaveStatus(r) \/ PollFails(r)
         \/ NothingToDo(r) \/ ClaimOrRefund(r) \/ RefundSkipped(r) \/ ActFails(r)
  PROVE  TaskTypes'
<1>0. /\ runner[r] \in RoundType /\ Held(runner[r]) /\ RoundTypes
      /\ stored \in [StoredSwaps -> SwapRecord] /\ server \in [StoredSwaps -> Status]
      /\ coin \in [StoredSwaps -> {"locked", "spent"}] /\ kindOf \in [StoredSwaps -> Kinds]
  BY DEF TaskTypes, RoundTypes, SwapTypes
<1>1. open' = open /\ runner[r].stage # "idle"
  <2>1. /\ open' = open
        /\ \/ At(r, "loop") \/ At(r, "poll") \/ At(r, "save") \/ At(r, "act")
    BY Zenon DEF Execute, PollSwap, SaveStatus, PollFails, NothingToDo, ClaimOrRefund, RefundSkipped, ActFails
  <2> QED BY <2>1 DEF At
<1>a. CASE Execute(r)
  <2>1. PICK t \in runner[r].todo :
          runner' = [runner EXCEPT ![r].stage = "poll", ![r].task = t, ![r].loaded = stored,
                                   ![r].polls = {s \in StoredSwaps : Pollable(s)}]
    BY <1>a, Zenon DEF Execute
  <2>a. /\ runner[r].stage = "loop"
        /\ UNCHANGED <<config, inbox, open, troubles, stored, server, coin, kindOf>>
    BY <1>a, Zenon DEF Execute, At, queue, swaps
  <2>b. t \in Tasks
    BY <1>0, <2>1 DEF RoundType
  <2> DEFINE pending == {s \in StoredSwaps : Pollable(s)}
             new == [runner[r] EXCEPT !.stage = "poll", !.task = t, !.loaded = stored,
                                      !.polls = pending]
  <2>c. pending \subseteq StoredSwaps
    OBVIOUS
  <2> HIDE DEF pending
  <2>2. new \in RoundType
    BY <1>0, <2>b, <2>c DEF RoundType, RoundStage
  <2>3. Held(new)
    BY <1>0, <2>a DEF Held, RoundType
  <2>4. runner' = [runner EXCEPT ![r] = new]
    BY <2>1, Zenon DEF pending
  <2>5. QueueTypes' /\ SwapTypes'
    BY <2>a DEF TaskTypes, QueueTypes, SwapTypes
  <2> HIDE DEF new
  <2> QED BY <1>0, <1>1, <2>2, <2>3, <2>4, <2>5, RoundChange DEF TaskTypes
<1>b. CASE PollSwap(r)
  <2>1. PICK s \in runner[r].polls :
          runner' = [runner EXCEPT ![r].stage = "save", ![r].polls = @ \ {s},
                                   ![r].swap = s, ![r].status = server[s]]
    BY <1>b, Zenon DEF PollSwap
  <2>a. /\ runner[r].stage = "poll"
        /\ UNCHANGED <<config, inbox, open, troubles, stored, server, coin, kindOf>>
    BY <1>b, Zenon DEF PollSwap, At, queue, swaps
  <2> DEFINE new == [runner[r] EXCEPT !.stage = "save", !.polls = @ \ {s},
                                      !.swap = s, !.status = server[s]]
  <2>2. s \in StoredSwaps
    BY <1>0, <2>1 DEF RoundType
  <2>3. new \in RoundType
    BY <1>0, <2>2 DEF RoundType, RoundStage
  <2>4. Held(new)
    BY <1>0, <2>2, <2>a DEF Held, RoundType
  <2>5. runner' = [runner EXCEPT ![r] = new]
    BY <2>1, Zenon
  <2>6. QueueTypes' /\ SwapTypes'
    BY <2>a DEF TaskTypes, QueueTypes, SwapTypes
  <2> HIDE DEF new
  <2> QED BY <1>0, <1>1, <2>3, <2>4, <2>5, <2>6, RoundChange DEF TaskTypes
<1>c. CASE PollFails(r)
  <2>1. PICK s \in runner[r].polls : runner' = [runner EXCEPT ![r].polls = @ \ {s}]
    BY <1>c DEF PollFails
  <2> DEFINE new == [runner[r] EXCEPT !.polls = @ \ {s}]
  <2>2. new \in RoundType
    BY <1>0 DEF RoundType
  <2>3. Held(new)
    BY <1>0, <1>c DEF PollFails, Held, At, RoundType
  <2>4. runner' = [runner EXCEPT ![r] = new]
    BY <2>1, Zenon
  <2>5. QueueTypes' /\ SwapTypes'
    BY <1>c, ExpoTasksAssumption DEF TaskTypes, PollFails, QueueTypes, SwapTypes, queue, swaps
  <2> HIDE DEF new
  <2> QED BY <1>0, <1>1, <2>2, <2>3, <2>4, <2>5, RoundChange DEF TaskTypes
<1>d. CASE SaveStatus(r)
  <2> DEFINE new == [runner[r] EXCEPT !.stage = "act"]
  <2>1. new \in RoundType
    BY <1>0 DEF RoundType, RoundStage
  <2>2. Held(new) /\ runner[r].swap \in StoredSwaps
    BY <1>0, <1>d DEF SaveStatus, Held, At, RoundType
  <2>3. runner' = [runner EXCEPT ![r] = new]
    BY <1>d, Zenon DEF SaveStatus, Goes
  <2>4. runner[r].loaded[runner[r].swap] \in SwapRecord /\ runner[r].status \in Status
    BY <1>0, <2>2 DEF RoundType
  <2>5. WithAnswer(r) \in SwapRecord
    BY <2>4 DEF WithAnswer, SwapRecord
  <2>6. QueueTypes' /\ SwapTypes'
    BY <1>0, <1>d, <2>2, <2>5 DEF TaskTypes, SaveStatus, QueueTypes, SwapTypes, queue, swaps
  <2> HIDE DEF new
  <2> QED BY <1>0, <1>1, <2>1, <2>2, <2>3, <2>6, RoundChange DEF TaskTypes
<1>e. CASE NothingToDo(r) \/ ClaimOrRefund(r) \/ RefundSkipped(r) \/ ActFails(r)
  <2> DEFINE new == [runner[r] EXCEPT !.stage = "poll", !.swap = NoSwap, !.status = "swap.created"]
  <2>1. new \in RoundType
    BY <1>0 DEF RoundType, RoundStage, Status
  <2>2. runner[r].stage = "act"
    BY <1>e DEF NothingToDo, ClaimOrRefund, RefundSkipped, ActFails, At
  <2>3. Held(new) /\ runner[r].swap \in StoredSwaps
    BY <1>0, <2>2 DEF Held, RoundType
  <2>4. runner' = [runner EXCEPT ![r] = new]
    BY <1>e, Zenon DEF NothingToDo, ClaimOrRefund, RefundSkipped, ActFails, Acted
  <2>5. runner[r].loaded[runner[r].swap] \in SwapRecord /\ runner[r].status \in Status
    BY <1>0, <2>3 DEF RoundType
  <2>6. \A st \in Status : [WithAnswer(r) EXCEPT !.status = st] \in SwapRecord
    BY <2>5 DEF WithAnswer, SwapRecord
  <2>7. \A b \in BOOLEAN : [WithAnswer(r) EXCEPT !.refunded = b] \in SwapRecord
    BY <2>5 DEF WithAnswer, SwapRecord
  <2>8. QueueTypes'
    BY <1>e, ExpoTasksAssumption DEF TaskTypes, NothingToDo, ClaimOrRefund, RefundSkipped, ActFails,
         QueueTypes, queue, swaps
  <2>9. SwapTypes'
    <3>1. CASE NothingToDo(r) \/ ActFails(r)
      BY <3>1 DEF TaskTypes, NothingToDo, ActFails, SwapTypes, swaps
    <3>2. CASE ClaimOrRefund(r)
      <4>1. "transaction.claimed" \in Status /\ server[runner[r].swap] \in Status
        BY <1>0, <2>3 DEF Status
      <4>2. PICK record \in SwapRecord : stored' = [stored EXCEPT ![runner[r].swap] = record]
        BY <2>6, <2>7, <3>2, <4>1 DEF ClaimOrRefund
      <4>3. /\ coin' = [coin EXCEPT ![runner[r].swap] = "spent"]
            /\ UNCHANGED <<server, kindOf>>
        BY <3>2, Zenon DEF ClaimOrRefund
      <4> QED BY <1>0, <2>3, <4>2, <4>3 DEF SwapTypes
    <3>3. CASE RefundSkipped(r)
      <4>1. NotFullyRefunded(r) \in SwapRecord
        BY <2>7 DEF NotFullyRefunded
      <4>2. /\ stored' = [stored EXCEPT ![runner[r].swap] = NotFullyRefunded(r)]
            /\ UNCHANGED <<server, coin, kindOf>>
        BY <3>3, Zenon DEF RefundSkipped
      <4> QED BY <1>0, <4>1, <4>2 DEF SwapTypes
    <3> QED BY <1>e, <3>1, <3>2, <3>3
  <2> HIDE DEF new
  <2> QED BY <1>0, <1>1, <2>1, <2>3, <2>4, <2>8, <2>9, RoundChange DEF TaskTypes
<1> QED BY <1>a, <1>b, <1>c, <1>d, <1>e

\* The steps that begin a round.
LEMMA BeginTypes ==
  ASSUME TaskTypes, AppOpens \/ PersistConfig \/ ForegroundPoll \/ Wake
  PROVE  TaskTypes'
<1>0. /\ App \in Runners /\ Background \in Runners /\ App # Background /\ RoundTypes
      /\ \A r \in Runners : runner[r] \in RoundType /\ Held(runner[r])
  BY ExpoTasksAssumption DEF Runners, TaskTypes, RoundTypes
<1>1. PICK r \in Runners, stage \in {"config", "seed", "tasks"} :
        /\ Goes(r, stage) /\ runner[r].stage \in {"idle", "config"}
        /\ \/ open'
           \/ open' = open /\ (r # App \/ runner[r].stage # "idle")
  <2>1. CASE AppOpens
    <3>1. ~open /\ open' = TRUE /\ Goes(App, "config")
      BY <2>1 DEF AppOpens
    <3>2. runner[App].stage = "idle"
      BY <1>0, <3>1 DEF RoundTypes
    <3>3. /\ open' /\ runner[App].stage \in {"idle", "config"}
          /\ "config" \in {"config", "seed", "tasks"}
      BY <3>1, <3>2
    <3> QED BY <1>0, <3>1, <3>3, Zenon
  <2>2. CASE PersistConfig
    BY <1>0, <2>2 DEF PersistConfig, At
  <2>3. CASE ForegroundPoll
    <3>1. open /\ open' = open /\ runner[App].stage = "idle"
      BY <2>3 DEF ForegroundPoll, At
    <3>2. Goes(App, "tasks") \/ Goes(App, "seed")
      BY <2>3, Zenon DEF ForegroundPoll
    <3>3. /\ open' /\ runner[App].stage \in {"idle", "config"}
          /\ "tasks" \in {"config", "seed", "tasks"} /\ "seed" \in {"config", "seed", "tasks"}
      BY <3>1
    <3> QED BY <1>0, <3>2, <3>3, Zenon
  <2>4. CASE Wake
    BY <1>0, <2>4 DEF Wake, At
  <2> QED BY <2>1, <2>2, <2>3, <2>4
<1> DEFINE new == [runner[r] EXCEPT !.stage = stage]
<1>2. new \in RoundType
  BY <1>0, <1>1 DEF RoundType, RoundStage
<1>3. Held(new)
  BY <1>0, <1>1 DEF RoundType, Held
<1>4. runner' = [runner EXCEPT ![r] = new]
  BY <1>1, Zenon DEF Goes
<1>5. QueueTypes' /\ SwapTypes'
  BY DEF AppOpens, PersistConfig, ForegroundPoll, Wake, TaskTypes, QueueTypes, SwapTypes, queue, swaps
<1> HIDE DEF new
<1> QED BY <1>0, <1>1, <1>2, <1>3, <1>4, <1>5, RoundChange DEF TaskTypes

\* Boltz, and the manager of the open app.
LEMMA OutsideTypes ==
  ASSUME TaskTypes, NEW s \in StoredSwaps, ServerMove(s) \/ ManagerSaves(s) \/ ManagerActs(s)
  PROVE  TaskTypes'
<1>1. /\ stored \in [StoredSwaps -> SwapRecord] /\ server \in [StoredSwaps -> Status]
      /\ coin \in [StoredSwaps -> {"locked", "spent"}] /\ kindOf[s] \in Kind
  BY ExpoTasksAssumption DEF TaskTypes, SwapTypes
<1>2. RoundTypes' /\ QueueTypes'
  BY DEF ServerMove, ManagerSaves, ManagerActs, TaskTypes, RoundTypes, QueueTypes, queue
<1>3. CASE ServerMove(s)
  BY <1>1, <1>2, <1>3, KindFacts DEF ServerMove, TaskTypes, SwapTypes
<1>4. CASE ManagerSaves(s)
  <2>1. stored' = [stored EXCEPT ![s] = [stored[s] EXCEPT !.status = server[s]]]
    BY <1>4, Zenon DEF ManagerSaves
  <2>2. [stored[s] EXCEPT !.status = server[s]] \in SwapRecord
    BY <1>1 DEF SwapRecord
  <2> QED BY <1>1, <1>2, <1>4, <2>1, <2>2 DEF ManagerSaves, TaskTypes, SwapTypes
<1>5. CASE ManagerActs(s)
  <2>1. stored' = [stored EXCEPT ![s] = [stored[s] EXCEPT !.refunded = kindOf[s] # "reverse"]]
    BY <1>5, Zenon DEF ManagerActs
  <2>2. [stored[s] EXCEPT !.refunded = kindOf[s] # "reverse"] \in SwapRecord
    BY <1>1 DEF SwapRecord
  <2> QED BY <1>1, <1>2, <1>5, <2>1, <2>2 DEF ManagerActs, TaskTypes, SwapTypes
<1> QED BY <1>3, <1>4, <1>5

LEMMA TaskTypesStep ==
  ASSUME TaskTypes, [TaskNext]_taskVars
  PROVE  TaskTypes'
<1>1. CASE UNCHANGED taskVars
  BY <1>1 DEF taskVars, queue, swaps, TaskTypes, RoundTypes, QueueTypes, SwapTypes
<1>2. ASSUME NEW r \in Runners,
             \/ GetTasks(r) \/ EndTasks(r) \/ ReadInbox(r) \/ RemoveTask(r) \/ Seed(r) \/ AddTask(r)
             \/ EndPolls(r) \/ Ends(r)
      PROVE  TaskTypes'
  <2>1. RoundTypes' /\ QueueTypes'
    BY <1>2, QueueStepTypes DEF TaskTypes
  <2>2. SwapTypes'
    BY <1>2 DEF GetTasks, EndTasks, ReadInbox, RemoveTask, Seed, AddTask, EndPolls, Ends,
                TaskTypes, SwapTypes, swaps
  <2> QED BY <2>1, <2>2 DEF TaskTypes
<1> QED BY <1>1, <1>2, PollStepTypes, BeginTypes, OutsideTypes DEF TaskNext, Step

\* The kind of a swap stays, and Boltz goes on along its lifecycle.
LEMMA KindsStay ==
  ASSUME [TaskNext]_taskVars
  PROVE  kindOf' = kindOf
BY Zenon DEF TaskNext, Step, taskVars, swaps, AppOpens, PersistConfig, ForegroundPoll, Wake,
       GetTasks, EndTasks, ReadInbox, RemoveTask, Seed, AddTask, EndPolls, Ends, Execute, PollSwap,
       SaveStatus, PollFails, NothingToDo, ClaimOrRefund, RefundSkipped, ActFails, ManagerSaves,
       ManagerActs, ServerMove

LEMMA ServerStep ==
  ASSUME TaskTypes, [TaskNext]_taskVars, NEW s \in StoredSwaps
  PROVE  \/ server'[s] = server[s]
         \/ /\ server'[s] \in ServerNext(kindOf[s], server[s])
            /\ NeedsClaim(kindOf[s], server'[s]) => coin[s] = "spent"
<1>0. server \in [StoredSwaps -> Status]
  BY DEF TaskTypes, SwapTypes
<1>1. CASE server' = server
  BY <1>1
<1>2. ASSUME NEW u \in StoredSwaps, ServerMove(u)
      PROVE  \/ server'[s] = server[s]
             \/ /\ server'[s] \in ServerNext(kindOf[s], server[s])
                /\ NeedsClaim(kindOf[s], server'[s]) => coin[s] = "spent"
  BY <1>0, <1>2 DEF ServerMove
<1>3. server' = server \/ \E u \in StoredSwaps : ServerMove(u)
  BY Zenon DEF TaskNext, Step, taskVars, swaps, AppOpens, PersistConfig, ForegroundPoll, Wake,
         GetTasks, EndTasks, ReadInbox, RemoveTask, Seed, AddTask, EndPolls, Ends, Execute, PollSwap,
         SaveStatus, PollFails, NothingToDo, ClaimOrRefund, RefundSkipped, ActFails, ManagerSaves,
         ManagerActs
<1> QED BY <1>1, <1>2, <1>3

\* What is true of a copy stays true, whatever Boltz reports and whoever spends.
LEMMA CopyStaysTrue ==
  ASSUME TaskInv, [TaskNext]_taskVars, NEW s \in StoredSwaps
  PROVE  /\ \A status : StatusTrue(s, status) =>
               /\ status \in FinalStatus(kindOf[s]) => server'[s] = status
               /\ status \in RefundableStatus(kindOf[s]) => server'[s] \in RefundableStatus(kindOf[s])
               /\ kindOf[s] = "reverse" /\ status \in ReverseClaimable =>
                    server'[s] \in ReverseClaimable \cup {"invoice.settled", "transaction.refunded"}
         /\ kindOf' = kindOf
         /\ coin[s] = "spent" => coin'[s] = "spent"
         /\ kindOf[s] = "reverse" /\ server'[s] = "invoice.settled" => coin'[s] = "spent"
<1>0. /\ kindOf[s] \in Kind /\ server[s] \in Status /\ server \in [StoredSwaps -> Status]
      /\ coin \in [StoredSwaps -> {"locked", "spent"}]
  BY ExpoTasksAssumption DEF TaskInv, TaskTypes, SwapTypes
<1>1. \/ server'[s] = server[s]
      \/ /\ server'[s] \in ServerNext(kindOf[s], server[s])
         /\ NeedsClaim(kindOf[s], server'[s]) => coin[s] = "spent"
  BY ServerStep DEF TaskInv
<1>2. coin[s] = "spent" => coin'[s] = "spent"
  <2>1. \/ coin' = coin
        \/ \E u \in StoredSwaps : ServerMove(u) \/ ManagerActs(u)
        \/ \E r \in Runners : ClaimOrRefund(r)
    BY Zenon DEF TaskNext, Step, taskVars, swaps, AppOpens, PersistConfig, ForegroundPoll, Wake,
           GetTasks, EndTasks, ReadInbox, RemoveTask, Seed, AddTask, EndPolls, Ends, Execute, PollSwap,
           SaveStatus, PollFails, NothingToDo, RefundSkipped, ActFails, ManagerSaves
  <2>2. ASSUME NEW u \in StoredSwaps, ServerMove(u) \/ ManagerActs(u)
        PROVE  coin' = coin \/ coin' = [coin EXCEPT ![u] = "spent"]
    BY <2>2 DEF ServerMove, ManagerActs
  <2>3. ASSUME NEW r \in Runners, ClaimOrRefund(r)
        PROVE  coin' = [coin EXCEPT ![runner[r].swap] = "spent"]
    BY <2>3, Zenon DEF ClaimOrRefund
  <2>4. coin' = coin \/ \E u : coin' = [coin EXCEPT ![u] = "spent"]
    BY <2>1, <2>2, <2>3
  <2> QED BY <1>0, <2>4
<1>3. kindOf[s] = "reverse" /\ server[s] \in ReverseClaimable \cup {"invoice.settled", "transaction.refunded"}
        => server'[s] \in ReverseClaimable \cup {"invoice.settled", "transaction.refunded"}
  BY <1>1 DEF ReverseClaimable, ServerNext
<1>4. kindOf[s] = "reverse" /\ server'[s] = "invoice.settled" => coin'[s] = "spent"
  BY <1>1, <1>2 DEF NeedsClaim, TaskInv, SettledIsSpent
<1> QED BY <1>0, <1>1, <1>2, <1>3, <1>4, KindsStay, KindFacts DEF StatusTrue

\* What a round holds that has loaded nothing is true of any swap.
LEMMA IdleIsTrue ==
  ASSUME NEW s \in StoredSwaps, kindOf[s] \in Kind
  PROVE  RecordTrue(s, Idle.loaded[s])
<1>1. Idle.loaded[s].status = "swap.created" /\ ~Idle.loaded[s].refunded
  BY DEF Idle
<1>2. "swap.created" \notin FinalStatus(kindOf[s]) \cup RefundableStatus(kindOf[s])
  <2>1. CASE kindOf[s] = "reverse"
    BY <2>1 DEF FinalStatus, RefundableStatus, ReverseFinal
  <2>2. CASE kindOf[s] = "submarine"
    BY <2>2 DEF FinalStatus, RefundableStatus, SubmarineFinal, SubmarineRefundable
  <2>3. CASE kindOf[s] \in {"chainToArk", "chainToBtc"}
    BY <2>3 DEF FinalStatus, RefundableStatus, ChainFinal, ChainRefundable
  <2> QED BY <2>1, <2>2, <2>3 DEF Kind
<1>3. "swap.created" \notin ReverseClaimable
  BY DEF ReverseClaimable
<1> QED BY <1>1, <1>2, <1>3 DEF RecordTrue, StatusTrue

LEMMA TaskInitInv == TaskInit => TaskInv
<1> SUFFICES ASSUME TaskInit PROVE TaskInv
  OBVIOUS
<1>1. Idle \in RoundType /\ Held(Idle)
  BY IdleRound
<1>2. \A r \in Runners : runner[r] = Idle
  BY DEF TaskInit
<1>3. \A s \in StoredSwaps :
        /\ kindOf[s] \in Kind /\ server[s] = CreatedStatus(kindOf[s])
        /\ stored[s] = [status |-> CreatedStatus(kindOf[s]), refunded |-> FALSE]
        /\ coin[s] = "locked"
  BY ExpoTasksAssumption DEF TaskInit
<1>4. TaskTypes
  <2>1. RoundTypes
    BY <1>1, <1>2 DEF TaskInit, RoundTypes, Runners, Idle
  <2>2. QueueTypes
    <3>1. troubles \in 0 .. MostTroubles
      BY ExpoTasksAssumption DEF TaskInit
    <3> QED BY <3>1, Zenon DEF TaskInit, QueueTypes
  <2>3. stored \in [StoredSwaps -> SwapRecord]
    BY <1>3, KindFacts DEF TaskInit, SwapRecord
  <2>4. server \in [StoredSwaps -> Status]
    BY <1>3, KindFacts DEF TaskInit
  <2> QED BY <2>1, <2>2, <2>3, <2>4 DEF TaskTypes, SwapTypes, TaskInit
<1>5. ASSUME NEW s \in StoredSwaps
      PROVE  RecordTrue(s, stored[s]) /\ (kindOf[s] = "reverse" => server[s] # "invoice.settled")
  <2>2. kindOf[s] = "reverse" => CreatedStatus(kindOf[s]) = "swap.created"
    BY DEF CreatedStatus
  <2>a. stored[s] = [status |-> CreatedStatus(kindOf[s]), refunded |-> FALSE]
    BY <1>3, Zenon
  <2>3. stored[s].status = CreatedStatus(kindOf[s]) /\ ~stored[s].refunded
    BY <2>a
  <2>4. CreatedStatus(kindOf[s]) \notin FinalStatus(kindOf[s]) \cup RefundableStatus(kindOf[s])
    BY <1>3, KindFacts
  <2>5. kindOf[s] = "reverse" => CreatedStatus(kindOf[s]) \notin ReverseClaimable
    BY <2>2 DEF ReverseClaimable
  <2> QED BY <1>3, <2>2, <2>3, <2>4, <2>5 DEF RecordTrue, StatusTrue
<1>6. \A r \in Runners : runner[r].stage = "idle" /\ runner[r].loaded = Idle.loaded
  <2>1. Idle.stage = "idle"
    BY DEF Idle
  <2> QED BY <1>2, <2>1
<1>7. CopiesTrue
  BY <1>3, <1>5, <1>6, IdleIsTrue DEF CopiesTrue
<1>8. SpentInTime
  BY <1>3 DEF SpentInTime
<1> QED BY <1>4, <1>5, <1>7, <1>8 DEF TaskInv, SettledIsSpent

\* A step that stores nothing.
LEMMA StoredStaysTrue ==
  ASSUME TaskInv, [TaskNext]_taskVars, stored' = stored
  PROVE  \A s \in StoredSwaps : RecordTrue(s, stored[s])'
<1> SUFFICES ASSUME NEW s \in StoredSwaps PROVE RecordTrue(s, stored[s])'
  OBVIOUS
<1>1. RecordTrue(s, stored[s])
  BY DEF TaskInv, CopiesTrue
<1> QED BY <1>1, CopyStaysTrue DEF RecordTrue, StatusTrue

\* What the rounds have loaded, in a step that changes one of them.
LEMMA LoadedStaysTrue ==
  ASSUME TaskInv, [TaskNext]_taskVars, TaskTypes', NEW r \in Runners, NEW new,
         runner' = [runner EXCEPT ![r] = new],
         new.loaded \in {runner[r].loaded, stored, Idle.loaded}
  PROVE  \A q \in Runners, s \in StoredSwaps : RecordTrue(s, runner[q].loaded[s])'
<1> SUFFICES ASSUME NEW q \in Runners, NEW s \in StoredSwaps
             PROVE  RecordTrue(s, runner[q].loaded[s])'
  OBVIOUS
<1>1. runner'[q].loaded \in {runner[q].loaded, stored, Idle.loaded}
  BY DEF TaskInv, TaskTypes, RoundTypes
<1>2. RecordTrue(s, runner[q].loaded[s]) /\ RecordTrue(s, stored[s])
  BY DEF TaskInv, CopiesTrue
<1>3. RecordTrue(s, Idle.loaded[s])
  BY IdleIsTrue, ExpoTasksAssumption DEF TaskInv, TaskTypes, SwapTypes
<1>4. RecordTrue(s, runner'[q].loaded[s])
  BY <1>1, <1>2, <1>3
<1> QED BY <1>4, CopyStaysTrue DEF RecordTrue, StatusTrue

\* What the rounds are about to save.
LEMMA AnswersStayTrue ==
  ASSUME TaskInv, [TaskNext]_taskVars, TaskTypes', NEW r \in Runners, NEW new,
         runner' = [runner EXCEPT ![r] = new],
         new.stage \in {"save", "act"} => StatusTrue(new.swap, new.status)
  PROVE  \A q \in Runners : runner'[q].stage \in {"save", "act"} =>
                               StatusTrue(runner[q].swap, runner[q].status)'
<1> SUFFICES ASSUME NEW q \in Runners, runner'[q].stage \in {"save", "act"}
             PROVE  StatusTrue(runner[q].swap, runner[q].status)'
  OBVIOUS
<1>1. StatusTrue(runner'[q].swap, runner'[q].status)
  <2>1. q # r => runner'[q] = runner[q]
    BY DEF TaskInv, TaskTypes, RoundTypes
  <2>2. runner'[r] = new
    BY DEF TaskInv, TaskTypes, RoundTypes
  <2> QED BY <2>1, <2>2 DEF TaskInv, CopiesTrue
<1>2. runner'[q].swap \in StoredSwaps
  BY DEF TaskTypes, RoundTypes, Held
<1> QED BY <1>1, <1>2, CopyStaysTrue DEF StatusTrue

\* A step that changes one round at most.
LEMMA CopiesStep ==
  ASSUME TaskInv, [TaskNext]_taskVars, TaskTypes', NEW r \in Runners, NEW new,
         runner' = [runner EXCEPT ![r] = new],
         new.loaded \in {runner[r].loaded, stored, Idle.loaded},
         new.stage \in {"save", "act"} => StatusTrue(new.swap, new.status),
         \A s \in StoredSwaps : RecordTrue(s, stored[s])'
  PROVE  CopiesTrue'
<1>1. \A q \in Runners, s \in StoredSwaps : RecordTrue(s, runner[q].loaded[s])'
  BY LoadedStaysTrue
<1>2. \A q \in Runners : runner'[q].stage \in {"save", "act"} =>
                            StatusTrue(runner[q].swap, runner[q].status)'
  BY AnswersStayTrue
<1> QED BY <1>1, <1>2 DEF CopiesTrue

\* A round changes one runner; what it saves is true.
LEMMA PollStepTrue ==
  ASSUME TaskInv, [TaskNext]_taskVars, TaskTypes', NEW r \in Runners,
         \/ Execute(r) \/ PollSwap(r) \/ SaveStatus(r) \/ PollFails(r)
         \/ NothingToDo(r) \/ ClaimOrRefund(r) \/ RefundSkipped(r) \/ ActFails(r)
  PROVE  CopiesTrue'
<1>0. runner[r] \in RoundType /\ Held(runner[r])
  BY DEF TaskInv, TaskTypes, RoundTypes
<1>a. runner[r].stage \in {"save", "act"} =>
        /\ runner[r].swap \in StoredSwaps
        /\ StatusTrue(runner[r].swap, runner[r].status)
        /\ RecordTrue(runner[r].swap, runner[r].loaded[runner[r].swap])
  BY <1>0 DEF TaskInv, CopiesTrue, Held
<1>b. stored \in [StoredSwaps -> SwapRecord]
  BY DEF TaskInv, TaskTypes, SwapTypes
<1>1. CASE Execute(r)
  <2>1. PICK t \in runner[r].todo :
          runner' = [runner EXCEPT ![r].stage = "poll", ![r].task = t, ![r].loaded = stored,
                                   ![r].polls = {s \in StoredSwaps : Pollable(s)}]
    BY <1>1, Zenon DEF Execute
  <2> DEFINE pending == {s \in StoredSwaps : Pollable(s)}
             new == [runner[r] EXCEPT !.stage = "poll", !.task = t, !.loaded = stored,
                                      !.polls = pending]
  <2> HIDE DEF pending
  <2>2. new.loaded = stored /\ new.stage = "poll"
    BY <1>0 DEF RoundType
  <2>3. runner' = [runner EXCEPT ![r] = new]
    BY <2>1, Zenon DEF pending
  <2>4. stored' = stored
    BY <1>1, Zenon DEF Execute, swaps
  <2> HIDE DEF new
  <2> QED BY <2>2, <2>3, <2>4, StoredStaysTrue, CopiesStep
<1>2. CASE PollSwap(r)
  <2>1. PICK s \in runner[r].polls :
          runner' = [runner EXCEPT ![r].stage = "save", ![r].polls = @ \ {s},
                                   ![r].swap = s, ![r].status = server[s]]
    BY <1>2, Zenon DEF PollSwap
  <2> DEFINE new == [runner[r] EXCEPT !.stage = "save", !.polls = @ \ {s},
                                      !.swap = s, !.status = server[s]]
  <2>2. new.loaded = runner[r].loaded /\ new.swap = s /\ new.status = server[s]
    BY <1>0 DEF RoundType
  <2>3. runner' = [runner EXCEPT ![r] = new]
    BY <2>1, Zenon
  <2>4. stored' = stored
    BY <1>2, Zenon DEF PollSwap, swaps
  <2>5. StatusTrue(s, server[s])
    BY DEF StatusTrue
  <2> HIDE DEF new
  <2> QED BY <2>2, <2>3, <2>4, <2>5, StoredStaysTrue, CopiesStep
<1>3. CASE PollFails(r)
  <2>1. PICK s \in runner[r].polls : runner' = [runner EXCEPT ![r].polls = @ \ {s}]
    BY <1>3, Zenon DEF PollFails
  <2> DEFINE new == [runner[r] EXCEPT !.polls = @ \ {s}]
  <2>2. new.loaded = runner[r].loaded /\ new.stage = runner[r].stage
    BY <1>0 DEF RoundType
  <2>3. runner' = [runner EXCEPT ![r] = new]
    BY <2>1, Zenon
  <2>4. stored' = stored /\ runner[r].stage = "poll"
    BY <1>3, Zenon DEF PollFails, swaps, At
  <2> HIDE DEF new
  <2> QED BY <2>2, <2>3, <2>4, StoredStaysTrue, CopiesStep
<1>4. CASE SaveStatus(r)
  <2> DEFINE new == [runner[r] EXCEPT !.stage = "act"]
  <2>1. /\ new.loaded = runner[r].loaded /\ new.swap = runner[r].swap
        /\ new.status = runner[r].status
    BY <1>0 DEF RoundType
  <2>2. runner' = [runner EXCEPT ![r] = new]
    BY <1>4, Zenon DEF SaveStatus, Goes
  <2>3. runner[r].stage = "save" /\ stored' \in {stored, [stored EXCEPT ![runner[r].swap] = WithAnswer(r)]}
    BY <1>4 DEF SaveStatus, At
  <2>4. RecordTrue(runner[r].swap, WithAnswer(r))
    <3>1. runner[r].loaded[runner[r].swap] \in SwapRecord
      BY <1>0, <1>a, <2>3 DEF RoundType
    <3>2. /\ WithAnswer(r).status = runner[r].status
          /\ WithAnswer(r).refunded = runner[r].loaded[runner[r].swap].refunded
      BY <3>1 DEF WithAnswer, SwapRecord
    <3> QED BY <1>a, <2>3, <3>2 DEF RecordTrue
  <2>5. \A s \in StoredSwaps : RecordTrue(s, stored'[s])
    BY <1>a, <1>b, <2>3, <2>4 DEF TaskInv, CopiesTrue
  <2>6. \A s \in StoredSwaps : RecordTrue(s, stored[s])'
    BY <2>5, CopyStaysTrue DEF RecordTrue, StatusTrue
  <2> HIDE DEF new
  <2> QED BY <1>a, <2>1, <2>2, <2>3, <2>6, CopiesStep
<1>5. CASE NothingToDo(r) \/ ClaimOrRefund(r) \/ RefundSkipped(r) \/ ActFails(r)
  <2> DEFINE new == [runner[r] EXCEPT !.stage = "poll", !.swap = NoSwap, !.status = "swap.created"]
  <2>1. new.loaded = runner[r].loaded /\ new.stage = "poll"
    BY <1>0 DEF RoundType
  <2>2. runner' = [runner EXCEPT ![r] = new]
    BY <1>5, Zenon DEF NothingToDo, ClaimOrRefund, RefundSkipped, ActFails, Acted
  <2>3. \A s \in StoredSwaps : RecordTrue(s, stored[s])'
    <3>1. CASE NothingToDo(r) \/ ActFails(r)
      <4>1. stored' = stored
        BY <3>1, Zenon DEF NothingToDo, ActFails, swaps
      <4> QED BY <4>1, StoredStaysTrue
    <3>2. CASE ClaimOrRefund(r)
      <4> DEFINE s == runner[r].swap
      <4>1. runner[r].stage = "act"
        BY <3>2 DEF ClaimOrRefund, At
      <4>2. s \in StoredSwaps /\ coin' = [coin EXCEPT ![s] = "spent"]
        BY <1>a, <3>2, <4>1 DEF ClaimOrRefund
      <4>3. coin'[s] = "spent"
        BY <4>2 DEF TaskInv, TaskTypes, SwapTypes
      <4>4. runner[r].loaded[s] \in SwapRecord /\ runner[r].status \in Status
        BY <1>0, <4>2 DEF RoundType
      <4>5. WithAnswer(r) \in SwapRecord /\ WithAnswer(r).status = runner[r].status
        BY <4>4 DEF WithAnswer, SwapRecord
      <4>6. PICK record :
              /\ stored' = [stored EXCEPT ![s] = record]
              /\ StatusTrue(s, record.status)
        <5>1. CASE kindOf[s] = "reverse"
          <6>1. PICK st \in {server[s], "transaction.claimed"} :
                  stored' = [stored EXCEPT ![s] = [WithAnswer(r) EXCEPT !.status = st]]
            BY <3>2, <5>1 DEF ClaimOrRefund
          <6>2. [WithAnswer(r) EXCEPT !.status = st].status = st
            BY <4>5 DEF SwapRecord
          <6>3. StatusTrue(s, st)
            BY <5>1 DEF StatusTrue, FinalStatus, RefundableStatus, ReverseFinal, ReverseClaimable
          <6> QED BY <6>1, <6>2, <6>3
        <5>2. CASE kindOf[s] # "reverse"
          <6>1. stored' = [stored EXCEPT ![s] = [WithAnswer(r) EXCEPT !.refunded = TRUE]]
            BY <3>2, <5>2 DEF ClaimOrRefund
          <6>2. [WithAnswer(r) EXCEPT !.refunded = TRUE].status = runner[r].status
            BY <4>5 DEF SwapRecord
          <6>3. StatusTrue(s, runner[r].status)
            BY <1>a, <4>1
          <6> QED BY <6>1, <6>2, <6>3
        <5> QED BY <5>1, <5>2
      <4>7. \A u \in StoredSwaps : u # s => stored'[u] = stored[u]
        BY <1>b, <4>6
      <4>8. stored'[s] = record
        BY <1>b, <4>2, <4>6
      <4>9. \A u \in StoredSwaps : StatusTrue(u, stored'[u].status) /\ (u # s => RecordTrue(u, stored'[u]))
        BY <4>6, <4>7, <4>8 DEF TaskInv, CopiesTrue, RecordTrue
      <4> HIDE DEF s
      <4> SUFFICES ASSUME NEW u \in StoredSwaps PROVE RecordTrue(u, stored[u])'
        OBVIOUS
      <4>10. StatusTrue(u, stored[u].status)'
        BY <4>9, CopyStaysTrue DEF StatusTrue
      <4>11. stored'[u].refunded => coin'[u] = "spent"
        BY <4>3, <4>9, CopyStaysTrue DEF RecordTrue
      <4> QED BY <4>10, <4>11 DEF RecordTrue
    <3>3. CASE RefundSkipped(r)
      <4>1. runner[r].stage = "act" /\ stored' = [stored EXCEPT ![runner[r].swap] = NotFullyRefunded(r)]
        BY <3>3, Zenon DEF RefundSkipped, At
      <4>2. runner[r].swap \in StoredSwaps /\ StatusTrue(runner[r].swap, runner[r].status)
        BY <1>a, <4>1
      <4>3. runner[r].loaded[runner[r].swap] \in SwapRecord /\ runner[r].status \in Status
        BY <1>0, <4>2 DEF RoundType
      <4>4. WithAnswer(r) \in SwapRecord /\ WithAnswer(r).status = runner[r].status
        BY <4>3 DEF WithAnswer, SwapRecord
      <4>5. NotFullyRefunded(r).status = runner[r].status /\ ~NotFullyRefunded(r).refunded
        BY <4>4 DEF NotFullyRefunded, SwapRecord
      <4>6. RecordTrue(runner[r].swap, NotFullyRefunded(r))
        BY <4>2, <4>5 DEF RecordTrue
      <4>7. \A s \in StoredSwaps : RecordTrue(s, stored'[s])
        BY <1>b, <4>1, <4>6 DEF TaskInv, CopiesTrue
      <4> QED BY <4>7, CopyStaysTrue DEF RecordTrue, StatusTrue
    <3> QED BY <1>5, <3>1, <3>2, <3>3
  <2> HIDE DEF new
  <2> QED BY <2>1, <2>2, <2>3, CopiesStep
<1> QED BY <1>1, <1>2, <1>3, <1>4, <1>5

\* The other awaits of a round touch no record.
LEMMA QueueStepTrue ==
  ASSUME TaskInv, [TaskNext]_taskVars, TaskTypes', NEW r \in Runners,
         \/ GetTasks(r) \/ EndTasks(r) \/ ReadInbox(r) \/ RemoveTask(r) \/ Seed(r) \/ AddTask(r)
         \/ EndPolls(r) \/ Ends(r)
  PROVE  CopiesTrue'
<1>1. \A s \in StoredSwaps : RecordTrue(s, stored[s])'
  <2>1. stored' = stored
    BY Zenon DEF GetTasks, EndTasks, ReadInbox, RemoveTask, Seed, AddTask, EndPolls, Ends, swaps
  <2> QED BY <2>1, StoredStaysTrue
<1>2. runner[r] \in RoundType
  BY DEF TaskInv, TaskTypes, RoundTypes
<1>3. CASE AddTask(r) \/ Ends(r)
  <2>1. runner' = [runner EXCEPT ![r] = Idle]
    BY <1>3, Zenon DEF AddTask, Ends
  <2>2. Idle.stage = "idle"
    BY DEF Idle
  <2> QED BY <1>1, <2>1, <2>2, CopiesStep
<1>4. CASE EndPolls(r)
  <2> DEFINE new == [runner[r] EXCEPT !.stage = "remove", !.loaded = Idle.loaded]
  <2>1. new.loaded = Idle.loaded /\ new.stage = "remove"
    BY <1>2 DEF RoundType
  <2>2. runner' = [runner EXCEPT ![r] = new]
    BY <1>4, Zenon DEF EndPolls
  <2> HIDE DEF new
  <2> QED BY <1>1, <2>1, <2>2, CopiesStep
<1>5. CASE GetTasks(r) \/ EndTasks(r) \/ ReadInbox(r) \/ RemoveTask(r) \/ Seed(r)
  <2>1. PICK new :
          /\ runner' = [runner EXCEPT ![r] = new]
          /\ new.loaded = runner[r].loaded /\ new.stage \notin {"save", "act"}
    <3>1. CASE GetTasks(r)
      <4> DEFINE new == [runner[r] EXCEPT !.stage = "loop", !.todo = inbox]
      <4>1. runner' = [runner EXCEPT ![r] = new]
        BY <3>1, Zenon DEF GetTasks
      <4>2. new.loaded = runner[r].loaded /\ new.stage \notin {"save", "act"}
        BY <1>2 DEF RoundType
      <4> HIDE DEF new
      <4> QED BY <4>1, <4>2
    <3>2. CASE EndTasks(r)
      <4> DEFINE new == [runner[r] EXCEPT !.stage = "seed"]
      <4>1. runner' = [runner EXCEPT ![r] = new]
        BY <3>2, Zenon DEF EndTasks, Goes
      <4>2. new.loaded = runner[r].loaded /\ new.stage \notin {"save", "act"}
        BY <1>2 DEF RoundType
      <4> HIDE DEF new
      <4> QED BY <4>1, <4>2
    <3>3. CASE ReadInbox(r) /\ At(r, "remove")
      <4> DEFINE new == [runner[r] EXCEPT !.stage = "removeW", !.list = inbox]
      <4>1. runner' = [runner EXCEPT ![r] = new]
        BY <3>3, Zenon DEF ReadInbox, At
      <4>2. new.loaded = runner[r].loaded /\ new.stage \notin {"save", "act"}
        BY <1>2 DEF RoundType
      <4> HIDE DEF new
      <4> QED BY <4>1, <4>2
    <3>4. CASE ReadInbox(r) /\ At(r, "add")
      <4> DEFINE new == [runner[r] EXCEPT !.stage = "addW", !.list = inbox]
      <4>1. runner' = [runner EXCEPT ![r] = new]
        BY <3>4, Zenon DEF ReadInbox, At
      <4>2. new.loaded = runner[r].loaded /\ new.stage \notin {"save", "act"}
        BY <1>2 DEF RoundType
      <4> HIDE DEF new
      <4> QED BY <4>1, <4>2
    <3>5. CASE RemoveTask(r)
      <4> DEFINE new == [runner[r] EXCEPT !.stage = "loop", !.list = {}, !.task = NoTask,
                                      !.todo = @ \ {runner[r].task}]
      <4>1. runner' = [runner EXCEPT ![r] = new]
        BY <3>5, Zenon DEF RemoveTask
      <4>2. new.loaded = runner[r].loaded /\ new.stage \notin {"save", "act"}
        BY <1>2 DEF RoundType
      <4> HIDE DEF new
      <4> QED BY <4>1, <4>2
    <3>6. CASE Seed(r) /\ NeedsSeed
      <4> DEFINE new == [runner[r] EXCEPT !.stage = "add"]
      <4>1. runner' = [runner EXCEPT ![r] = new]
        BY <3>6, Zenon DEF Seed, Goes
      <4>2. new.loaded = runner[r].loaded /\ new.stage \notin {"save", "act"}
        BY <1>2 DEF RoundType
      <4> HIDE DEF new
      <4> QED BY <4>1, <4>2
    <3>7. CASE Seed(r) /\ ~NeedsSeed
      <4> DEFINE new == [runner[r] EXCEPT !.stage = "idle"]
      <4>1. runner' = [runner EXCEPT ![r] = new]
        BY <3>7, Zenon DEF Seed, Goes
      <4>2. new.loaded = runner[r].loaded /\ new.stage \notin {"save", "act"}
        BY <1>2 DEF RoundType
      <4> HIDE DEF new
      <4> QED BY <4>1, <4>2
    <3> QED BY <1>5, <3>1, <3>2, <3>3, <3>4, <3>5, <3>6, <3>7, Zenon DEF ReadInbox, Seed
  <2> QED BY <1>1, <2>1, CopiesStep
<1> QED BY <1>3, <1>4, <1>5

\* A status that was true when it was read, and decides on an action, is in time.
LEMMA ActingIsInTime ==
  ASSUME NEW s \in StoredSwaps, kindOf[s] \in Kind, NEW status, StatusTrue(s, status),
         status \in ClaimableStatus(kindOf[s]) \cup RefundableStatus(kindOf[s])
  PROVE  /\ kindOf[s] = "submarine" => server[s] \in SubmarineRefundable
         /\ kindOf[s] = "reverse" => server[s] \in ReverseClaimable \cup
                                                  {"invoice.settled", "transaction.refunded"}
<1>1. CASE kindOf[s] = "reverse"
  <2>1. ClaimableStatus(kindOf[s]) = ReverseClaimable /\ RefundableStatus(kindOf[s]) = {}
    BY <1>1 DEF ClaimableStatus, RefundableStatus
  <2> QED BY <1>1, <2>1 DEF StatusTrue
<1>2. CASE kindOf[s] = "submarine"
  <2>1. ClaimableStatus(kindOf[s]) = {} /\ RefundableStatus(kindOf[s]) = SubmarineRefundable
    BY <1>2 DEF ClaimableStatus, RefundableStatus
  <2> QED BY <1>2, <2>1 DEF StatusTrue
<1> QED BY <1>1, <1>2

\* Coins move by Boltz, which takes a lockup, by a refund after Boltz has given
\* the payment up, or by a claim after Boltz has locked them, although what a
\* round decides on was read some awaits before.
LEMMA SpendsStayInTime ==
  ASSUME TaskInv, [TaskNext]_taskVars
  PROVE  SpentInTime'
<1> DEFINE InTime(s) ==
  /\ kindOf[s] = "submarine" => server'[s] \in SubmarineRefundable \cup {"transaction.claimed"}
  /\ kindOf[s] = "reverse" => server'[s] \in ReverseClaimable \cup
                                            {"invoice.settled", "transaction.refunded"}
<1> SUFFICES ASSUME NEW s \in StoredSwaps, coin'[s] = "spent" PROVE InTime(s)
  BY KindsStay DEF SpentInTime
<1>0. /\ coin \in [StoredSwaps -> {"locked", "spent"}] /\ server \in [StoredSwaps -> Status]
      /\ kindOf[s] \in Kind
  BY ExpoTasksAssumption DEF TaskInv, TaskTypes, SwapTypes
<1>1. CASE coin[s] = "spent"
  <2>1. server'[s] = server[s] \/ server'[s] \in ServerNext(kindOf[s], server[s])
    BY ServerStep DEF TaskInv
  <2>2. CASE kindOf[s] = "submarine"
    <3>1. server[s] \in SubmarineRefundable \cup {"transaction.claimed"}
      BY <1>1, <2>2 DEF TaskInv, SpentInTime
    <3> QED BY <2>1, <2>2, <3>1 DEF SubmarineRefundable, ServerNext
  <2>3. CASE kindOf[s] = "reverse"
    <3>1. server[s] \in ReverseClaimable \cup {"invoice.settled", "transaction.refunded"}
      BY <1>1, <2>3 DEF TaskInv, SpentInTime
    <3> QED BY <2>1, <2>3, <3>1 DEF ReverseClaimable, ServerNext
  <2> QED BY <2>2, <2>3
<1>2. CASE coin[s] = "locked"
  <2>1. \/ \E u \in StoredSwaps : ServerMove(u) \/ ManagerActs(u)
        \/ \E r \in Runners : ClaimOrRefund(r)
    <3>1. coin' # coin
      BY <1>2
    <3> QED BY <3>1, Zenon DEF TaskNext, Step, taskVars, swaps, AppOpens, PersistConfig, ForegroundPoll, Wake,
           GetTasks, EndTasks, ReadInbox, RemoveTask, Seed, AddTask, EndPolls, Ends, Execute, PollSwap,
           SaveStatus, PollFails, NothingToDo, RefundSkipped, ActFails, ManagerSaves
  <2>2. ASSUME NEW u \in StoredSwaps, ServerMove(u) PROVE InTime(s)
    <3>1. PICK st \in ServerNext(kindOf[u], server[u]) :
            /\ server' = [server EXCEPT ![u] = st]
            /\ coin' = IF TakesLockup(kindOf[u], st) THEN [coin EXCEPT ![u] = "spent"] ELSE coin
      BY <2>2 DEF ServerMove
    <3>2. u = s /\ TakesLockup(kindOf[u], st)
      BY <1>0, <1>2, <3>1
    <3>3. server'[s] = st
      BY <1>0, <3>1, <3>2
    <3> QED BY <3>2, <3>3 DEF TakesLockup
  <2>3. ASSUME NEW u \in StoredSwaps, ManagerActs(u) PROVE InTime(s)
    <3>1. /\ coin' = [coin EXCEPT ![u] = "spent"] /\ server' = server
          /\ stored[u].status \in ClaimableStatus(kindOf[u]) \cup RefundableStatus(kindOf[u])
      BY <2>3, Zenon DEF ManagerActs
    <3>2. u = s
      BY <1>0, <1>2, <3>1
    <3>3. StatusTrue(s, stored[s].status)
      BY DEF TaskInv, CopiesTrue, RecordTrue
    <3> QED BY <1>0, <3>1, <3>2, <3>3, ActingIsInTime
  <2>4. ASSUME NEW r \in Runners, ClaimOrRefund(r) PROVE InTime(s)
    <3>1. /\ runner[r].stage = "act" /\ ShouldAct(r) /\ server' = server
          /\ coin' = [coin EXCEPT ![runner[r].swap] = "spent"]
      BY <2>4, Zenon DEF ClaimOrRefund, At
    <3>2. runner[r].swap = s
      BY <1>0, <1>2, <3>1
    <3>3. StatusTrue(s, runner[r].status)
      BY <3>1, <3>2 DEF TaskInv, CopiesTrue
    <3>4. runner[r].status \in ClaimableStatus(kindOf[s]) \cup RefundableStatus(kindOf[s])
      BY <3>1, <3>2 DEF ShouldAct
    <3> QED BY <1>0, <3>1, <3>3, <3>4, ActingIsInTime
  <2> QED BY <2>1, <2>2, <2>3, <2>4
<1> QED BY <1>0, <1>1, <1>2

LEMMA TaskStepInv == TaskInv /\ [TaskNext]_taskVars => TaskInv'
<1> SUFFICES ASSUME TaskInv, [TaskNext]_taskVars PROVE TaskInv'
  OBVIOUS
<1>1. TaskTypes'
  BY TaskTypesStep DEF TaskInv
<1>2. SettledIsSpent'
  BY CopyStaysTrue DEF SettledIsSpent
<1>3. ASSUME UNCHANGED runner, \A s \in StoredSwaps : RecordTrue(s, stored[s])'
      PROVE  CopiesTrue'
  <2> DEFINE new == runner[App]
  <2>1. runner' = [runner EXCEPT ![App] = new] /\ App \in Runners
    BY <1>3 DEF Runners, TaskInv, TaskTypes, RoundTypes
  <2>2. /\ new.stage \in {"save", "act"} => StatusTrue(new.swap, new.status)
        /\ new.loaded = runner[App].loaded
    BY <2>1 DEF TaskInv, CopiesTrue
  <2> HIDE DEF new
  <2> QED BY <1>1, <1>3, <2>1, <2>2, CopiesStep
<1>4. ASSUME UNCHANGED taskVars PROVE CopiesTrue'
  BY <1>3, <1>4, StoredStaysTrue DEF taskVars, swaps
<1>5. ASSUME AppOpens \/ PersistConfig \/ ForegroundPoll \/ Wake PROVE CopiesTrue'
  <2>1. PICK r \in Runners, stage \in {"config", "seed", "tasks"} : Goes(r, stage)
    BY <1>5, Zenon DEF AppOpens, PersistConfig, ForegroundPoll, Wake, Runners
  <2> DEFINE new == [runner[r] EXCEPT !.stage = stage]
  <2>2. runner' = [runner EXCEPT ![r] = new]
    BY <2>1, Zenon DEF Goes
  <2>3. new.loaded = runner[r].loaded /\ new.stage = stage
    BY DEF TaskInv, TaskTypes, RoundTypes, RoundType
  <2>4. stored' = stored
    BY <1>5, Zenon DEF AppOpens, PersistConfig, ForegroundPoll, Wake, swaps
  <2> HIDE DEF new
  <2> QED BY <1>1, <2>1, <2>2, <2>3, <2>4, StoredStaysTrue, CopiesStep
<1>6. ASSUME NEW s \in StoredSwaps, ServerMove(s)
      PROVE  CopiesTrue'
  BY <1>3, <1>6, StoredStaysTrue DEF ServerMove
<1>7. ASSUME NEW s \in StoredSwaps, ManagerSaves(s) \/ ManagerActs(s)
      PROVE  CopiesTrue'
  <2>0. stored \in [StoredSwaps -> SwapRecord] /\ coin \in [StoredSwaps -> {"locked", "spent"}]
    BY DEF TaskInv, TaskTypes, SwapTypes
  <2>1. /\ \A u \in StoredSwaps : u # s => stored'[u] = stored[u]
        /\ stored'[s].status \in {stored[s].status, server[s]}
        /\ stored'[s].refunded => coin'[s] = "spent"
    <3>1. CASE ManagerSaves(s)
      <4>1. stored' = [stored EXCEPT ![s] = [stored[s] EXCEPT !.status = server[s]]] /\ coin' = coin
        BY <3>1, Zenon DEF ManagerSaves
      <4>2. stored[s] \in SwapRecord /\ (stored[s].refunded => coin[s] = "spent")
        BY <2>0 DEF TaskInv, CopiesTrue, RecordTrue
      <4> QED BY <2>0, <4>1, <4>2 DEF SwapRecord
    <3>2. CASE ManagerActs(s)
      <4>1. /\ stored' = [stored EXCEPT ![s] = [stored[s] EXCEPT !.refunded = kindOf[s] # "reverse"]]
            /\ coin' = [coin EXCEPT ![s] = "spent"]
        BY <3>2, Zenon DEF ManagerActs
      <4>2. stored[s] \in SwapRecord
        BY <2>0
      <4> QED BY <2>0, <4>1, <4>2 DEF SwapRecord
    <3> QED BY <1>7, <3>1, <3>2
  <2>2. \A u \in StoredSwaps : StatusTrue(u, stored'[u].status) /\ (u # s => RecordTrue(u, stored'[u]))
    <3>1. StatusTrue(s, server[s])
      BY DEF StatusTrue
    <3> QED BY <2>1, <3>1 DEF TaskInv, CopiesTrue, RecordTrue
  <2>3. ASSUME NEW u \in StoredSwaps PROVE RecordTrue(u, stored[u])'
    <3>1. StatusTrue(u, stored[u].status)'
      BY <2>2, CopyStaysTrue DEF StatusTrue
    <3>2. stored'[u].refunded => coin'[u] = "spent"
      BY <2>1, <2>2, CopyStaysTrue DEF RecordTrue
    <3> QED BY <3>1, <3>2 DEF RecordTrue
  <2>4. UNCHANGED runner
    BY <1>7, Zenon DEF ManagerSaves, ManagerActs
  <2> QED BY <1>3, <2>3, <2>4
<1>8. CopiesTrue'
  BY <1>1, <1>4, <1>5, <1>6, <1>7, PollStepTrue, QueueStepTrue DEF TaskNext, Step
<1> QED BY <1>1, <1>2, <1>8, SpendsStayInTime DEF TaskInv

\* Every state of the rounds, the queue and the swaps is typed.
THEOREM ExpoTaskTypes == TaskSpec => []TaskTypeOK
<1>1. TaskInv => TaskTypeOK
  BY IdleIsEmpty DEF TaskInv, TaskTypes, RoundTypes, QueueTypes, SwapTypes, TaskTypeOK, At
<1> QED BY <1>1, TaskInitInv, TaskStepInv, PTL DEF TaskSpec

\* What makes a round pass a swap by, a final status or the mark of a refund, is
\* right, and coins have been spent only when it was time, although records loaded
\* long ago are written back and acted on.
THEOREM DoneOnExpoIsRight == TaskSpec => []DoneIsRight
<1>1. TaskInv => DoneIsRight
  BY DEF TaskInv, CopiesTrue, RecordTrue, StatusTrue, SpentInTime, DoneIsRight
<1> QED BY <1>1, TaskInitInv, TaskStepInv, PTL DEF TaskSpec

=============================================================================
