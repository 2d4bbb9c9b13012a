--------------------------- MODULE SwapConnection ---------------------------
(***************************************************************************)
(* How SwapManager (packages/boltz-swap/src/swap-manager.ts) keeps itself   *)
(* informed: the WebSocket, the timers that poll and reconnect, and the     *)
(* flags that decide between them.  What it does with a status is the       *)
(* business of the module SwapManager.                                      *)
(*                                                                          *)
(* A socket is an object of its own: after stop() and start() the handlers  *)
(* of the old one still fire, on the fields the new one is kept in.         *)
(***************************************************************************)
EXTENDS Naturals

CONSTANTS
    Sockets,            \* WebSocket objects that can be alive at once
    Swaps,
    NoSocket,           \* this.websocket = null
    Runtimes,           \* the runtimes looked at
    PollInterval, MaxPollInterval,        \* the config, in any unit
    PollRetryDelay, MaxPollRetryDelay,
    ReconnectDelay, MaxReconnectDelay,
    Intervals,          \* what the application passes to setPollInterval
    MaxRounds,          \* bound on the poll rounds of a kind in flight
    Events              \* which of the events below occur

Event == {"add", "interval", "limit", "restart", "stop"}

\* A WebSocket class there is not, there is, or whose constructor may throw.
Runtime == {"without", "with", "throws"}

ASSUME ConstantsAssumption ==
    /\ NoSocket \notin Sockets
    /\ Runtimes \subseteq Runtime
    /\ {PollInterval, MaxPollInterval, PollRetryDelay, MaxPollRetryDelay,
        ReconnectDelay, MaxReconnectDelay, MaxRounds} \subseteq Nat \ {0}
    /\ Intervals \subseteq Nat \ {0}
    /\ ReconnectDelay <= MaxReconnectDelay
    /\ Events \subseteq Event

VARIABLES
    running,        \* isRunning
    started,        \* start() has been called at least once
    runtime,        \* never changes
    connecting,     \* isReconnecting
    fallback,       \* usePollingFallback
    unavailable,    \* webSocketUnavailable
    websocket,      \* this.websocket
    socket,         \* the life of each socket
    timeouts,       \* sockets whose connectionTimeout is armed
    subscribed,     \* swaps each socket has been asked to report
    monitored,      \* monitoredSwaps
    pollTimer,      \* pollTimer: which callback it runs, after how long
    initialTimer, reconnectTimer, retryTimer,  \* armed or not
    rounds,         \* calls of pollAllSwaps in flight, by their caller
    interval, retryDelay, reconnectDelay       \* the current delays

sockets == <<websocket, socket, timeouts, subscribed>>
timers == <<pollTimer, initialTimer, reconnectTimer, retryTimer>>
delays == <<interval, retryDelay, reconnectDelay>>
flags == <<running, started, runtime, connecting, fallback, unavailable>>
vars == <<flags, sockets, monitored, timers, rounds, delays>>

\* none: no object, or its close event has been handled.  closing, aborting:
\* close() was called on an open, or on a connecting, socket.
SocketState == {"none", "connecting", "open", "closing", "aborting"}

\* fired: the handle of a timer that has run.
PollTimer == [runs : {"nothing", "fired", "regular", "fallback"}, delay : Nat]
NoTimer == [runs |-> "nothing", delay |-> 0]

\* The callers of pollAllSwaps; single is the retry of one swap after a 429.
Round == {"regular", "fallback", "initial", "added", "single"}

TypeOK ==
    /\ {running, started, connecting, fallback, unavailable} \subseteq BOOLEAN
    /\ websocket \in Sockets \cup {NoSocket}
    /\ socket \in [Sockets -> SocketState]
    /\ timeouts \subseteq Sockets
    /\ subscribed \in [Sockets -> SUBSET Swaps]
    /\ monitored \subseteq Swaps
    /\ pollTimer \in PollTimer
    /\ {initialTimer, reconnectTimer, retryTimer} \subseteq BOOLEAN
    /\ rounds \in [Round -> 0 .. MaxRounds]
    /\ interval \in Nat \ {0}
    /\ retryDelay \in Nat \ {0}
    /\ reconnectDelay \in ReconnectDelay .. MaxReconnectDelay

Lesser(a, b) == IF a <= b THEN a ELSE b

Init ==
    /\ running = FALSE /\ started = FALSE
    /\ runtime \in Runtimes
    /\ connecting = FALSE /\ fallback = FALSE /\ unavailable = FALSE
    /\ websocket = NoSocket
    /\ socket = [w \in Sockets |-> "none"]
    /\ timeouts = {}
    /\ subscribed = [w \in Sockets |-> {}]
    /\ monitored = {}
    /\ pollTimer = NoTimer
    /\ initialTimer = FALSE /\ reconnectTimer = FALSE /\ retryTimer = FALSE
    /\ rounds = [r \in Round |-> 0]
    /\ interval = PollInterval
    /\ retryDelay = PollRetryDelay
    /\ reconnectDelay = ReconnectDelay

-----------------------------------------------------------------------------
(* The methods the handlers are made of. *)

\* startPolling, startPollingFallback: the timer there was is cleared.
StartPolling == pollTimer' = [runs |-> "regular", delay |-> interval']

StartPollingFallback == pollTimer' = [runs |-> "fallback", delay |-> retryDelay']

\* enterPollingFallback of a running manager; it returns at once of any other.
EnterFallback ==
    /\ connecting' = FALSE
    /\ websocket' = NoSocket
    /\ fallback' = TRUE
    /\ initialTimer' = FALSE
    /\ retryDelay' = Lesser(PollRetryDelay, MaxPollInterval)
    /\ UNCHANGED interval
    /\ StartPollingFallback

\* scheduleReconnect: one timer at a time, the delay doubles up to its cap.
ScheduleReconnect ==
    IF reconnectTimer \/ unavailable
    THEN UNCHANGED <<reconnectTimer, reconnectDelay>>
    ELSE /\ reconnectTimer' = TRUE
         /\ reconnectDelay' = Lesser(2 * reconnectDelay, MaxReconnectDelay)

\* tryConnectWebSocket once its guard has let it pass: a runtime without
\* sockets, a new socket, or a constructor that throws.
Connect ==
    \/ /\ runtime = "without"
       /\ unavailable' = TRUE
       /\ EnterFallback
       /\ UNCHANGED <<socket, timeouts, subscribed>>
    \/ /\ runtime # "without"
       /\ \E w \in Sockets :
            /\ socket[w] = "none"
            /\ websocket' = w
            /\ socket' = [socket EXCEPT ![w] = "connecting"]
            /\ timeouts' = timeouts \cup {w}
            /\ subscribed' = [subscribed EXCEPT ![w] = {}]
       /\ connecting' = TRUE
       /\ UNCHANGED <<fallback, unavailable, initialTimer, pollTimer, interval, retryDelay>>
    \/ /\ runtime = "throws"
       /\ EnterFallback
       /\ UNCHANGED <<unavailable, socket, timeouts, subscribed>>

\* WebSocket.close: the close event comes later.
Closing(w) ==
    [socket EXCEPT ![w] = CASE @ = "connecting" -> "aborting"
                            [] @ = "open"       -> "closing"
                            [] OTHER            -> @]

\* A poll round begins; the bound keeps the rounds of a kind finite.
BeginRound(r) ==
    /\ rounds[r] < MaxRounds
    /\ rounds' = [rounds EXCEPT ![r] = @ + 1]

-----------------------------------------------------------------------------
(* The application. *)

\* start(): the swaps of the repository are added, the socket is tried.  The
\* map survives stop().
Start ==
    /\ ~running
    /\ started => "restart" \in Events
    /\ running' = TRUE /\ started' = TRUE
    /\ UNCHANGED runtime
    /\ \E loaded \in SUBSET Swaps : monitored' = monitored \cup loaded
    /\ IF connecting \/ unavailable
       THEN UNCHANGED <<connecting, fallback, unavailable, sockets, pollTimer,
                        initialTimer, interval, retryDelay>>
       ELSE Connect
    /\ UNCHANGED <<reconnectTimer, retryTimer, rounds, reconnectDelay>>

\* Requests under way and a connectionTimeout go on; the flags stay.
Stop ==
    /\ "stop" \in Events
    /\ running
    /\ running' = FALSE
    /\ websocket' = NoSocket
    /\ socket' = IF websocket = NoSocket THEN socket ELSE Closing(websocket)
    /\ pollTimer' = NoTimer
    /\ initialTimer' = FALSE /\ reconnectTimer' = FALSE /\ retryTimer' = FALSE
    /\ UNCHANGED <<started, runtime, connecting, fallback, unavailable, timeouts, subscribed,
                   monitored, rounds, delays>>

\* addSwap: subscribed where the socket is open, polled at once in fallback.
AddSwap(s) ==
    /\ "add" \in Events
    /\ s \notin monitored
    /\ monitored' = monitored \cup {s}
    /\ subscribed' = IF websocket # NoSocket /\ socket[websocket] = "open"
                     THEN [subscribed EXCEPT ![websocket] = @ \cup {s}]
                     ELSE subscribed
    /\ UNCHANGED interval
    /\ IF fallback /\ running
       THEN /\ retryDelay' = Lesser(interval, PollRetryDelay)
            /\ BeginRound("added")
            /\ StartPollingFallback
       ELSE UNCHANGED <<retryDelay, rounds, pollTimer>>
    /\ UNCHANGED <<flags, websocket, socket, timeouts, initialTimer, reconnectTimer,
                   retryTimer, reconnectDelay>>

SetPollInterval(ms) ==
    /\ "interval" \in Events
    /\ interval' = Lesser(ms, MaxPollInterval)
    /\ retryDelay' = Lesser(interval', PollRetryDelay)
    /\ IF running /\ fallback THEN StartPollingFallback
       ELSE IF running /\ pollTimer.runs # "nothing" THEN StartPolling
       ELSE UNCHANGED pollTimer
    /\ UNCHANGED <<flags, sockets, monitored, initialTimer, reconnectTimer, retryTimer,
                   rounds, reconnectDelay>>

-----------------------------------------------------------------------------
(* The handlers of a socket. *)

\* Faults: an open socket is not subscribed, or leaves the fallback on.
SubscribeNothing == UNCHANGED subscribed

\* The subscriptions go to this.websocket, whatever it is by now.
SubscribeAll ==
    subscribed' = IF websocket # NoSocket /\ socket'[websocket] = "open"
                  THEN [subscribed EXCEPT ![websocket] = @ \cup monitored]
                  ELSE subscribed

LeaveFallback == connecting' = FALSE /\ fallback' = FALSE

\* onopen.
SocketOpens(w) ==
    /\ socket[w] = "connecting"
    /\ socket' = [socket EXCEPT ![w] = "open"]
    /\ timeouts' = timeouts \ {w}
    /\ SubscribeAll
    /\ LeaveFallback
    /\ initialTimer' = TRUE
    /\ reconnectDelay' = ReconnectDelay
    /\ UNCHANGED interval
    /\ StartPolling
    /\ UNCHANGED <<running, started, runtime, unavailable, websocket, monitored, reconnectTimer,
                   retryTimer, rounds, retryDelay>>

\* Faults: a stopped manager reconnects, or no manager does after a failure.
ReconnectAlways(failed) == ScheduleReconnect

\* The last lines of onclose.
Reconnect(failed) ==
    IF running THEN ScheduleReconnect ELSE UNCHANGED <<reconnectTimer, reconnectDelay>>

\* The end of a socket: onclose, after onerror when it failed, in one task of
\* the event loop.  A socket that never opened always fails.
SocketEnds(w, failed) ==
    /\ socket[w] # "none"
    /\ socket[w] \in {"connecting", "aborting"} => failed
    /\ socket' = [socket EXCEPT ![w] = "none"]
    /\ subscribed' = [subscribed EXCEPT ![w] = {}]
    /\ timeouts' = timeouts \ {w}
    /\ IF failed /\ running
       THEN EnterFallback
       ELSE /\ websocket' = NoSocket
            /\ initialTimer' = FALSE
            /\ UNCHANGED <<connecting, fallback, retryDelay, interval, pollTimer>>
    /\ Reconnect(failed)
    /\ UNCHANGED <<running, started, runtime, unavailable, monitored, retryTimer, rounds>>

\* connectionTimeout: it closes this.websocket, whatever that is by now.
ConnectionTimeout(w) ==
    /\ w \in timeouts
    /\ timeouts' = timeouts \ {w}
    /\ socket' = IF websocket = NoSocket THEN socket ELSE Closing(websocket)
    /\ IF running
       THEN EnterFallback
       ELSE UNCHANGED <<connecting, fallback, websocket, initialTimer, retryDelay,
                        interval, pollTimer>>
    /\ UNCHANGED <<running, started, runtime, unavailable, subscribed, monitored, reconnectTimer,
                   retryTimer, rounds, reconnectDelay>>

-----------------------------------------------------------------------------
(* The timers. *)

ReconnectTimerFires ==
    /\ reconnectTimer
    /\ reconnectTimer' = FALSE
    /\ Connect
    /\ UNCHANGED <<running, started, runtime, monitored, retryTimer, rounds, reconnectDelay>>

PollTimerFires ==
    /\ pollTimer.runs \in {"regular", "fallback"}
    /\ BeginRound(pollTimer.runs)
    /\ pollTimer' = [pollTimer EXCEPT !.runs = "fired"]
    /\ UNCHANGED <<flags, sockets, monitored, initialTimer, reconnectTimer, retryTimer,
                   delays>>

\* Armed 2 seconds after the socket opened.
InitialTimerFires ==
    /\ initialTimer
    /\ initialTimer' = FALSE
    /\ IF running THEN BeginRound("initial") ELSE UNCHANGED rounds
    /\ UNCHANGED <<flags, sockets, monitored, pollTimer, reconnectTimer, retryTimer,
                   delays>>

RetryTimerFires ==
    /\ retryTimer
    /\ retryTimer' = FALSE
    /\ BeginRound("single")
    /\ UNCHANGED <<flags, sockets, monitored, pollTimer, initialTimer, reconnectTimer,
                   delays>>

\* Fault: a fallback round that arms the next one only after a success.
RoundEndsOnce(r) ==
    /\ rounds[r] > 0
    /\ rounds' = [rounds EXCEPT ![r] = @ - 1]
    /\ UNCHANGED <<interval, retryTimer, retryDelay>>
    /\ IF r = "regular" /\ running THEN StartPolling ELSE UNCHANGED pollTimer
    /\ UNCHANGED <<flags, sockets, monitored, initialTimer, reconnectTimer, reconnectDelay>>

\* All requests of a round are answered, one of them perhaps with 429.  The
\* timer that began a round is armed again by it.
RoundEnds(r) ==
    /\ rounds[r] > 0
    /\ rounds' = [rounds EXCEPT ![r] = @ - 1]
    /\ \/ UNCHANGED retryTimer
       \/ "limit" \in Events /\ r # "single" /\ monitored # {} /\ retryTimer' = TRUE
    /\ UNCHANGED interval
    /\ retryDelay' = IF r = "fallback" THEN Lesser(2 * retryDelay, MaxPollRetryDelay)
                     ELSE retryDelay
    /\ IF r = "regular" /\ running THEN StartPolling
       ELSE IF r = "fallback" /\ running /\ fallback THEN StartPollingFallback
       ELSE UNCHANGED pollTimer
    /\ UNCHANGED <<flags, sockets, monitored, initialTimer, reconnectTimer, reconnectDelay>>

-----------------------------------------------------------------------------
Next ==
    \/ Start
    \/ Stop
    \/ \E s \in Swaps : AddSwap(s)
    \/ \E ms \in Intervals : SetPollInterval(ms)
    \/ \E w \in Sockets : SocketOpens(w) \/ ConnectionTimeout(w)
    \/ \E w \in Sockets, failed \in BOOLEAN : SocketEnds(w, failed)
    \/ ReconnectTimerFires \/ PollTimerFires \/ InitialTimerFires \/ RetryTimerFires
    \/ \E r \in Round : RoundEnds(r)

Spec == Init /\ [][Next]_vars

\* Timers fire, requests are answered or time out, a closed socket reports it.
\* Strong for what the bounds on rounds and sockets can block.  No socket has
\* to open, and none to stay open.
Fairness ==
    /\ SF_vars(PollTimerFires) /\ SF_vars(ReconnectTimerFires)
    /\ SF_vars(InitialTimerFires) /\ SF_vars(RetryTimerFires)
    /\ \A r \in Round : WF_vars(RoundEnds(r))
    /\ \A w \in Sockets :
         /\ WF_vars(ConnectionTimeout(w))
         /\ WF_vars(socket[w] \in {"closing", "aborting"} /\ SocketEnds(w, TRUE))

FairSpec == Spec /\ Fairness

-----------------------------------------------------------------------------
(* Properties of a manager that is started once. *)

Live(w) == socket[w] \in {"connecting", "open"}

\* Each monitored swap, whenever it was added, is reported once: an open socket
\* has all of them, and no reconnection, timeout or fallback leaves a second
\* connection, which would report them again and survive stop().
ReportedOnce ==
    \A w \in Sockets : Live(w) =>
        /\ socket[w] = "open" => monitored \subseteq subscribed[w]
        /\ \A v \in Sockets : Live(v) => v = w

\* A stopped manager does not come back to life by itself: whatever ends after
\* stop(), no reconnection is scheduled and no connection is opened.
StoppedStaysDown ==
    ~running => ~reconnectTimer /\ \A w \in Sockets : ~Live(w)

\* As long as it runs a manager goes on polling, whatever becomes of its
\* sockets, and where sockets can be made it goes on making them.
KeepsLooking ==
    /\ running ~> (~running \/ \E r \in Round : rounds[r] > 0)
    /\ runtime = "with" => (running ~> (~running \/ \E w \in Sockets : Live(w)))
=============================================================================
