---------------------------- MODULE SocketEvents ----------------------------
(***************************************************************************)
(* Presence behind the limiter that every event of a socket has to pass    *)
(* (realtime/socket/middleware/rate-limit.middleware.ts and the listeners  *)
(* of handlers/register.handlers.ts).  The limiter counts the events of a  *)
(* socket in windows; a window starts with the first event after the       *)
(* previous one has ended.  An event too many is dropped, a heartbeat too. *)
(***************************************************************************)
EXTENDS Presence

CONSTANTS
  maxEvents,    \* SOCKET_MAX_EVENTS_PER_WINDOW
  windowMs      \* SOCKET_RATE_LIMIT_WINDOW_MS, in ticks

ASSUME LimiterAssumption == { maxEvents, windowMs } \subseteq Nat \ {0}

VARIABLES
  limit,        \* socketRateLimits: count and windowStart of each socket
  passed,       \* history: passed[s][a], events let through a ticks ago
  tried,        \* history: ticks since the client last sent a heartbeat
  polite        \* history: has the client always been within the limit, and
                \* sent a heartbeat at least every Timeout ticks?

limiterVars == << limit, passed, tried, polite >>
eventVars   == << vars, limiterVars >>

\* `since' is now - windowStart, counted up to the end of the window; `count'
\* is counted up to the first value that is refused.
NoLimit  == [ known |-> FALSE, count |-> 0, since |-> 0 ]
NewLimit == [ known |-> TRUE, count |-> 0, since |-> 0 ]
Nothing  == [a \in 0 .. windowMs - 1 |-> 0]

LimiterInit ==
  /\ limit = [s \in Socket |-> NoLimit]
  /\ passed = [s \in Socket |-> Nothing]
  /\ tried = [s \in Socket |-> 0]
  /\ polite = [s \in Socket |-> FALSE]

\* What s was let through during the last windowMs.
Let[s \in Socket] ==
  LET Sum[a \in 0 .. windowMs - 1] ==
        passed[s][a] + (IF a = 0 THEN 0 ELSE Sum[a - 1])
  IN  Sum[windowMs - 1]

-----------------------------------------------------------------------------
(***************************************************************************)
(* SocketRateLimiter                                                       *)
(***************************************************************************)
\* Mutated: every event starts a new window.
CurrentWindow_Restarted(s) ==
  IF ~ limit[s].known \/ limit[s].since >= windowMs
    THEN NewLimit ELSE [limit[s] EXCEPT !.since = 0]

CurrentWindow(s) ==
  IF ~ limit[s].known \/ limit[s].since >= windowMs THEN NewLimit ELSE limit[s]

Counted(s) ==
  [CurrentWindow(s) EXCEPT !.count = IF @ > maxEvents THEN @ ELSE @ + 1]

\* Mutated: the count is compared before it is raised.
Passes_Before(s) == CurrentWindow(s).count <= maxEvents

Passes(s) == Counted(s).count <= maxEvents

check(s) ==
  /\ limit' = [limit EXCEPT ![s] = Counted(s)]
  /\ passed' = IF Passes(s) THEN [passed EXCEPT ![s][0] = @ + 1] ELSE passed
  /\ polite' = [polite EXCEPT ![s] = @ /\ Let[s] < maxEvents]

clear(gone) ==
  /\ limit' = [s \in Socket |-> IF s \in gone THEN NoLimit ELSE limit[s]]
  /\ passed' = [s \in Socket |-> IF s \in gone THEN Nothing ELSE passed[s]]
  /\ tried' = [s \in Socket |-> IF s \in gone THEN 0 ELSE tried[s]]
  /\ polite' = [s \in Socket |-> polite[s] /\ s \notin gone]

-----------------------------------------------------------------------------
(***************************************************************************)
(* The listeners: every one begins with rateLimiter.check.                 *)
(***************************************************************************)
HeartbeatEvent(s) ==
  /\ Undisturbed
  /\ transport[s] = "open"
  /\ check(s)
  /\ tried' = [tried EXCEPT ![s] = 0]
  /\ IF Passes(s) THEN RecordHeartbeat(s) ELSE UNCHANGED vars

\* An event that leaves presence as it is: auth:connect, request:join, a
\* position, or anything that its schema or its guards refuse.
OtherEvent(s) ==
  /\ Undisturbed
  /\ transport[s] = "open"
  /\ check(s)
  /\ UNCHANGED << vars, tried >>

AvailabilityEvent(s) ==
  /\ check(s)
  /\ Passes(s)
  /\ ProviderOnline(s) \/ ProviderOffline(s)
  /\ UNCHANGED tried

HandshakeEvent(s) ==
  /\ Handshake(s)
  /\ tried' = [tried EXCEPT ![s] = 0]
  /\ polite' = [polite EXCEPT ![s] = TRUE]
  /\ UNCHANGED << limit, passed >>

\* The disconnect listener clears the limiter first.
DisconnectEvent(s) == Disconnect(s) /\ clear({ s })

SweepEvent == Sweep /\ clear(Stale)

TickEvent ==
  /\ Tick
  /\ limit' = [s \in Socket |->
       IF limit[s].known /\ limit[s].since < windowMs
       THEN [limit[s] EXCEPT !.since = @ + 1] ELSE limit[s]]
  /\ passed' = [s \in Socket |-> [a \in 0 .. windowMs - 1 |->
                                    IF a = 0 THEN 0 ELSE passed[s][a - 1]]]
  /\ tried' = [s \in Socket |-> IF transport[s] = "closed" THEN 0 ELSE Older(tried[s])]
  /\ polite' = [s \in Socket |-> polite[s] /\ tried[s] < Timeout]

EventNext ==
  \/ \E s \in Socket :
       \/ HeartbeatEvent(s) \/ OtherEvent(s) \/ AvailabilityEvent(s)
       \/ HandshakeEvent(s) \/ DisconnectEvent(s)
       \/ (Connect(s) \/ GoOnline(s)) /\ UNCHANGED limiterVars
  \/ (CreateProfile \/ DecideKyc) /\ UNCHANGED limiterVars
  \/ SweepEvent \/ TickEvent

EventSpec == Init /\ LimiterInit /\ [][EventNext]_eventVars

-----------------------------------------------------------------------------
(***************************************************************************)
(* Properties                                                              *)
(***************************************************************************)
\* However a client spreads its events around the end of a window, no stretch
\* of time as long as a window lets more than two windows' worth through
\* (rate-limit.middleware.ts:22-29).
TwoWindowsWorth == \A s \in Socket : Let[s] <= 2 * maxEvents

\* An event would be refused only if maxEvents were let through during the
\* last windowMs: a flood is never punished for longer than a window
\* (rate-limit.middleware.ts:22-36).
RefusedOnlyAtLimit == \A s \in Socket : ~ Passes(s) => Let[s] >= maxEvents

\* What a window lets through is bounded, and what it refuses is justified:
\* both of the above (rate-limit.middleware.ts:18-39).
WindowIsFair == TwoWindowsWorth /\ RefusedOnlyAtLimit

\* The limiter and the monitor do not work against each other: a client that
\* keeps within the limit and sends its heartbeats in time is never due to be
\* dropped, whatever else it sends between them
\* (register.handlers.ts:63-77, presence.service.ts:71-86).
PoliteIsKept ==
  \A s \in Socket : polite[s] /\ session[s].on => session[s].age <= Timeout

=============================================================================
