-------------------------- MODULE ProcessLifecycle --------------------------
(***************************************************************************)
(* The life of one API process: bootstrap (server.ts, core/infrastructure, *)
(* mongoose.manager.ts) and the graceful shutdown (core/lifecycle.ts,      *)
(* realtime/index.ts).                                                     *)
(*                                                                         *)
(* Node's server stops accepting when it is closed and calls back once the *)
(* last of its connections is gone, upgraded ones (WebSockets) included.   *)
(* It counts connections, not the handlers that work for them: a client    *)
(* that aborts is gone while its handler still awaits, and what a handler  *)
(* starts without waiting for it goes on after the answer.  Socket.IO,     *)
(* when it is closed, drops its sockets and closes that server again,      *)
(* which is an error if it is closed already.                              *)
(***************************************************************************)
EXTENDS Naturals, FiniteSets

CONSTANTS
  Request,        \* HTTP requests
  Socket,         \* WebSocket clients
  SocketEnabled,  \* SOCKET_ENABLED
  RedisEnabled,   \* REDIS_ENABLED
  MaxRetries,     \* maxRetries of connectMongo
  Faults,         \* may connecting, listening or disconnecting fail?
  Slow            \* may a shutdown take longer than SHUTDOWN_TIMEOUT_MS
                  \* although nobody holds a connection?

ASSUME LifecycleAssumption ==
  /\ MaxRetries \in Nat \ {0}
  /\ { SocketEnabled, RedisEnabled, Faults, Slow } \subseteq BOOLEAN

VARIABLES
  phase,        \* where bootstrap, and then shutdown, is
  attempt,      \* the attempt of connectMongo
  mongo, redis, \* connected?
  server,       \* the HTTP server
  requests,     \* the requests whose clients are connected and wait
  sockets,      \* the open WebSockets
  handlers,     \* the clients somebody works for, connected or not
  timer,        \* is the force timer running?
  exit          \* "running", or the exit code

vars == << phase, attempt, mongo, redis, server, requests, sockets, handlers,
           timer, exit >>

connections == << requests, sockets >>
clients == << connections, handlers >>
stores == << mongo, redis >>

Init ==
  /\ phase = "connectMongo" /\ attempt = 1
  /\ mongo = FALSE /\ redis = FALSE
  /\ server = "none"
  /\ requests = {} /\ sockets = {} /\ handlers = {}
  /\ timer = FALSE
  /\ exit = "running"

Running == exit = "running"
Exits(code) == exit' = code

-----------------------------------------------------------------------------
(***************************************************************************)
(* bootstrap.                                                              *)
(***************************************************************************)
MongoConnects ==
  /\ Running /\ phase = "connectMongo"
  /\ mongo' = TRUE
  /\ phase' = IF RedisEnabled THEN "connectRedis" ELSE "listen"
  /\ UNCHANGED << attempt, redis, server, clients, timer, exit >>

LastAttempt == attempt = MaxRetries

\* After the last attempt connectMongo throws, and main exits.
MongoFails ==
  /\ Running /\ phase = "connectMongo" /\ Faults
  /\ IF LastAttempt THEN Exits("1") /\ UNCHANGED attempt
             ELSE attempt' = attempt + 1 /\ UNCHANGED exit
  /\ UNCHANGED << phase, stores, server, clients, timer >>

RedisConnects ==
  /\ Running /\ phase = "connectRedis"
  /\ redis' = TRUE
  /\ phase' = "listen"
  /\ UNCHANGED << attempt, mongo, server, clients, timer, exit >>

RedisFails ==
  /\ Running /\ phase = "connectRedis" /\ Faults
  /\ Exits("1")
  /\ UNCHANGED << phase, attempt, stores, server, clients, timer >>

\* startListening; the server was created, and the signals are handled, as
\* soon as the infrastructure is connected.
Listen ==
  /\ Running /\ phase = "listen"
  /\ server' = "listening"
  /\ phase' = "serving"
  /\ UNCHANGED << attempt, stores, clients, timer, exit >>

ListenFails ==
  /\ Running /\ phase = "listen" /\ Faults
  /\ Exits("1")
  /\ UNCHANGED << phase, attempt, stores, server, clients, timer >>

-----------------------------------------------------------------------------
(***************************************************************************)
(* Clients.                                                                *)
(***************************************************************************)
RequestArrives(r) ==
  /\ Running /\ server = "listening"
  /\ r \notin handlers
  /\ requests' = requests \cup { r }
  /\ handlers' = handlers \cup { r }
  /\ UNCHANGED << phase, attempt, stores, server, sockets, timer, exit >>

\* The handler answers and nothing of it is left.
RequestAnswered(r) ==
  /\ Running
  /\ r \in requests
  /\ requests' = requests \ { r }
  /\ handlers' = handlers \ { r }
  /\ UNCHANGED << phase, attempt, stores, server, sockets, timer, exit >>

\* The client aborts, or has its answer while what its handler did not wait
\* for (emitNotifications) goes on.
ClientLeaves(r) ==
  /\ Running
  /\ r \in requests
  /\ requests' = requests \ { r }
  /\ UNCHANGED << phase, attempt, stores, server, sockets, handlers, timer, exit >>

\* The work for a client that is gone, or for an event of a socket, is done.
HandlerEnds(h) ==
  /\ Running
  /\ h \in handlers \ requests
  /\ handlers' = handlers \ { h }
  /\ UNCHANGED << phase, attempt, stores, server, connections, timer, exit >>

SocketOpens(s) ==
  /\ Running /\ server = "listening" /\ SocketEnabled
  /\ s \notin sockets
  /\ sockets' = sockets \cup { s }
  /\ UNCHANGED << phase, attempt, stores, server, requests, handlers, timer, exit >>

\* An event of the client's: its handler starts.
SocketEvent(s) ==
  /\ Running
  /\ s \in sockets \ handlers
  /\ handlers' = handlers \cup { s }
  /\ UNCHANGED << phase, attempt, stores, server, connections, timer, exit >>

SocketCloses(s) ==
  /\ Running
  /\ s \in sockets
  /\ sockets' = sockets \ { s }
  /\ UNCHANGED << phase, attempt, stores, server, requests, handlers, timer, exit >>

-----------------------------------------------------------------------------
(***************************************************************************)
(* shutdown.                                                               *)
(***************************************************************************)
\* Mutated: the hooks run beside the closing of the server.
Signal_AtOnce ==
  /\ Running /\ phase = "serving"
  /\ phase' = "shutdownRealtime" /\ server' = "closing" /\ timer' = TRUE
  /\ UNCHANGED << attempt, stores, clients, exit >>

\* Mutated: no force timer.
Signal_NoTimer ==
  /\ Running /\ phase = "serving"
  /\ phase' = "closing" /\ server' = "closing" /\ timer' = FALSE
  /\ UNCHANGED << attempt, stores, clients, exit >>

\* The first SIGTERM or SIGINT; later ones are ignored.
Signal ==
  /\ Running /\ phase = "serving"
  /\ phase' = "closing" /\ server' = "closing" /\ timer' = TRUE
  /\ UNCHANGED << attempt, stores, clients, exit >>

\* Before the server listens a signal kills the process, or finds no server
\* to close.
SignalEarly ==
  /\ Running /\ phase \in { "connectMongo", "connectRedis", "listen" }
  /\ Exits("1")
  /\ UNCHANGED << phase, attempt, stores, server, clients, timer >>

\* The callback of server.close: no connection is left.
ServerClosed ==
  /\ Running /\ phase = "closing"
  /\ requests = {} /\ sockets = {}
  /\ server' = "closed"
  /\ phase' = "shutdownRealtime"
  /\ UNCHANGED << attempt, stores, clients, timer, exit >>

\* shutdownRealtime, the first half of onShutdown.  With Socket.IO it ends in
\* the error of closing a server that is closed.
ShutdownRealtime ==
  /\ Running /\ phase = "shutdownRealtime"
  /\ IF SocketEnabled
       THEN /\ sockets' = {} /\ timer' = FALSE /\ Exits("1") /\ UNCHANGED phase
       ELSE /\ phase' = "disconnectRedis" /\ UNCHANGED << sockets, timer, exit >>
  /\ UNCHANGED << attempt, stores, server, requests, handlers >>

\* disconnectInfrastructure.
DisconnectRedis ==
  /\ Running /\ phase = "disconnectRedis"
  /\ redis' = FALSE
  /\ phase' = "disconnectMongo"
  /\ UNCHANGED << attempt, mongo, server, clients, timer, exit >>

\* Mutated: the shutdown goes on without waiting for MongoDB.
DisconnectMongo_NotAwaited ==
  /\ Running /\ phase = "disconnectMongo"
  /\ phase' = "complete"
  /\ UNCHANGED << attempt, stores, server, clients, timer, exit >>

DisconnectMongo ==
  /\ Running /\ phase = "disconnectMongo"
  /\ mongo' = FALSE
  /\ phase' = "complete"
  /\ UNCHANGED << attempt, redis, server, clients, timer, exit >>

\* onShutdown is over: exit code 0, whoever still works.
ShutdownComplete ==
  /\ Running /\ phase = "complete"
  /\ timer' = FALSE /\ Exits("0")
  /\ UNCHANGED << phase, attempt, stores, server, clients >>

\* A rejected disconnection: the error ends the process.
DisconnectFails ==
  /\ Running /\ phase \in { "disconnectRedis", "disconnectMongo" } /\ Faults
  /\ timer' = FALSE /\ Exits("1")
  /\ UNCHANGED << phase, attempt, stores, server, clients >>

\* Nobody but clients with an open socket delays the shutdown.
HeldBySockets == phase = "closing" /\ requests = {} /\ sockets # {}

ForceExit ==
  /\ Running /\ timer
  /\ Slow \/ HeldBySockets
  /\ timer' = FALSE /\ Exits("1")
  /\ UNCHANGED << phase, attempt, stores, server, clients >>

Step ==
  \/ MongoConnects \/ MongoFails \/ RedisConnects \/ RedisFails
  \/ Listen \/ ListenFails
  \/ ServerClosed \/ ShutdownRealtime \/ DisconnectRedis \/ DisconnectMongo
  \/ DisconnectFails \/ ShutdownComplete

Next ==
  \/ Step \/ Signal \/ SignalEarly \/ ForceExit
  \/ \E r \in Request : RequestArrives(r) \/ RequestAnswered(r) \/ ClientLeaves(r)
  \/ \E s \in Socket : SocketOpens(s) \/ SocketEvent(s) \/ SocketCloses(s)
  \/ \E h \in Request \cup Socket : HandlerEnds(h)

Spec == Init /\ [][Next]_vars

-----------------------------------------------------------------------------
(***************************************************************************)
(* Properties.                                                             *)
(***************************************************************************)

\* Every variable has its type.
TypeOK ==
  /\ phase \in { "connectMongo", "connectRedis", "listen", "serving", "closing",
                 "shutdownRealtime", "disconnectRedis", "disconnectMongo",
                 "complete" }
  /\ attempt \in 1 .. MaxRetries
  /\ { mongo, redis, timer } \subseteq BOOLEAN
  /\ server \in { "none", "listening", "closing", "closed" }
  /\ requests \subseteq Request /\ sockets \subseteq Socket
  /\ handlers \subseteq Request \cup Socket
  /\ exit \in { "running", "0", "1" }

\* A handler finds its stores for as long as its client is connected, and in
\* any case until server.close has called back; only work for a client that is
\* gone, or that its handler did not wait for, may lose them in a shutdown
\* (bootstrap, onShutdown after server.close).
ServedWithStores ==
  Running => \A h \in handlers :
    \/ mongo /\ (RedisEnabled => redis)
    \/ server = "closed" /\ h \notin requests \cup sockets

\* Exit code 0 says that no client is left waiting and the stores are closed;
\* it does not say that no handler is at work (registerGracefulShutdown).
CleanExit == exit = "0" => requests = {} /\ sockets = {} /\ ~ mongo /\ ~ redis

\* The stores outlive the last connection and no connection outlives a clean
\* exit: both of the above, at every moment of the process (bootstrap,
\* registerGracefulShutdown).
ShutdownIsOrderly == TypeOK /\ ServedWithStores /\ CleanExit

\* A signal ends the process, whatever its clients do (the force timer).
SignalEnds == phase = "closing" ~> ~ Running

\* A process that served and was told to stop closes its database before it
\* exits, if nothing fails and nobody holds a connection (src/ARCHITECTURE.md:1078).
ClosesBeforeExit == ~ Running /\ phase \notin { "connectMongo", "connectRedis", "listen" }
                      => ~ mongo
=============================================================================
