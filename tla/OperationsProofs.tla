-------------------------- MODULE OperationsProofs --------------------------
(***************************************************************************)
(* The life of one process, for any numbers of requests, clients and       *)
(* attempts: whom it serves it has stores for, and it leaves in order.     *)
(* And the demo script, for any number of runs and resets, cut off or not: *)
(* no document refers to one that is gone, and what a run leaves is whole. *)
(***************************************************************************)
EXTENDS MCOperations, TLAPS

\* Clients are only ever connected between the bootstrap and the callback of
\* server.close, and the stores are connected for longer than that.  Nobody
\* works before the server listens; after that callback somebody may, for
\* clients that are gone.
OrderInv ==
  /\ TypeOK
  /\ phase \in { "connectMongo", "connectRedis", "listen" } =>
       server = "none" /\ handlers = {}
  /\ phase = "serving" => server = "listening"
  /\ phase = "closing" => server = "closing"
  /\ phase \in { "shutdownRealtime", "disconnectRedis", "disconnectMongo", "complete" } =>
       server = "closed"
  /\ phase \notin { "serving", "closing" } => requests = {} /\ sockets = {}
  /\ phase \in { "listen", "serving", "closing", "shutdownRealtime" } =>
       mongo /\ (RedisEnabled => redis)
  /\ phase = "connectRedis" => mongo
  /\ phase \in { "disconnectMongo", "complete" } => ~ redis
  /\ phase = "complete" => ~ mongo
  /\ CleanExit

LEMMA InitOrder == Init => OrderInv
<1> SUFFICES ASSUME Init PROVE OrderInv
  OBVIOUS
<1>1. { mongo, redis, timer } \subseteq BOOLEAN
  BY Zenon DEF Init
<1>2. attempt \in 1 .. MaxRetries
  BY LifecycleAssumption DEF Init
<1> QED
  BY <1>1, <1>2 DEF Init, OrderInv, TypeOK, CleanExit

LEMMA StepOrder == OrderInv /\ [Next]_vars => OrderInv'
<1> SUFFICES ASSUME OrderInv, [Next]_vars PROVE OrderInv'
  OBVIOUS
<1> USE LifecycleAssumption DEF OrderInv, TypeOK, CleanExit, Running, Exits,
                                connections, clients, stores
<1>1. CASE UNCHANGED vars
  BY <1>1 DEF vars
<1>2. CASE MongoConnects \/ MongoFails
  <2>1. { mongo', redis', timer' } \subseteq BOOLEAN
    BY <1>2, Zenon DEF MongoConnects, MongoFails
  <2>2. attempt' \in 1 .. MaxRetries
    BY <1>2 DEF MongoConnects, MongoFails, LastAttempt
  <2>3. CASE MongoConnects
    BY <2>1, <2>2, <2>3 DEF MongoConnects
  <2>4. CASE MongoFails
    BY <2>1, <2>2, <2>4 DEF MongoFails
  <2> QED
    BY <1>2, <2>3, <2>4
<1>3. CASE RedisConnects \/ RedisFails
  BY <1>3 DEF RedisConnects, RedisFails
<1>4. CASE Listen \/ ListenFails
  BY <1>4 DEF Listen, ListenFails
<1>5. ASSUME NEW r \in Request, RequestArrives(r) \/ RequestAnswered(r) \/ ClientLeaves(r)
      PROVE  OrderInv'
  BY <1>5 DEF RequestArrives, RequestAnswered, ClientLeaves
<1>6. ASSUME NEW s \in Socket, SocketOpens(s) \/ SocketEvent(s) \/ SocketCloses(s)
      PROVE  OrderInv'
  BY <1>6 DEF SocketOpens, SocketEvent, SocketCloses
<1>7. CASE Signal \/ SignalEarly
  BY <1>7 DEF Signal, SignalEarly
<1>8. CASE ServerClosed
  BY <1>8 DEF ServerClosed
<1>9. CASE ShutdownRealtime
  BY <1>9 DEF ShutdownRealtime
<1>10. CASE DisconnectRedis \/ DisconnectMongo \/ DisconnectFails \/ ShutdownComplete
  <2>1. { mongo', redis', timer' } \subseteq BOOLEAN
    BY <1>10, Zenon DEF DisconnectRedis, DisconnectMongo, DisconnectFails, ShutdownComplete
  <2>2. CASE DisconnectRedis
    BY <2>1, <2>2 DEF DisconnectRedis
  <2>3. CASE DisconnectMongo
    BY <2>1, <2>3 DEF DisconnectMongo
  <2>4. CASE DisconnectFails
    BY <2>1, <2>4 DEF DisconnectFails
  <2>5. CASE ShutdownComplete
    BY <2>1, <2>5 DEF ShutdownComplete
  <2> QED
    BY <1>10, <2>2, <2>3, <2>4, <2>5
<1>11. CASE ForceExit
  BY <1>11 DEF ForceExit
<1>12. ASSUME NEW h \in Request \cup Socket, HandlerEnds(h) PROVE OrderInv'
  BY <1>12 DEF HandlerEnds
<1> QED
  BY <1>1, <1>2, <1>3, <1>4, <1>5, <1>6, <1>7, <1>8, <1>9, <1>10, <1>11, <1>12
     DEF Next, Step

\* Whatever fails, hangs or is signalled, and whoever leaves: a handler whose
\* client is connected finds its stores, every handler does until server.close
\* has called back, and exit code 0 is only given when no client is left
\* waiting and the stores are closed (bootstrap, registerGracefulShutdown).
THEOREM ShutdownAlwaysOrderly == Spec => []ShutdownIsOrderly
<1>1. OrderInv => ShutdownIsOrderly
  BY DEF OrderInv, ShutdownIsOrderly, ServedWithStores, TypeOK
<1> QED
  BY <1>1, InitOrder, StepOrder, PTL DEF Spec

-----------------------------------------------------------------------------
\* Without Socket.IO, failures and held connections: nobody is connected by
\* WebSocket, so the force timer has no reason to fire.
PromptInv == OrderInv /\ sockets = {} /\ ClosesBeforeExit

LEMMA StepPrompt ==
  ASSUME ~ SocketEnabled, ~ Faults, ~ Slow
  PROVE  PromptInv /\ [Next]_vars => PromptInv'
<1> SUFFICES ASSUME PromptInv, [Next]_vars PROVE PromptInv'
  OBVIOUS
<1>1. sockets' = {}
  BY DEF PromptInv, Next, Step, vars, clients, connections, MongoConnects, MongoFails,
         RedisConnects, RedisFails, Listen, ListenFails, ServerClosed, ShutdownRealtime,
         DisconnectRedis, DisconnectMongo, DisconnectFails, Signal, SignalEarly,
         ShutdownComplete, ForceExit, RequestArrives, RequestAnswered, ClientLeaves,
         HandlerEnds, SocketOpens, SocketEvent, SocketCloses
<1>2. ClosesBeforeExit'
  <2>1. CASE UNCHANGED vars
    BY <2>1 DEF PromptInv, ClosesBeforeExit, Running, vars
  <2>2. ASSUME exit = "running", exit' = "running" PROVE ClosesBeforeExit'
    BY <2>2 DEF ClosesBeforeExit, Running
  <2>3. CASE MongoFails \/ RedisFails \/ ListenFails \/ DisconnectFails
    BY <2>3 DEF MongoFails, RedisFails, ListenFails, DisconnectFails
  <2>4. CASE SignalEarly
    BY <2>4 DEF SignalEarly, ClosesBeforeExit
  <2>5. CASE ShutdownComplete
    BY <2>5 DEF ShutdownComplete, stores, ClosesBeforeExit, PromptInv, OrderInv
  <2>6. CASE ForceExit
    BY <2>6 DEF PromptInv, ForceExit, HeldBySockets
  <2>7. CASE \/ \E r \in Request : RequestArrives(r) \/ RequestAnswered(r) \/ ClientLeaves(r)
             \/ \E s \in Socket : SocketOpens(s) \/ SocketEvent(s) \/ SocketCloses(s)
             \/ \E h \in Request \cup Socket : HandlerEnds(h)
    BY <2>2, <2>7 DEF Running, RequestArrives, RequestAnswered, ClientLeaves, HandlerEnds,
       SocketOpens, SocketEvent, SocketCloses
  <2>8. CASE \/ MongoConnects \/ RedisConnects \/ Listen \/ Signal
             \/ ServerClosed \/ ShutdownRealtime \/ DisconnectRedis \/ DisconnectMongo
    BY <2>2, <2>8 DEF Running, MongoConnects, RedisConnects, Listen, ServerClosed,
       ShutdownRealtime, DisconnectRedis, DisconnectMongo, Signal
  <2> QED
    BY <2>1, <2>3, <2>4, <2>5, <2>6, <2>7, <2>8 DEF Next, Step
<1> QED
  BY <1>1, <1>2, StepOrder DEF PromptInv

LEMMA InitPrompt == Init => PromptInv
BY InitOrder DEF PromptInv, Init, ClosesBeforeExit, Running

\* A process without Socket.IO in which nothing fails and nobody holds a connection
\* never exits with its database open, once it served
\* (src/ARCHITECTURE.md:1078).
THEOREM AlwaysClosesBeforeExit ==
  ASSUME ~ SocketEnabled, ~ Faults, ~ Slow
  PROVE  Spec => []ClosesBeforeExit
<1>1. PromptInv => ClosesBeforeExit
  BY DEF PromptInv
<1> QED
  BY <1>1, InitPrompt, StepPrompt, PTL DEF Spec

\* The same of the run, whatever its other worlds do: they share the
\* variables, but a behaviour never crosses over.
THEOREM PromptAlwaysClosesFirst ==
  ASSUME ~ SocketEnabled, ~ Faults, ~ Slow
  PROVE  WorldsSpec => []PromptClosesFirst
<1> DEFINE I == world = "prompt" => PromptInv
<1>1. WorldsInit => I
  BY InitPrompt DEF WorldsInit
<1>2. I /\ [WorldsNext]_<< vars, seedVars, world >> => I'
  <2> SUFFICES ASSUME I, [WorldsNext]_<< vars, seedVars, world >>, world' = "prompt"
               PROVE  PromptInv'
    OBVIOUS
  <2>1. world = "prompt" /\ [Next]_vars
    BY DEF WorldsNext
  <2> QED
    BY <2>1, StepPrompt
<1>3. I => PromptClosesFirst
  BY DEF PromptClosesFirst, PromptInv
<1> QED
  BY <1>1, <1>2, <1>3, PTL DEF WorldsSpec

-----------------------------------------------------------------------------
(***************************************************************************)
(* The tables of the demo script.  The provers do not evaluate a plan: the *)
(* lemmas say at which place each document is, which documents it needs or *)
(* wants, and that those are in the plan too.                              *)
(***************************************************************************)
LEMMA Shapes ==
  /\ demoCustomers = [n \in 1 .. 4 |-> demoCustomers[n]]
  /\ demoProviders = [n \in 1 .. 5 |-> demoProviders[n]]
  /\ demoBreakdowns = [n \in 1 .. 20 |-> demoBreakdowns[n]]
  /\ demoNotifications = [n \in 1 .. 9 |-> demoNotifications[n]]
<1>1. demoCustomers = [n \in 1 .. 4 |-> demoCustomers[n]]
  BY DEF demoCustomers
<1>2. demoProviders = [n \in 1 .. 5 |-> demoProviders[n]]
  BY DEF demoProviders
<1>3. demoBreakdowns = [n \in 1 .. 20 |-> demoBreakdowns[n]]
  BY DEF demoBreakdowns
<1>4. demoNotifications = [n \in 1 .. 9 |-> demoNotifications[n]]
  BY DEF demoNotifications
<1> QED
  BY <1>1, <1>2, <1>3, <1>4

\* Where everything is in the plan.
PlanAt(n) ==
  IF n <= 4 THEN << "user", demoCustomers[n] >>
  ELSE IF n <= 14 THEN << IF (n - 4) % 2 = 1 THEN "user" ELSE "profile",
                          demoProviders[((n - 4) + 1) \div 2] >>
  ELSE IF n = 15 THEN << "user", demoAdmin >>
  ELSE IF n \in { 16, 21 } THEN << "load", "ids" >>
  ELSE IF n <= 20 THEN << "vehicle", demoCustomers[n - 16] >>
  ELSE IF n <= 41 THEN << "request", demoBreakdowns[n - 21][1] >>
  ELSE IF n = 42 THEN << "load", "requests" >>
  ELSE << "note", demoNotifications[n - 42][1] >>

\* A sequence is the first k places of the plan, or the l places after those.
FirstPlaces(s, k) == s = [n \in 1 .. k |-> PlanAt(n)]
NextPlaces(t, k, l) ==
  t = [n \in 1 .. l |-> t[n]] /\ \A n \in 1 .. l : t[n] = PlanAt(k + n)

LEMMA PlanGoesOn ==
  ASSUME NEW k \in Nat, NEW l \in Nat, NEW s, NEW t,
         FirstPlaces(s, k), NextPlaces(t, k, l)
  PROVE  FirstPlaces(s \o t, k + l)
<1>1. Len(s) = k /\ Len(t) = l
  BY DEF FirstPlaces, NextPlaces
<1>2. /\ DOMAIN (s \o t) = 1 .. k + l
      /\ s \o t = [n \in 1 .. k + l |-> IF n <= k THEN s[n] ELSE t[n - k]]
  BY <1>1 DEF FirstPlaces, NextPlaces
<1>3. ASSUME NEW n \in 1 .. k + l
      PROVE  (IF n <= k THEN s[n] ELSE t[n - k]) = PlanAt(n)
  <2>1. CASE n <= k
    BY <2>1 DEF FirstPlaces
  <2>2. CASE ~ (n <= k)
    <3>1. n - k \in 1 .. l /\ k + (n - k) = n
      BY <2>2
    <3> QED
      BY <2>2, <3>1 DEF NextPlaces
  <2> QED
    BY <2>1, <2>2
<1>4. \A n \in 1 .. k + l : (s \o t)[n] = PlanAt(n)
  BY <1>2, <1>3
<1> QED
  BY <1>2, <1>4 DEF FirstPlaces

LEMMA PlanIs == Plan = [n \in 1 .. 51 |-> PlanAt(n)]
<1> DEFINE customers == Named("user", demoCustomers)
           served == [n \in 1 .. 10 |-> << IF n % 2 = 1 THEN "user" ELSE "profile",
                                           demoProviders[(n + 1) \div 2] >>]
           admin == << << "user", demoAdmin >> >>
           ids == Load("ids")
           vehicles == Named("vehicle", demoVehicles)
           breakdowns == Named("request", Keys(demoBreakdowns))
           reqs == Load("requests")
           notes == Named("note", Keys(demoNotifications))
<1>1. FirstPlaces(customers, 4) /\ NextPlaces(vehicles, 16, 4)
  BY Shapes DEF Named, demoVehicles, PlanAt, FirstPlaces, NextPlaces
<1>2. NextPlaces(served, 4, 10)
  BY DEF PlanAt, NextPlaces
<1>3. NextPlaces(admin, 14, 1)
  BY DEF PlanAt, NextPlaces
<1>4. NextPlaces(ids, 15, 1) /\ NextPlaces(ids, 20, 1)
  BY DEF PlanAt, Load, NextPlaces
<1>5. NextPlaces(breakdowns, 21, 20)
  BY Shapes DEF Named, Keys, PlanAt, NextPlaces
<1>6. NextPlaces(reqs, 41, 1)
  BY DEF PlanAt, Load, NextPlaces
<1>7. NextPlaces(notes, 42, 9)
  BY Shapes DEF Named, Keys, PlanAt, NextPlaces
<1> DEFINE p14 == customers \o served
           p15 == p14 \o admin
           p16 == p15 \o ids
           p20 == p16 \o vehicles
           p21 == p20 \o ids
           p41 == p21 \o breakdowns
           p42 == p41 \o reqs
<1>8. Plan = p42 \o notes
  <2>1. Len(demoProviders) = 5
    BY Shapes
  <2> QED
    BY <2>1 DEF Plan, SeedUsers
<1> HIDE DEF customers, served, admin, ids, vehicles, breakdowns, reqs, notes
<1>9. FirstPlaces(p14, 4 + 10)
  BY <1>1, <1>2, PlanGoesOn
<1>10. FirstPlaces(p15, 14 + 1)
  BY <1>3, <1>9, PlanGoesOn
<1> HIDE DEF p14, p15
<1>11. FirstPlaces(p16, 15 + 1)
  BY <1>4, <1>10, PlanGoesOn
<1>12. FirstPlaces(p20, 16 + 4)
  BY <1>1, <1>11, PlanGoesOn
<1> HIDE DEF p16, p20
<1>13. FirstPlaces(p21, 20 + 1)
  BY <1>4, <1>12, PlanGoesOn
<1>14. FirstPlaces(p41, 21 + 20)
  BY <1>5, <1>13, PlanGoesOn
<1> HIDE DEF p21, p41
<1>15. FirstPlaces(p42, 41 + 1)
  BY <1>6, <1>14, PlanGoesOn
<1>16. FirstPlaces(Plan, 42 + 9)
  BY <1>7, <1>8, <1>15, PlanGoesOn
<1> QED
  BY <1>16 DEF FirstPlaces

\* The kind of each place of the plan.
LEMMA PlanKinds ==
  /\ Len(Plan) = 51 /\ DOMAIN Plan = 1 .. 51
  /\ \A n \in 1 .. 51 : Plan[n] = PlanAt(n)
  /\ \A n \in 1 .. 51 :
       IF n \in { 16, 21, 42 } THEN Plan[n][1] = "load"
       ELSE /\ Plan[n] \in DemoItem
            /\ Plan[n][1] \in (IF n <= 15 THEN { "user", "profile" }
                               ELSE IF n <= 20 THEN { "vehicle" }
                               ELSE IF n <= 41 THEN { "request" } ELSE { "note" })
  /\ Plan[16][2] = "ids" /\ Plan[21][2] = "ids" /\ Plan[42][2] = "requests"
<1>1. Len(Plan) = 51 /\ DOMAIN Plan = 1 .. 51
  BY PlanIs
<1>2. \A n \in 1 .. 51 : Plan[n] = PlanAt(n)
  BY PlanIs
<1>3. ASSUME NEW n \in 1 .. 51
      PROVE  IF n \in { 16, 21, 42 } THEN Plan[n][1] = "load"
             ELSE Plan[n][1] \in (IF n <= 15 THEN { "user", "profile" }
                               ELSE IF n <= 20 THEN { "vehicle" }
                               ELSE IF n <= 41 THEN { "request" } ELSE { "note" })
  BY <1>2 DEF PlanAt
<1>4. ASSUME NEW n \in 1 .. 51, Plan[n][1] # "load" PROVE Plan[n] \in DemoItem
  BY <1>1, <1>4 DEF DemoItem, Range
<1>5. Plan[16][2] = "ids" /\ Plan[21][2] = "ids" /\ Plan[42][2] = "requests"
  BY <1>2 DEF PlanAt
<1> QED
  BY <1>1, <1>2, <1>3, <1>4, <1>5

\* Every document has a place, one that its kind allows.
LEMMA PlaceOf ==
  ASSUME NEW i \in DemoItem
  PROVE  \E n \in 1 .. 51 \ { 16, 21, 42 } : i = Plan[n]
BY PlanKinds DEF DemoItem, Range

\* The accounts of the tables have their documents in the plan.
LEMMA ItemsOfAccounts ==
  /\ \A c \in Range(demoCustomers) :
       << "user", c >> \in DemoItem /\ << "vehicle", c >> \in DemoItem
  /\ \A p \in Range(demoProviders) :
       << "user", p >> \in DemoItem /\ << "profile", p >> \in DemoItem
  /\ << "user", demoAdmin >> \in DemoItem
<1>1. ASSUME NEW n \in 1 .. 4
      PROVE  /\ << "user", demoCustomers[n] >> \in DemoItem
             /\ << "vehicle", demoCustomers[n] >> \in DemoItem
  <2>1. /\ n \in 1 .. 51 /\ n \notin { 16, 21, 42 }
        /\ Plan[n] = << "user", demoCustomers[n] >>
    BY PlanKinds DEF PlanAt
  <2>2. /\ 16 + n \in 1 .. 51 /\ 16 + n \notin { 16, 21, 42 }
        /\ Plan[16 + n] = << "vehicle", demoCustomers[n] >>
    BY PlanKinds DEF PlanAt
  <2> QED
    BY <2>1, <2>2, PlanKinds
<1>2. ASSUME NEW n \in 1 .. 5
      PROVE  /\ << "user", demoProviders[n] >> \in DemoItem
             /\ << "profile", demoProviders[n] >> \in DemoItem
  <2>1. /\ 2 * n + 3 \in 1 .. 51 /\ 2 * n + 3 \notin { 16, 21, 42 }
        /\ Plan[2 * n + 3] = << "user", demoProviders[n] >>
    BY PlanKinds DEF PlanAt
  <2>2. /\ 2 * n + 4 \in 1 .. 51 /\ 2 * n + 4 \notin { 16, 21, 42 }
        /\ Plan[2 * n + 4] = << "profile", demoProviders[n] >>
    BY PlanKinds DEF PlanAt
  <2> QED
    BY <2>1, <2>2, PlanKinds
<1>3. << "user", demoAdmin >> \in DemoItem
  <2>1. Plan[15] = << "user", demoAdmin >>
    BY PlanKinds DEF PlanAt
  <2> QED
    BY <2>1, PlanKinds
<1> QED
  BY <1>1, <1>2, <1>3, Shapes DEF Range

\* A provider's user is at an earlier place than the profile.
LEMMA UserBeforeProfile ==
  ASSUME NEW n \in 1 .. 15, Plan[n][1] = "profile"
  PROVE  n - 1 \in 1 .. 15 /\ Plan[n - 1] = << "user", Plan[n][2] >>
<1>1. Plan[n] = PlanAt(n)
  BY PlanKinds
<1>2. n \in 5 .. 14 /\ (n - 4) % 2 # 1
  BY <1>1 DEF PlanAt
<1>3. ((n - 4) + 1) \div 2 = ((n - 5) + 1) \div 2 /\ (n - 5) % 2 = 1
  BY <1>2
<1> QED
  BY <1>1, <1>2, <1>3, PlanKinds DEF PlanAt

LEMMA VehiclesAreDistinct ==
  ASSUME NEW m \in 17 .. 20, NEW n \in 17 .. 20, Plan[m] = Plan[n]
  PROVE  m = n
<1>1. demoCustomers[m - 16] = demoCustomers[n - 16]
  BY PlanKinds DEF PlanAt
<1> QED
  BY <1>1 DEF demoCustomers

LEMMA BreakdownRows ==
  ASSUME NEW n \in 1 .. 20
  PROVE  /\ demoBreakdowns[n][2] \in Range(demoCustomers)
         /\ demoBreakdowns[n][4] \in Served => demoBreakdowns[n][3] \in Range(demoProviders)
<1>1. demoBreakdowns[n][2] \in Range(demoCustomers)
  BY DEF demoBreakdowns, demoCustomers, Range
<1>2. demoBreakdowns[n][4] \in Served => demoBreakdowns[n][3] \in Range(demoProviders)
  BY DEF demoBreakdowns, demoProviders, Range, Served
<1> QED
  BY <1>1, <1>2

LEMMA NotificationRows ==
  ASSUME NEW n \in 1 .. 9
  PROVE  demoNotifications[n][2] \in
           Range(demoCustomers) \cup Range(demoProviders) \cup { demoAdmin }
BY DEF demoNotifications, demoCustomers, demoProviders, demoAdmin, Range

\* The rows of a table are found by their keys.
LEMMA EntryIsARow ==
  ASSUME NEW rows, NEW n \in DOMAIN rows
  PROVE  \E m \in DOMAIN rows :
           EntryOf(rows, rows[n][1]) = rows[m] /\ rows[m][1] = rows[n][1]
BY DEF EntryOf

LEMMA BreakdownKeysDiffer ==
  ASSUME NEW m \in 1 .. 20, NEW n \in 1 .. 20, demoBreakdowns[m][1] = demoBreakdowns[n][1]
  PROVE  m = n
BY DEF demoBreakdowns

LEMMA BreakdownEntry ==
  ASSUME NEW row \in Range(demoBreakdowns)
  PROVE  << "request", row[1] >> \in DemoItem /\ EntryOf(demoBreakdowns, row[1]) = row
<1>1. PICK n \in 1 .. 20 : row = demoBreakdowns[n]
  BY Shapes DEF Range
<1>2. /\ 21 + n \in 1 .. 51 /\ 21 + n \notin { 16, 21, 42 }
      /\ Plan[21 + n] = << "request", row[1] >>
  BY <1>1, PlanKinds DEF PlanAt
<1>3. DOMAIN demoBreakdowns = 1 .. 20
  BY Shapes
<1>4. PICK m \in 1 .. 20 : /\ EntryOf(demoBreakdowns, row[1]) = demoBreakdowns[m]
                           /\ demoBreakdowns[m][1] = row[1]
  <2>1. \E m \in DOMAIN demoBreakdowns :
          /\ EntryOf(demoBreakdowns, demoBreakdowns[n][1]) = demoBreakdowns[m]
          /\ demoBreakdowns[m][1] = demoBreakdowns[n][1]
    BY <1>3, EntryIsARow
  <2> QED
    BY <1>1, <1>3, <2>1
<1>5. m = n
  BY <1>1, <1>4, BreakdownKeysDiffer
<1>6. << "request", row[1] >> \in DemoItem
  BY <1>2, PlanKinds
<1> QED
  BY <1>1, <1>4, <1>5, <1>6

\* When --reset deletes the documents of a kind.
ClearRank == [ note |-> 1, request |-> 2, vehicle |-> 3, profile |-> 4, user |-> 5 ]

Kinds == { "note", "request", "vehicle", "profile", "user" }

LEMMA Ranks ==
  /\ ClearRank["note"] = 1 /\ ClearRank["request"] = 2 /\ ClearRank["vehicle"] = 3
  /\ ClearRank["profile"] = 4 /\ ClearRank["user"] = 5
BY DEF ClearRank

\* What a document needs or wants is in the plan, and is deleted after it; and
\* everything but a user needs a user.
LEMMA Dependencies ==
  ASSUME NEW i \in DemoItem
  PROVE  /\ i[1] \in Kinds
         /\ NeededBy(i) \cup WantedBy(i) \subseteq DemoItem
         /\ \A j \in NeededBy(i) \cup WantedBy(i) : ClearRank[i[1]] < ClearRank[j[1]]
         /\ \A j \in NeededBy(i) :
              j[1] = "user" \/ (i[1] = "request" /\ j[1] = "vehicle")
         /\ i[1] = "user" => NeededBy(i) = {}
         /\ i[1] = "profile" => WantedBy(i) = {}
         /\ i[1] # "user" => \E u \in NeededBy(i) : u[1] = "user"
         /\ i[1] = "request" /\ EntryOf(demoBreakdowns, i[2])[4] \in Served =>
              \E p \in WantedBy(i) : p[1] = "profile"
<1>1. PICK n \in 1 .. 51 \ { 16, 21, 42 } : i = Plan[n] /\ i = PlanAt(n)
  <2>1. PICK n \in 1 .. 51 \ { 16, 21, 42 } : i = Plan[n]
    BY PlaceOf
  <2>2. Plan[n] = PlanAt(n)
    BY PlanKinds
  <2> QED
    BY <2>1, <2>2
<1>2. CASE n \in 1 .. 4
  <2>1. i = << "user", demoCustomers[n] >>
    BY <1>1, <1>2 DEF PlanAt
  <2> QED
    BY <2>1 DEF NeededBy, WantedBy, Kinds
<1>3. CASE n \in 5 .. 14
  <2>1. ((n - 4) + 1) \div 2 \in 1 .. 5
    BY <1>3
  <2>2. demoProviders[((n - 4) + 1) \div 2] \in Range(demoProviders)
    BY <2>1, Shapes DEF Range
  <2>3. PICK p \in Range(demoProviders) : i = << "user", p >> \/ i = << "profile", p >>
    BY <1>1, <1>3, <2>2 DEF PlanAt
  <2>4. CASE i = << "user", p >>
    BY <2>4 DEF NeededBy, WantedBy, Kinds
  <2>5. CASE i = << "profile", p >>
    <3>1. NeededBy(i) = { << "user", p >> } /\ WantedBy(i) = {}
      BY <2>5 DEF NeededBy, WantedBy
    <3>2. i[1] = "profile" /\ \A j \in NeededBy(i) : j[1] = "user" /\ j \in DemoItem
      BY <2>5, <3>1, ItemsOfAccounts
    <3>3. << "user", p >> \in NeededBy(i)
      BY <3>1
    <3> QED
      BY <3>1, <3>2, <3>3, Ranks DEF Kinds
  <2> QED
    BY <2>3, <2>4, <2>5
<1>4. CASE n = 15
  <2>1. i = << "user", demoAdmin >>
    BY <1>1, <1>4 DEF PlanAt
  <2> QED
    BY <2>1 DEF NeededBy, WantedBy, Kinds
<1>5. CASE n \in 17 .. 20
  <2>1. PICK c \in Range(demoCustomers) : i = << "vehicle", c >>
    <3>1. n - 16 \in DOMAIN demoCustomers /\ i = << "vehicle", demoCustomers[n - 16] >>
      BY <1>1, <1>5, Shapes DEF PlanAt
    <3> QED
      BY <3>1 DEF Range
  <2>2. NeededBy(i) = { << "user", c >> } /\ WantedBy(i) = {}
    BY <2>1 DEF NeededBy, WantedBy
  <2>3. i[1] = "vehicle" /\ \A j \in NeededBy(i) : j[1] = "user" /\ j \in DemoItem
    BY <2>1, <2>2, ItemsOfAccounts
  <2>4. << "user", c >> \in NeededBy(i)
    BY <2>2
  <2> QED
    BY <2>2, <2>3, <2>4, Ranks DEF Kinds
<1>6. CASE n \in 22 .. 41
  <2>1. PICK row \in Range(demoBreakdowns) : i = << "request", row[1] >>
    <3>1. n - 21 \in DOMAIN demoBreakdowns /\ i = << "request", demoBreakdowns[n - 21][1] >>
      BY <1>1, <1>6, Shapes DEF PlanAt
    <3> QED
      BY <3>1 DEF Range
  <2>2. EntryOf(demoBreakdowns, i[2]) = row
    BY <2>1, BreakdownEntry
  <2>3. row[2] \in Range(demoCustomers) /\ (row[4] \in Served => row[3] \in Range(demoProviders))
    BY BreakdownRows, Shapes DEF Range
  <2>4. /\ NeededBy(i) = { << "user", row[2] >>, << "vehicle", row[2] >> }
        /\ WantedBy(i) = { << "profile", row[3] >> } \cap DemoItem
    BY <2>1, <2>2 DEF NeededBy, WantedBy
  <2>5. i[1] = "request" /\ << "user", row[2] >> \in NeededBy(i)
    BY <2>1, <2>4
  <2>6. \A j \in NeededBy(i) : j[1] \in { "user", "vehicle" } /\ j \in DemoItem
    <3>1. PICK c \in Range(demoCustomers) : c = row[2]
      BY <2>3
    <3> DEFINE u == << "user", c >>
               v == << "vehicle", c >>
    <3>2. NeededBy(i) = { u, v }
      BY <2>4, <3>1
    <3>3. u[1] = "user" /\ v[1] = "vehicle" /\ u \in DemoItem /\ v \in DemoItem
      BY ItemsOfAccounts
    <3> HIDE DEF u, v
    <3> QED
      BY <3>2, <3>3
  <2>7. \A j \in WantedBy(i) : j[1] = "profile" /\ j \in DemoItem
    BY <2>4
  <2>8. row[4] \in Served => << "profile", row[3] >> \in WantedBy(i)
    BY <2>3, <2>4, ItemsOfAccounts
  <2> QED
    BY <2>2, <2>5, <2>6, <2>7, <2>8, Ranks DEF Kinds
<1>7. CASE n \in 43 .. 51
  <2>1. n - 42 \in 1 .. 9 /\ i = << "note", demoNotifications[n - 42][1] >>
    BY <1>1, <1>7 DEF PlanAt
  <2>2. DOMAIN demoNotifications = 1 .. 9
    BY Shapes
  <2>3. PICK m \in 1 .. 9 : EntryOf(demoNotifications, i[2]) = demoNotifications[m]
    <3>1. \E m \in DOMAIN demoNotifications :
            EntryOf(demoNotifications, demoNotifications[n - 42][1]) = demoNotifications[m]
      BY <2>1, <2>2, EntryIsARow
    <3> QED
      BY <2>1, <2>2, <3>1
  <2> DEFINE u == demoNotifications[m][2]
             r == demoNotifications[m][3]
  <2>4. << "user", u >> \in DemoItem
    BY NotificationRows, ItemsOfAccounts
  <2>5. /\ NeededBy(i) = { << "user", u >> }
        /\ WantedBy(i) = { << "request", r >> } \cap DemoItem
    BY <2>1, <2>3 DEF NeededBy, WantedBy
  <2> HIDE DEF u, r
  <2>6. i[1] = "note" /\ << "user", u >> \in NeededBy(i)
    BY <2>1, <2>5
  <2>7. \A j \in NeededBy(i) : j[1] = "user" /\ j \in DemoItem
    BY <2>4, <2>5
  <2>8. \A j \in WantedBy(i) : j[1] = "request" /\ j \in DemoItem
    BY <2>5
  <2> QED
    BY <2>6, <2>7, <2>8, Ranks DEF Kinds
<1> QED
  BY <1>1, <1>2, <1>3, <1>4, <1>5, <1>6, <1>7

-----------------------------------------------------------------------------
(***************************************************************************)
(* No document refers to one that is gone.  A document that is there has   *)
(* all it needs and refers to the ids that these have now; an id in the    *)
(* script's memory is the one that is stored; and a reset has deleted what *)
(* comes earlier in its order, which is all that could refer to the rest.  *)
(***************************************************************************)
DemoDocument ==
  [ id : Nat, deleted : BOOLEAN, refs : SUBSET (DemoItem \X Nat),
    dates : SUBSET { "assignedAt", "arrivedAt", "completedAt", "cancelledAt" } ]

ScriptState ==
  [ pc : { "idle", "seed", "clear", "done" }, at : Nat, found : SUBSET DemoItem,
    ids : [DemoItem -> Nat], run : Nat \ { 0 }, fresh : BOOLEAN ]

DocOK(i) ==
  /\ docs[i].id = 0 => docs[i] = NoDocument
  /\ docs[i].deleted => i[1] = "vehicle"
  /\ docs[i].id # 0 => \A j \in NeededBy(i) : docs[j].id # 0
  /\ \A r \in docs[i].refs : /\ r[1] \in NeededBy(i) \cup WantedBy(i)
                             /\ r[2] # 0 /\ docs[r[1]].id = r[2]

IdsOK == \A i \in DemoItem : script.ids[i] # 0 => docs[i].id = script.ids[i]

\* What the kinds deleted so far have left, and whom the others belong to.
ClearOK ==
  script.pc = "clear" =>
    /\ script.at \in 1 .. 7 /\ script.ids = NoIds /\ script.fresh
    /\ \A i \in DemoItem : ClearRank[i[1]] < script.at => docs[i] = NoDocument
    /\ script.at <= 5 =>
         \A i \in DemoItem : i[1] = "user" /\ docs[i].id # 0 => i \in script.found

RefInv ==
  /\ docs \in [DemoItem -> DemoDocument]
  /\ script \in ScriptState
  /\ script.pc = "seed" => script.at # 0
  /\ IdsOK /\ ClearOK
  /\ \A i \in DemoItem : DocOK(i)

LEMMA SeedConstants == NoDocument \in DemoDocument /\ NoIds \in [DemoItem -> Nat]
BY DEF NoDocument, NoIds, DemoDocument

LEMMA SeedPlace ==
  ASSUME RefInv, script.pc = "seed", script.at <= Len(Plan)
  PROVE  script.at \in 1 .. 51
<1> DEFINE at == script.at
<1>1. at \in Nat
  BY DEF RefInv, ScriptState
<1>2. at # 0 /\ at <= 51
  BY PlanKinds DEF RefInv
<1> HIDE DEF at
<1>3. at \in 1 .. 51
  BY <1>1, <1>2
<1> QED
  BY <1>3 DEF at

LEMMA InitRefs == SeedInit => RefInv
<1> SUFFICES ASSUME SeedInit PROVE RefInv
  OBVIOUS
<1>1. docs \in [DemoItem -> DemoDocument] /\ script \in ScriptState
  BY SeedConstants DEF SeedInit, ScriptState
<1>2. IdsOK /\ ClearOK
  BY DEF SeedInit, IdsOK, ClearOK, NoIds
<1>3. ASSUME NEW i \in DemoItem PROVE DocOK(i)
  BY DEF SeedInit, DocOK, NoDocument
<1> QED
  BY <1>1, <1>2, <1>3 DEF RefInv, SeedInit

\* A step of the script that writes no document.
LEMMA DocsStay ==
  ASSUME RefInv, UNCHANGED docs, script' \in ScriptState,
         script'.pc = "seed" => script'.at # 0, IdsOK', script'.pc # "clear"
  PROVE  RefInv'
<1>1. \A i \in DemoItem : DocOK(i)'
  BY DEF RefInv, DocOK
<1> QED
  BY <1>1 DEF RefInv, ClearOK

LEMMA StartsKeepRefs ==
  ASSUME RefInv, StartSeed \/ StartReset
  PROVE  RefInv'
<1>1. script \in ScriptState
  BY DEF RefInv
<1>2. CASE StartSeed
  <2>1. /\ script' \in ScriptState /\ script'.pc = "seed" /\ script'.at = 1
        /\ script'.ids = NoIds
    BY <1>1, <1>2, SeedConstants DEF StartSeed, ScriptState
  <2> QED
    BY <1>2, <2>1, DocsStay DEF StartSeed, IdsOK, NoIds
<1>3. CASE StartReset
  <2>1. /\ script' \in ScriptState /\ script'.pc = "clear" /\ script'.at = 1
        /\ script'.ids = NoIds /\ script'.fresh
        /\ script'.found = { i \in DemoItem : i[1] = "user" /\ Findable(i) }
    <3> DEFINE found == { i \in DemoItem : i[1] = "user" /\ Findable(i) }
               run == script.run + 1
    <3>1. found \subseteq DemoItem /\ run \in Nat \ { 0 }
      BY <1>1 DEF ScriptState
    <3>2. script' = [script EXCEPT !.pc = "clear", !.at = 1, !.run = run, !.ids = NoIds,
                                   !.fresh = TRUE, !.found = found]
      BY <1>3 DEF StartReset
    <3> HIDE DEF found, run
    <3>3. /\ script' \in ScriptState /\ script'.pc = "clear" /\ script'.at = 1
          /\ script'.ids = NoIds /\ script'.fresh /\ script'.found = found
      BY <1>1, <3>1, <3>2, SeedConstants DEF ScriptState
    <3> QED
      BY <3>3 DEF found
  <2>2. UNCHANGED docs
    BY <1>3 DEF StartReset
  <2>3. \A i \in DemoItem : DocOK(i)'
    BY <2>2 DEF RefInv, DocOK
  <2>4. \A i \in DemoItem : ~ (ClearRank[i[1]] < 1)
    BY Dependencies, Ranks DEF Kinds
  <2>5. \A i \in DemoItem : i[1] = "user" /\ docs'[i].id # 0 => i \in script'.found
    BY <2>1, <2>2 DEF RefInv, DocOK, Findable
  <2>6. ClearOK'
    BY <2>1, <2>4, <2>5 DEF ClearOK
  <2>7. IdsOK'
    BY <2>1 DEF IdsOK, NoIds
  <2> QED
    BY <2>1, <2>2, <2>3, <2>6, <2>7 DEF RefInv
<1> QED
  BY <1>2, <1>3

LEMMA EndsKeepRefs ==
  ASSUME RefInv, SeedRejected \/ SeedEnds \/ SeedCut
  PROVE  RefInv'
<1>1. script \in ScriptState
  BY DEF RefInv
<1>2. PICK pc \in { "idle", "done" } : RunEnds(pc) /\ UNCHANGED docs
  BY DEF SeedRejected, SeedEnds, SeedCut
<1>3. script' \in ScriptState /\ script'.pc = pc /\ script'.ids = NoIds
  BY <1>1, <1>2, SeedConstants DEF RunEnds, ScriptState
<1>4. IdsOK'
  BY <1>3 DEF IdsOK, NoIds
<1> QED
  BY <1>2, <1>3, <1>4, DocsStay

LEMMA LoadKeepsRefs ==
  ASSUME RefInv, LoadIds
  PROVE  RefInv'
<1>1. script \in ScriptState /\ docs \in [DemoItem -> DemoDocument] /\ IdsOK
  BY DEF RefInv
<1> DEFINE ids == [i \in DemoItem |->
         IF (i[1] = "request") # (Plan[script.at][2] = "requests") \/ i[1] = "note"
         THEN script.ids[i]
         ELSE IF Findable(i) THEN docs[i].id ELSE 0]
<1>2. /\ script' = [script EXCEPT !.at = @ + 1, !.ids = ids]
      /\ UNCHANGED docs /\ script.pc = "seed"
  BY DEF LoadIds
<1>3. \A i \in DemoItem : ids[i] \in { script.ids[i], docs[i].id, 0 }
  OBVIOUS
<1>4. ids \in [DemoItem -> Nat]
  <2>1. \A i \in DemoItem : script.ids[i] \in Nat /\ docs[i].id \in Nat
    BY <1>1 DEF ScriptState, DemoDocument
  <2> QED
    BY <1>3, <2>1
<1> HIDE DEF ids
<1>5. script' \in ScriptState /\ script'.ids = ids /\ script'.pc = "seed" /\ script'.at # 0
  <2> DEFINE at == script.at + 1
  <2>1. at \in Nat \ { 0 }
    BY <1>1 DEF ScriptState
  <2>2. script' = [script EXCEPT !.at = at, !.ids = ids]
    BY <1>2
  <2> HIDE DEF at
  <2> QED
    BY <1>1, <1>2, <1>4, <2>1, <2>2 DEF ScriptState
<1>6. IdsOK'
  BY <1>1, <1>2, <1>3, <1>5 DEF IdsOK
<1> QED
  BY <1>2, <1>5, <1>6, DocsStay

\* What one step of a reset leaves: the kinds up to this one are gone.
LEMMA ClearedSoFar ==
  ASSUME RefInv, ClearNext
  PROVE  /\ script.at \in 1 .. 7
         /\ \A i \in DemoItem :
              docs'[i] = IF ClearRank[i[1]] <= script.at THEN NoDocument ELSE docs[i]
<1>1. /\ script.at \in 1 .. 7
      /\ \A i \in DemoItem : ClearRank[i[1]] < script.at => docs[i] = NoDocument
      /\ script.at <= 5 =>
           \A i \in DemoItem : i[1] = "user" /\ docs[i].id # 0 => i \in script.found
  BY DEF RefInv, ClearOK, ClearNext
<1>2. ClearOrder = << "note", "request", "vehicle", "profile", "user", "note", "request" >>
  BY DEF ClearOrder
<1>3. ASSUME NEW i \in DemoItem
      PROVE  docs'[i] = IF ClearRank[i[1]] <= script.at THEN NoDocument ELSE docs[i]
  <2>1. docs'[i] = IF SweptAway(i) THEN NoDocument ELSE docs[i]
    BY DEF ClearNext
  <2>2. CASE ClearRank[i[1]] < script.at
    BY <1>1, <2>1, <2>2, Dependencies, Ranks DEF Kinds
  <2>3. CASE ClearRank[i[1]] > script.at
    <3>1. i[1] # ClearOrder[script.at]
      BY <1>1, <1>2, <2>3, Dependencies, Ranks DEF Kinds
    <3> QED
      BY <1>1, <2>1, <2>3, <3>1, Dependencies, Ranks DEF SweptAway, Kinds
  <2>4. CASE ClearRank[i[1]] = script.at
    <3>1. script.at <= 5 /\ i[1] = ClearOrder[script.at]
      BY <1>1, <1>2, <2>4, Dependencies, Ranks DEF Kinds
    <3>2. docs[i].id = 0 => docs[i] = NoDocument
      BY DEF RefInv, DocOK
    <3>3. ASSUME docs[i].id # 0 PROVE (NeededBy(i) \cup { i }) \cap script.found # {}
      <4>1. CASE i[1] = "user"
        BY <1>1, <3>1, <3>3, <4>1
      <4>2. CASE i[1] # "user"
        <5>1. PICK u \in NeededBy(i) : u[1] = "user"
          BY <4>2, Dependencies
        <5>2. u \in DemoItem /\ docs[u].id # 0
          BY <3>3, Dependencies DEF RefInv, DocOK
        <5> QED
          BY <1>1, <3>1, <5>1, <5>2
      <4> QED
        BY <4>1, <4>2
    <3>4. docs[i].id # 0 => SweptAway(i)
      BY <3>1, <3>3 DEF SweptAway
    <3>5. docs'[i] = NoDocument
      BY <2>1, <3>2, <3>4
    <3> QED
      BY <1>1, <2>4, <3>5
  <2> QED
    BY <1>1, <2>2, <2>3, <2>4, Dependencies, Ranks DEF Kinds
<1> QED
  BY <1>1, <1>3

LEMMA ClearKeepsRefs ==
  ASSUME RefInv, ClearNext
  PROVE  RefInv'
<1> DEFINE at == script.at
<1>1. /\ script \in ScriptState /\ docs \in [DemoItem -> DemoDocument]
      /\ script.pc = "clear" /\ script.ids = NoIds /\ script.fresh
      /\ at <= 5 =>
           \A i \in DemoItem : i[1] = "user" /\ docs[i].id # 0 => i \in script.found
  BY DEF RefInv, ClearOK, ClearNext
<1>2. /\ at \in 1 .. 7
      /\ \A i \in DemoItem :
           docs'[i] = IF ClearRank[i[1]] <= at THEN NoDocument ELSE docs[i]
  BY ClearedSoFar
<1>3. docs' \in [DemoItem -> DemoDocument]
  <2>1. docs' = [i \in DemoItem |-> docs'[i]]
    BY DEF ClearNext
  <2>2. \A i \in DemoItem : docs'[i] \in DemoDocument
    BY <1>1, <1>2, SeedConstants
  <2> QED
    BY <2>1, <2>2
<1>4. /\ script' \in ScriptState
      /\ script'.ids = NoIds /\ script'.found = script.found /\ script'.fresh
      /\ script'.pc = "clear" => at < 7 /\ script'.at = at + 1
      /\ script'.at # 0
  <2>1. Len(ClearOrder) = 7
    BY DEF ClearOrder
  <2>2. PICK pc \in { "seed", "clear" }, n \in Nat \ { 0 } :
          /\ script' = [script EXCEPT !.pc = pc, !.at = n]
          /\ pc = "clear" => at < 7 /\ n = at + 1
    <3> DEFINE next == at + 1
    <3>1. next \in Nat \ { 0 } /\ (at # 7 => at < 7) /\ 1 \in Nat \ { 0 }
      BY <1>2
    <3>2. script' = [script EXCEPT !.pc = "seed", !.at = 1] \/
          (at # 7 /\ script' = [script EXCEPT !.pc = "clear", !.at = next])
      BY <2>1 DEF ClearNext, SeedGoes
    <3>3. CASE script' = [script EXCEPT !.pc = "seed", !.at = 1]
      BY <3>1, <3>3, Zenon
    <3>4. CASE at # 7 /\ script' = [script EXCEPT !.pc = "clear", !.at = next]
      <4> HIDE DEF at
      <4> QED
        BY <3>1, <3>4, Zenon
    <3> QED
      BY <3>2, <3>3, <3>4
  <2> QED
    BY <1>1, <2>2 DEF ScriptState
<1>5. IdsOK'
  BY <1>4 DEF IdsOK, NoIds
<1>6. \A i \in DemoItem : ClearRank[i[1]] \in Nat /\ (i[1] = "user" => ClearRank[i[1]] = 5)
  BY Dependencies, Ranks DEF Kinds
<1>7. ClearOK'
  <2>1. ASSUME script'.pc = "clear"
        PROVE  /\ script'.at \in 1 .. 7
               /\ \A i \in DemoItem : ClearRank[i[1]] < script'.at => docs'[i] = NoDocument
               /\ script'.at <= 5 =>
                    \A i \in DemoItem : i[1] = "user" /\ docs'[i].id # 0 => i \in script'.found
    <3>1. at < 7 /\ script'.at = at + 1
      BY <1>4, <2>1
    <3>2. script'.at \in 1 .. 7
      BY <1>2, <3>1
    <3>3. \A i \in DemoItem : ClearRank[i[1]] < script'.at => docs'[i] = NoDocument
      BY <1>2, <1>6, <3>1
    <3>4. ASSUME script'.at <= 5, NEW i \in DemoItem, i[1] = "user", docs'[i].id # 0
          PROVE  i \in script'.found
      <4>1. at <= 5 /\ docs'[i] = docs[i]
        BY <1>2, <1>6, <3>1, <3>4
      <4> QED
        BY <1>1, <1>4, <3>4, <4>1
    <3> QED
      BY <3>2, <3>3, <3>4
  <2> QED
    BY <1>4, <2>1 DEF ClearOK
<1>8. ASSUME NEW i \in DemoItem PROVE DocOK(i)'
  <2>1. CASE ClearRank[i[1]] <= at
    <3>1. docs'[i] = NoDocument
      BY <1>2, <2>1
    <3> QED
      BY <3>1 DEF DocOK, NoDocument
  <2>2. CASE ~ (ClearRank[i[1]] <= at)
    <3>1. docs'[i] = docs[i]
      BY <1>2, <2>2
    <3>2. ASSUME NEW j \in NeededBy(i) \cup WantedBy(i) PROVE docs'[j] = docs[j]
      <4>1. j \in DemoItem /\ ClearRank[i[1]] < ClearRank[j[1]]
        BY Dependencies
      <4>2. ~ (ClearRank[j[1]] <= at)
        BY <1>2, <1>6, <2>2, <4>1
      <4> QED
        BY <1>2, <4>1, <4>2
    <3> QED
      BY <3>1, <3>2 DEF RefInv, DocOK
  <2> QED
    BY <2>1, <2>2
<1> QED
  BY <1>3, <1>4, <1>5, <1>7, <1>8 DEF RefInv

\* What a document that is created refers to.
LEMMA SeededDocumentIsSound ==
  ASSUME RefInv, NEW item \in DemoItem, ToCreate(item), ~ SeedRejects(item)
  PROVE  /\ docs[item].id = 0
         /\ SeededDocument(item) \in DemoDocument
         /\ SeededDocument(item).id # 0 /\ ~ SeededDocument(item).deleted
         /\ \A j \in NeededBy(item) : docs[j].id # 0
         /\ \A r \in SeededDocument(item).refs :
              /\ r[1] \in NeededBy(item) \cup WantedBy(item)
              /\ r[2] # 0 /\ docs[r[1]].id = r[2]
<1> DEFINE doc == SeededDocument(item)
           named == NeededBy(item) \cup { j \in WantedBy(item) : script.ids[j] # 0 }
           dates == IF item[1] = "request"
                    THEN breakdownTimestamps(EntryOf(demoBreakdowns, item[2])[4]) ELSE {}
<1>1. /\ docs \in [DemoItem -> DemoDocument] /\ script \in ScriptState /\ IdsOK
      /\ NeededBy(item) \cup WantedBy(item) \subseteq DemoItem
      /\ item[1] = "profile" => WantedBy(item) = {}
  BY Dependencies DEF RefInv
<1>2. docs[item].id = 0
  BY DEF ToCreate, SeedRejects, Findable
<1>3. ASSUME NEW j \in named
      PROVE  /\ j \in DemoItem /\ j \in NeededBy(item) \cup WantedBy(item)
             /\ IdOf(item, j) \in Nat \ { 0 } /\ docs[j].id = IdOf(item, j)
  <2>1. j \in DemoItem /\ j \in NeededBy(item) \cup WantedBy(item)
    BY <1>1, <1>3
  <2>2. docs[j].id \in Nat /\ script.ids[j] \in Nat
    BY <1>1, <2>1 DEF DemoDocument, ScriptState
  <2>3. CASE item[1] = "profile"
    BY <1>1, <2>1, <2>2, <2>3 DEF ToCreate, IdOf
  <2>4. CASE item[1] # "profile"
    <3>1. IdOf(item, j) = script.ids[j] /\ script.ids[j] # 0
      BY <2>4 DEF ToCreate, IdOf
    <3> QED
      BY <1>1, <2>1, <2>2, <3>1 DEF IdsOK
  <2> QED
    BY <2>3, <2>4
<1>4. /\ doc = [ id |-> script.run, deleted |-> FALSE,
                 refs |-> { << j, IdOf(item, j) >> : j \in named }, dates |-> dates ]
  BY DEF SeededDocument
<1>5. dates \subseteq { "assignedAt", "arrivedAt", "completedAt", "cancelledAt" }
  BY DEF breakdownTimestamps
<1> DEFINE refs == { << j, IdOf(item, j) >> : j \in named }
<1>6. refs \subseteq DemoItem \X Nat
  BY <1>3
<1>7. \A r \in refs : /\ r[1] \in NeededBy(item) \cup WantedBy(item)
                      /\ r[2] # 0 /\ docs[r[1]].id = r[2]
  BY <1>3
<1>8. \A j \in NeededBy(item) : docs[j].id # 0
  BY <1>3
<1> HIDE DEF dates, refs, named
<1>9. doc = [ id |-> script.run, deleted |-> FALSE, refs |-> refs, dates |-> dates ]
  BY <1>4 DEF refs
<1>10. script.run \in Nat \ { 0 }
  BY <1>1 DEF ScriptState
<1> HIDE DEF doc
<1>11. doc \in DemoDocument /\ doc.id # 0 /\ ~ doc.deleted /\ doc.refs = refs
  BY <1>5, <1>6, <1>9, <1>10 DEF DemoDocument
<1> QED
  BY <1>2, <1>7, <1>8, <1>11 DEF doc

LEMMA SeedOneKeepsRefs ==
  ASSUME RefInv, SeedOne
  PROVE  RefInv'
<1> DEFINE item == Plan[script.at]
           doc == SeededDocument(item)
<1>1. /\ script \in ScriptState /\ docs \in [DemoItem -> DemoDocument]
      /\ script.pc = "seed" /\ script.at <= Len(Plan) /\ item[1] # "load"
      /\ ~ SeedRejects(item)
      /\ docs' = IF ToCreate(item) THEN [docs EXCEPT ![item] = doc] ELSE docs
      /\ script' = [script EXCEPT !.pc = "seed", !.at = script.at + 1]
  BY DEF RefInv, SeedOne, SeedGoes
<1>2. /\ script' \in ScriptState /\ script'.pc = "seed" /\ script'.at # 0
      /\ script'.ids = script.ids
  <2> DEFINE at == script.at + 1
  <2>1. at \in Nat \ { 0 }
    BY <1>1 DEF ScriptState
  <2>2. script' = [script EXCEPT !.pc = "seed", !.at = at]
    BY <1>1
  <2> HIDE DEF at
  <2> QED
    BY <1>1, <2>1, <2>2 DEF ScriptState
<1>3. CASE ~ ToCreate(item)
  BY <1>1, <1>2, <1>3, DocsStay DEF RefInv, IdsOK
<1>4. CASE ToCreate(item) /\ item \in DemoItem
  <2>1. /\ docs[item].id = 0 /\ doc \in DemoDocument /\ doc.id # 0 /\ ~ doc.deleted
        /\ \A j \in NeededBy(item) : docs[j].id # 0
        /\ \A r \in doc.refs : /\ r[1] \in NeededBy(item) \cup WantedBy(item)
                               /\ r[2] # 0 /\ docs[r[1]].id = r[2]
    BY <1>1, <1>4, SeededDocumentIsSound
  <2> HIDE DEF item, doc
  <2>2. /\ docs' \in [DemoItem -> DemoDocument] /\ docs'[item] = doc
        /\ \A i \in DemoItem : i # item => docs'[i] = docs[i]
    BY <1>1, <1>4, <2>1
  <2>3. \A i \in DemoItem : docs[i].id # 0 => docs'[i] = docs[i]
    BY <2>1, <2>2
  <2>4. IdsOK'
    BY <1>2, <2>3 DEF RefInv, IdsOK
  <2>5. ASSUME NEW i \in DemoItem PROVE DocOK(i)'
    <3>1. NeededBy(i) \cup WantedBy(i) \subseteq DemoItem
      BY Dependencies
    <3>2. CASE i = item
      BY <2>1, <2>2, <2>3, <3>1, <3>2 DEF DocOK
    <3>3. CASE i # item
      <4>1. DocOK(i) /\ docs'[i] = docs[i]
        BY <2>2, <3>3 DEF RefInv
      <4> QED
        BY <2>3, <3>1, <4>1 DEF DocOK
    <3> QED
      BY <3>2, <3>3
  <2> QED
    BY <1>2, <2>2, <2>4, <2>5 DEF RefInv, ClearOK
<1>5. script.at \in 1 .. 51
  BY <1>1, SeedPlace
<1>6. item \in DemoItem
  BY <1>1, <1>5, PlanKinds
<1> QED
  BY <1>3, <1>4, <1>6

LEMMA DeleteKeepsRefs ==
  ASSUME RefInv, NEW c \in Deletable, DeleteDemoVehicle(c)
  PROVE  RefInv'
<1> DEFINE v == << "vehicle", c >>
<1>1. /\ script \in ScriptState /\ docs \in [DemoItem -> DemoDocument]
      /\ Findable(v) /\ docs' = [docs EXCEPT ![v].deleted = TRUE]
      /\ script' = script
  BY DEF RefInv, DeleteDemoVehicle
<1>2. v[1] = "vehicle"
  OBVIOUS
<1> HIDE DEF v
<1>3. ASSUME NEW i \in DemoItem
      PROVE  /\ docs'[i] \in DemoDocument
             /\ docs'[i].id = docs[i].id /\ docs'[i].refs = docs[i].refs
             /\ docs'[i] # docs[i] => i = v
  BY <1>1 DEF DemoDocument
<1>4. docs' \in [DemoItem -> DemoDocument]
  <2>1. docs' = [i \in DemoItem |-> docs'[i]]
    BY <1>1
  <2> QED
    BY <1>3, <2>1
<1>5. ASSUME NEW i \in DemoItem PROVE DocOK(i)'
  <2>1. NeededBy(i) \cup WantedBy(i) \subseteq DemoItem
    BY Dependencies
  <2>2. DocOK(i)
    BY DEF RefInv
  <2>3. docs[i].id = 0 => docs'[i] = docs[i]
    BY <1>1, <1>3 DEF Findable
  <2>4. docs'[i].deleted => i[1] = "vehicle"
    BY <1>2, <1>3, <2>2 DEF DocOK
  <2>5. \A j \in NeededBy(i) \cup WantedBy(i) : docs'[j].id = docs[j].id
    BY <1>3, <2>1
  <2>6. docs'[i].id = docs[i].id /\ docs'[i].refs = docs[i].refs
    BY <1>3
  <2> QED
    BY <2>2, <2>3, <2>4, <2>5, <2>6 DEF DocOK
<1>6. IdsOK'
  BY <1>1, <1>3 DEF RefInv, IdsOK
<1>7. ClearOK'
  <2>1. \A i \in DemoItem : docs[i] = NoDocument => docs'[i] = docs[i]
    <3>1. NoDocument.id = 0 /\ docs[v].id # 0
      BY <1>1 DEF Findable, NoDocument
    <3> QED
      BY <1>3, <3>1
  <2> QED
    BY <1>1, <1>3, <2>1 DEF RefInv, ClearOK
<1> QED
  BY <1>1, <1>4, <1>5, <1>6, <1>7 DEF RefInv

LEMMA StepRefs == RefInv /\ [SeedNext]_seedVars => RefInv'
<1> SUFFICES ASSUME RefInv, [SeedNext]_seedVars PROVE RefInv'
  OBVIOUS
<1>1. CASE UNCHANGED seedVars
  <2>1. \A i \in DemoItem : DocOK(i)'
    BY <1>1 DEF RefInv, DocOK, seedVars
  <2> QED
    BY <1>1, <2>1 DEF RefInv, IdsOK, ClearOK, seedVars
<1>2. CASE SeedNext
  BY <1>2, StartsKeepRefs, ClearKeepsRefs, LoadKeepsRefs, SeedOneKeepsRefs,
     EndsKeepRefs, DeleteKeepsRefs DEF SeedNext
<1> QED
  BY <1>1, <1>2

\* Whenever the script is cut off, run again or reset, and whatever vehicles
\* their owners delete, no document of the demo refers to one that is gone.
THEOREM ReferencesAlwaysResolve == SeedSpec => []ReferencesResolve
<1>1. RefInv => ReferencesResolve
  BY DEF RefInv, DocOK, ReferencesResolve
<1> QED
  BY InitRefs, StepRefs, <1>1, PTL DEF SeedSpec

-----------------------------------------------------------------------------
(***************************************************************************)
(* The demo is whole.  A run has provided all it has gone through, but for *)
(* requests whose vehicle was deleted; it has the ids it needs from there  *)
(* on; and after a reset the vehicles still to come are in nobody's way.   *)
(***************************************************************************)
AVehicleIsDeleted == \E i \in DemoItem : i[1] = "vehicle" /\ docs[i].deleted

Provided(i) == docs[i].id # 0 \/ (i[1] = "request" /\ AVehicleIsDeleted)

SeedOK ==
  script.pc = "seed" =>
    /\ script.at <= 52
    /\ \A n \in 1 .. 51 : n < script.at /\ Plan[n][1] # "load" => Provided(Plan[n])
    /\ script.at > 16 =>
         \A i \in DemoItem : i[1] \in { "user", "profile" } => script.ids[i] # 0
    /\ script.at > 21 =>
         \A i \in DemoItem : i[1] = "vehicle" => script.ids[i] # 0 \/ docs[i].deleted
    /\ script.fresh =>
         \A n \in 1 .. 51 : n >= script.at /\ Plan[n][1] = "vehicle" => docs[Plan[n]].id = 0

DoneOK == script.pc = "done" => \A i \in DemoItem : Provided(i)

\* A request has the dates of its status and the provider who serves it.
Dispatched(i, doc) ==
  LET row == EntryOf(demoBreakdowns, i[2]) IN
  /\ doc.dates = breakdownTimestamps(row[4])
  /\ row[4] \in Served => \E r \in doc.refs : r[1][1] = "profile"

RequestsOK ==
  \A i \in DemoItem : i[1] = "request" /\ docs[i].id # 0 => Dispatched(i, docs[i])

WholeInv == RefInv /\ SeedOK /\ DoneOK /\ RequestsOK

\* A vehicle of the demo belongs to one of its customers.
LEMMA VehicleOwner ==
  ASSUME NEW i \in DemoItem, i[1] = "vehicle"
  PROVE  \E c \in Range(demoCustomers) : i = << "vehicle", c >>
<1>1. PICK n \in 1 .. 51 \ { 16, 21, 42 } : i = Plan[n]
  BY PlaceOf
<1>2. n \in 17 .. 20
  BY <1>1, PlanKinds
<1>3. n - 16 \in DOMAIN demoCustomers /\ i = << "vehicle", demoCustomers[n - 16] >>
  BY <1>1, <1>2, PlanKinds, Shapes DEF PlanAt
<1> QED
  BY <1>3 DEF Range

LEMMA InitWhole == SeedInit => WholeInv
<1> SUFFICES ASSUME SeedInit PROVE WholeInv
  OBVIOUS
<1>1. script.pc = "idle" /\ \A i \in DemoItem : docs[i].id = 0
  BY DEF SeedInit, NoDocument
<1> QED
  BY <1>1, InitRefs DEF WholeInv, SeedOK, DoneOK, RequestsOK

LEMMA StartsKeepWhole ==
  ASSUME WholeInv, RefInv', StartSeed \/ StartReset
  PROVE  WholeInv'
<1>1. UNCHANGED docs /\ script \in ScriptState
  BY DEF StartSeed, StartReset, WholeInv, RefInv
<1>2. RequestsOK'
  BY <1>1 DEF WholeInv, RequestsOK
<1>3. CASE StartSeed
  <2>1. script'.pc = "seed" /\ script'.at = 1 /\ ~ script'.fresh
    BY <1>1, <1>3 DEF StartSeed, ScriptState
  <2> QED
    BY <1>2, <2>1 DEF WholeInv, SeedOK, DoneOK
<1>4. CASE StartReset
  <2>1. script'.pc = "clear"
    BY <1>1, <1>4 DEF StartReset, ScriptState
  <2> QED
    BY <1>2, <2>1 DEF WholeInv, SeedOK, DoneOK
<1> QED
  BY <1>3, <1>4

LEMMA EndsKeepWhole ==
  ASSUME WholeInv, RefInv', SeedRejected \/ SeedEnds \/ SeedCut
  PROVE  WholeInv'
<1>1. UNCHANGED docs /\ script \in ScriptState
  BY DEF SeedRejected, SeedEnds, SeedCut, WholeInv, RefInv
<1>2. RequestsOK'
  BY <1>1 DEF WholeInv, RequestsOK
<1>3. CASE SeedRejected \/ SeedCut
  <2>1. script'.pc = "idle"
    BY <1>3 DEF SeedRejected, SeedCut, RunEnds
  <2> QED
    BY <1>2, <2>1 DEF WholeInv, SeedOK, DoneOK
<1>4. CASE SeedEnds
  <2>1. script'.pc = "done" /\ script.pc = "seed" /\ script.at > 51
    BY <1>4, PlanKinds DEF SeedEnds, RunEnds
  <2>2. ASSUME NEW i \in DemoItem PROVE Provided(i)
    <3>1. PICK n \in 1 .. 51 \ { 16, 21, 42 } : i = Plan[n]
      BY PlaceOf
    <3>2. n < script.at /\ Plan[n][1] # "load"
      BY <1>1, <2>1, <3>1, Dependencies DEF ScriptState, Kinds
    <3> QED
      BY <2>1, <3>1, <3>2 DEF WholeInv, SeedOK
  <2>3. DoneOK'
    BY <1>1, <2>2 DEF DoneOK, Provided, AVehicleIsDeleted
  <2> QED
    BY <1>2, <2>1, <2>3 DEF WholeInv, SeedOK
<1> QED
  BY <1>3, <1>4

LEMMA ClearKeepsWhole ==
  ASSUME WholeInv, RefInv', ClearNext
  PROVE  WholeInv'
<1>1. /\ script \in ScriptState /\ script.at \in 1 .. 7
      /\ \A i \in DemoItem :
           docs'[i] = IF ClearRank[i[1]] <= script.at THEN NoDocument ELSE docs[i]
  BY ClearedSoFar DEF WholeInv, RefInv
<1>2. RequestsOK'
  BY <1>1 DEF WholeInv, RequestsOK, NoDocument
<1>3. Len(ClearOrder) = 7
  BY DEF ClearOrder
<1>4. CASE script.at = 7
  <2>1. script'.pc = "seed" /\ script'.at = 1
    BY <1>1, <1>3, <1>4 DEF ClearNext, SeedGoes, ScriptState
  <2>2. \A i \in DemoItem : docs'[i].id = 0
    BY <1>1, <1>4, Dependencies, Ranks DEF Kinds, NoDocument
  <2>3. \A n \in 1 .. 51 : Plan[n][1] = "vehicle" => docs'[Plan[n]].id = 0
    BY <2>2, PlanKinds
  <2> QED
    BY <1>2, <2>1, <2>3 DEF WholeInv, SeedOK, DoneOK
<1>5. CASE script.at # 7
  <2>1. script'.pc = "clear"
    BY <1>1, <1>3, <1>5 DEF ClearNext, SeedGoes, ScriptState
  <2> QED
    BY <1>2, <2>1 DEF WholeInv, SeedOK, DoneOK
<1> QED
  BY <1>4, <1>5

LEMMA LoadKeepsWhole ==
  ASSUME WholeInv, RefInv', LoadIds
  PROVE  WholeInv'
<1> DEFINE at == script.at
<1>1. /\ script \in ScriptState /\ docs \in [DemoItem -> DemoDocument]
      /\ script.pc = "seed" /\ at # 0 /\ at <= 51 /\ Plan[at][1] = "load"
      /\ UNCHANGED docs
  BY PlanKinds DEF LoadIds, WholeInv, RefInv
<1>2. at \in { 16, 21, 42 }
  <2>1. at \in 1 .. 51
    BY <1>1 DEF ScriptState
  <2>2. Plan[at][1] \notin Kinds
    BY <1>1 DEF Kinds
  <2> QED
    BY <2>1, <2>2, PlanKinds, Dependencies
<1>3. /\ script'.pc = "seed" /\ script'.at = at + 1 /\ script'.fresh = script.fresh
      /\ \A i \in DemoItem : script'.ids[i] =
           IF (i[1] = "request") # (Plan[at][2] = "requests") \/ i[1] = "note"
           THEN script.ids[i]
           ELSE IF Findable(i) THEN docs[i].id ELSE 0
  BY <1>1 DEF LoadIds, ScriptState
<1>4. ASSUME NEW n \in 1 .. 51, n < at, Plan[n][1] # "load" PROVE Provided(Plan[n])
  BY <1>1, <1>4 DEF WholeInv, SeedOK
<1>5. ASSUME NEW i \in DemoItem, i[1] \in { "user", "profile" }
      PROVE  script'.ids[i] # 0
  <2>1. PICK n \in 1 .. 51 \ { 16, 21, 42 } : i = Plan[n]
    BY PlaceOf
  <2>2. n <= 15
    BY <1>5, <2>1, PlanKinds
  <2>3. docs[i].id # 0
    BY <1>2, <1>4, <1>5, <2>1, <2>2 DEF Provided
  <2>4. Findable(i)
    BY <1>5, <2>3 DEF WholeInv, RefInv, DocOK, Findable
  <2>5. CASE at = 42
    <3>1. script.ids[i] # 0
      BY <1>1, <1>5, <2>5 DEF WholeInv, SeedOK
    <3> QED
      BY <1>3, <1>5, <2>5, <3>1, PlanKinds
  <2>6. CASE at # 42
    BY <1>2, <1>3, <1>5, <2>3, <2>4, <2>6, PlanKinds
  <2> QED
    BY <2>5, <2>6
<1>6. ASSUME NEW i \in DemoItem, i[1] = "vehicle", at # 16
      PROVE  script'.ids[i] # 0 \/ docs'[i].deleted
  <2>1. PICK n \in 1 .. 51 \ { 16, 21, 42 } : i = Plan[n]
    BY PlaceOf
  <2>2. n <= 20
    BY <1>6, <2>1, PlanKinds
  <2>3. docs[i].id # 0
    BY <1>2, <1>4, <1>6, <2>1, <2>2 DEF Provided
  <2>4. CASE at = 42
    <3>1. script.ids[i] # 0 \/ docs[i].deleted
      BY <1>1, <1>6, <2>4 DEF WholeInv, SeedOK
    <3> QED
      BY <1>1, <1>3, <1>6, <2>4, <3>1, PlanKinds
  <2>5. CASE at = 21
    BY <1>1, <1>3, <1>6, <2>3, <2>5, PlanKinds DEF Findable
  <2> QED
    BY <1>2, <1>6, <2>4, <2>5
<1>7. \A n \in 1 .. 51 : n < at + 1 /\ Plan[n][1] # "load" => Provided(Plan[n])
  BY <1>1, <1>2, <1>4
<1>8. \A i \in DemoItem : Provided(i) => Provided(i)'
  BY <1>1 DEF Provided, AVehicleIsDeleted
<1>9. \A n \in 1 .. 51 : Plan[n][1] # "load" => Plan[n] \in DemoItem
  BY PlanKinds
<1>10. SeedOK'
  <2>1. script'.at <= 52 /\ (script'.at > 21 => at # 16)
    BY <1>2, <1>3
  <2>2. \A n \in 1 .. 51 : n < script'.at /\ Plan[n][1] # "load" => Provided(Plan[n])'
    BY <1>3, <1>7, <1>8, <1>9
  <2>3. script'.fresh =>
          \A n \in 1 .. 51 : n >= script'.at /\ Plan[n][1] = "vehicle" => docs'[Plan[n]].id = 0
    BY <1>1, <1>2, <1>3 DEF WholeInv, SeedOK
  <2> QED
    BY <1>5, <1>6, <2>1, <2>2, <2>3 DEF SeedOK
<1>11. RequestsOK'
  BY <1>1 DEF WholeInv, RequestsOK
<1> QED
  BY <1>3, <1>10, <1>11 DEF WholeInv, DoneOK

LEMMA SeedOneKeepsWhole ==
  ASSUME WholeInv, RefInv', SeedOne
  PROVE  WholeInv'
<1>0. PICK at \in 1 .. 51 : at = script.at
  BY SeedPlace DEF SeedOne, WholeInv
<1> DEFINE item == Plan[at]
           doc == SeededDocument(item)
<1>1. /\ RefInv /\ script \in ScriptState /\ docs \in [DemoItem -> DemoDocument]
      /\ script.pc = "seed" /\ at \in 1 .. 51 /\ item[1] # "load"
      /\ ~ SeedRejects(item)
      /\ docs' = IF ToCreate(item) THEN [docs EXCEPT ![item] = doc] ELSE docs
      /\ script'.pc = "seed" /\ script'.at = at + 1 /\ script'.ids = script.ids
      /\ script'.fresh = script.fresh
  BY <1>0 DEF SeedOne, SeedGoes, WholeInv, RefInv, ScriptState
<1>2. /\ item \in DemoItem /\ at \notin { 16, 21, 42 }
      /\ item[1] \in (IF at <= 15 THEN { "user", "profile" }
                      ELSE IF at <= 20 THEN { "vehicle" }
                      ELSE IF at <= 41 THEN { "request" } ELSE { "note" })
  BY <1>1, PlanKinds
<1>3. /\ \A n \in 1 .. 51 : n < at /\ Plan[n][1] # "load" => Provided(Plan[n])
      /\ at > 16 => \A i \in DemoItem : i[1] \in { "user", "profile" } => script.ids[i] # 0
      /\ at > 21 =>
           \A i \in DemoItem : i[1] = "vehicle" => script.ids[i] # 0 \/ docs[i].deleted
      /\ script.fresh =>
           \A n \in 1 .. 51 : n >= at /\ Plan[n][1] = "vehicle" => docs[Plan[n]].id = 0
  BY <1>0, <1>1 DEF WholeInv, SeedOK
\* Documents are added, and none is changed.
<1>4. /\ \A i \in DemoItem : docs[i].id # 0 => docs'[i] = docs[i]
      /\ \A i \in DemoItem : i # item => docs'[i] = docs[i]
      /\ ToCreate(item) => docs'[item] = doc /\ doc.id # 0
  BY <1>1, <1>2, SeededDocumentIsSound
<1>5. \A i \in DemoItem : docs[i].deleted => docs'[i] = docs[i]
  BY <1>1, <1>4 DEF RefInv, DocOK, NoDocument
<1>6. /\ \A i \in DemoItem : Provided(i) => Provided(i)'
      /\ AVehicleIsDeleted => AVehicleIsDeleted'
  BY <1>4, <1>5 DEF Provided, AVehicleIsDeleted
<1>7. Provided(item)'
  <2>1. CASE ToCreate(item)
    BY <1>4, <2>1 DEF Provided
  <2>2. CASE Findable(item)
    BY <1>2, <1>4, <2>2 DEF Provided, Findable
  <2>3. ASSUME NEW j \in NeededBy(item), IdOf(item, j) = 0
        PROVE  Provided(item)'
    <3>1. /\ j \in DemoItem /\ item[1] # "user"
          /\ j[1] = "user" \/ (item[1] = "request" /\ j[1] = "vehicle")
      BY <1>2, Dependencies
    <3>2. CASE item[1] = "profile"
      <4>1. at - 1 \in 1 .. 51 /\ at - 1 < at /\ Plan[at - 1] = << "user", item[2] >>
        BY <1>1, <1>2, <3>2, UserBeforeProfile
      <4>2. j = << "user", item[2] >>
        BY <3>2 DEF NeededBy
      <4>3. docs[j].id # 0
        BY <1>3, <4>1, <4>2 DEF Provided
      <4> QED
        BY <2>3, <3>2, <4>3 DEF IdOf
    <3>3. CASE item[1] # "profile"
      <4>1. at > 16 /\ script.ids[j] = 0
        <5>1. at > 16
          BY <1>1, <1>2, <3>1, <3>3
        <5> QED
          BY <2>3, <3>3, <5>1 DEF IdOf
      <4>2. item[1] = "request" /\ j[1] = "vehicle"
        BY <1>3, <3>1, <4>1
      <4>3. at > 21
        BY <1>1, <1>2, <4>2
      <4>4. docs[j].deleted
        BY <1>3, <3>1, <4>1, <4>2, <4>3
      <4>5. AVehicleIsDeleted
        BY <3>1, <4>2, <4>4 DEF AVehicleIsDeleted
      <4> QED
        BY <1>6, <4>2, <4>5 DEF Provided
    <3> QED
      BY <3>2, <3>3
  <2> QED
    BY <2>1, <2>2, <2>3 DEF ToCreate
<1>8. SeedOK'
  <2>1. ASSUME NEW n \in 1 .. 51, n < at + 1, Plan[n][1] # "load" PROVE Provided(Plan[n])'
    <3>1. Plan[n] \in DemoItem
      BY <2>1, PlanKinds
    <3>2. CASE n = at
      BY <1>7, <3>2
    <3>3. CASE n # at
      <4>1. n < at
        BY <1>1, <2>1, <3>3
      <4> QED
        BY <1>3, <1>6, <2>1, <3>1, <4>1
    <3> QED
      BY <3>2, <3>3
  <2>2. (at + 1 > 16 => at > 16) /\ (at + 1 > 21 => at > 21) /\ at + 1 <= 52
    BY <1>1, <1>2
  <2>3. ASSUME script.fresh, NEW n \in 1 .. 51, n >= at + 1, Plan[n][1] = "vehicle"
        PROVE  docs'[Plan[n]].id = 0
    <3>1. n >= at /\ n # at
      BY <2>3
    <3>2. n \notin { 16, 21, 42 }
      BY <2>3, PlanKinds
    <3>3. Plan[n] \in DemoItem /\ n \in 17 .. 20
      BY <2>3, <3>2, PlanKinds
    <3>4. Plan[n] # item
      <4>1. ASSUME Plan[n] = item PROVE FALSE
        <5>1. at \in 17 .. 20
          BY <1>1, <1>2, <2>3, <4>1
        <5> QED
          BY <3>1, <3>3, <4>1, <5>1, VehiclesAreDistinct
      <4> QED
        BY <4>1
    <3> QED
      BY <1>3, <1>4, <2>3, <3>1, <3>3, <3>4
  <2>4. at > 21 => \A i \in DemoItem : i[1] = "vehicle" => script.ids[i] # 0 \/ docs'[i].deleted
    BY <1>3, <1>5
  <2> QED
    BY <1>1, <1>3, <2>1, <2>2, <2>3, <2>4 DEF SeedOK
<1>9. ASSUME NEW i \in DemoItem, i[1] = "request", docs'[i].id # 0
      PROVE  Dispatched(i, docs'[i])
  <2>1. CASE docs[i].id # 0
    BY <1>4, <1>9, <2>1 DEF WholeInv, RequestsOK
  <2>2. CASE docs[i].id = 0
    <3>1. i = item /\ ToCreate(item)
      BY <1>1, <1>4, <1>9, <2>2
    <3>2. docs'[i] = doc /\ at > 16
      BY <1>1, <1>2, <1>4, <1>9, <3>1
    <3>3. doc.dates = breakdownTimestamps(EntryOf(demoBreakdowns, i[2])[4])
      BY <1>9, <3>1 DEF SeededDocument
    <3>4. ASSUME EntryOf(demoBreakdowns, i[2])[4] \in Served
          PROVE  \E r \in doc.refs : r[1][1] = "profile"
      <4>1. PICK p \in WantedBy(i) : p[1] = "profile" /\ p \in DemoItem
        BY <1>9, <3>4, Dependencies
      <4>2. script.ids[p] # 0
        BY <1>3, <3>2, <4>1
      <4>3. << p, IdOf(item, p) >> \in doc.refs
        BY <3>1, <4>1, <4>2 DEF SeededDocument
      <4> DEFINE r == << p, IdOf(item, p) >>
      <4>4. r[1][1] = "profile"
        BY <4>1
      <4> HIDE DEF r
      <4> QED
        BY <4>3, <4>4 DEF r
    <3> QED
      BY <3>2, <3>3, <3>4 DEF Dispatched
  <2> QED
    BY <2>1, <2>2
<1>10. RequestsOK'
  BY <1>9 DEF RequestsOK
<1> QED
  BY <1>1, <1>8, <1>10 DEF WholeInv, DoneOK

LEMMA DeleteKeepsWhole ==
  ASSUME WholeInv, RefInv', NEW c \in Deletable, DeleteDemoVehicle(c)
  PROVE  WholeInv'
<1> DEFINE v == << "vehicle", c >>
<1>1. /\ docs \in [DemoItem -> DemoDocument]
      /\ docs' = [docs EXCEPT ![v].deleted = TRUE]
      /\ script' = script
  BY DEF WholeInv, RefInv, DeleteDemoVehicle
<1>2. v[1] = "vehicle"
  OBVIOUS
<1> HIDE DEF v
<1>3. ASSUME NEW i \in DemoItem
      PROVE  /\ docs'[i].id = docs[i].id
             /\ docs[i].deleted => docs'[i].deleted
             /\ i # v => docs'[i] = docs[i]
  BY <1>1 DEF DemoDocument
<1>4. \A i \in DemoItem : Provided(i) => Provided(i)'
  BY <1>3 DEF Provided, AVehicleIsDeleted
<1>5. \A n \in 1 .. 51 : Plan[n][1] # "load" => Plan[n] \in DemoItem
  BY PlanKinds
<1>6. DoneOK'
  BY <1>1, <1>4 DEF WholeInv, DoneOK
<1>7. RequestsOK'
  BY <1>2, <1>3 DEF WholeInv, RequestsOK
<1>8. SeedOK'
  BY <1>1, <1>3, <1>4, <1>5 DEF WholeInv, SeedOK
<1> QED
  BY <1>6, <1>7, <1>8 DEF WholeInv

LEMMA StepWhole == WholeInv /\ [SeedNext]_seedVars => WholeInv'
<1> SUFFICES ASSUME WholeInv, [SeedNext]_seedVars PROVE WholeInv'
  OBVIOUS
<1>1. RefInv'
  BY StepRefs DEF WholeInv
<1>2. CASE UNCHANGED seedVars
  BY <1>1, <1>2 DEF WholeInv, SeedOK, DoneOK, RequestsOK, Provided, AVehicleIsDeleted, seedVars
<1>3. CASE SeedNext
  BY <1>1, <1>3, StartsKeepWhole, ClearKeepsWhole, LoadKeepsWhole, SeedOneKeepsWhole,
     EndsKeepWhole, DeleteKeepsWhole DEF SeedNext
<1> QED
  BY <1>2, <1>3

LEMMA WholeIsWhole == WholeInv => DemoIsWhole
<1> SUFFICES ASSUME WholeInv PROVE DemoIsWhole
  OBVIOUS
<1>1. SeededAsDispatched
  <2> SUFFICES ASSUME NEW row \in Range(demoBreakdowns), IsThere(<< "request", row[1] >>)
               PROVE  LET doc == docs[<< "request", row[1] >>] IN
                      /\ row[4] \in Served =>
                           (\E r \in doc.refs : r[1][1] = "profile") /\ "assignedAt" \in doc.dates
                      /\ row[4] \in { "ARRIVED", "IN_PROGRESS", "COMPLETED" } =>
                           "arrivedAt" \in doc.dates
                      /\ row[4] = "COMPLETED" <=> "completedAt" \in doc.dates
                      /\ row[4] = "CANCELLED" <=> "cancelledAt" \in doc.dates
    BY DEF SeededAsDispatched
  <2> DEFINE i == << "request", row[1] >>
             status == row[4]
  <2>1. i \in DemoItem /\ i[1] = "request" /\ EntryOf(demoBreakdowns, i[2]) = row
    BY BreakdownEntry
  <2>2. docs[i].id # 0
    BY DEF IsThere
  <2> HIDE DEF i
  <2>3. /\ docs[i].dates = breakdownTimestamps(status)
        /\ status \in Served => \E r \in docs[i].refs : r[1][1] = "profile"
    BY <2>1, <2>2 DEF WholeInv, RequestsOK, Dispatched
  <2> HIDE DEF status
  <2>4. /\ "assignedAt" \in breakdownTimestamps(status) <=> status \in Served
        /\ "arrivedAt" \in breakdownTimestamps(status)
             <=> status \in { "ARRIVED", "IN_PROGRESS", "COMPLETED" }
        /\ "completedAt" \in breakdownTimestamps(status) <=> status = "COMPLETED"
        /\ "cancelledAt" \in breakdownTimestamps(status) <=> status = "CANCELLED"
    BY DEF breakdownTimestamps
  <2> QED
    BY <2>3, <2>4 DEF i, status
<1>2. CompleteRunIsWhole
  <2> SUFFICES ASSUME script.pc = "done",
                      \A c \in Range(demoCustomers) : ~ docs[<< "vehicle", c >>].deleted,
                      NEW i \in DemoItem
               PROVE  docs[i].id # 0
    BY DEF CompleteRunIsWhole, IsThere
  <2>1. ~ AVehicleIsDeleted
    BY VehicleOwner DEF AVehicleIsDeleted
  <2> QED
    BY <2>1 DEF WholeInv, DoneOK, Provided
<1>3. ResetGetsThrough
  <2> SUFFICES ASSUME script.fresh, script.pc = "seed", script.at <= Len(Plan),
                      Plan[script.at][1] # "load", SeedRejects(Plan[script.at])
               PROVE  FALSE
    BY DEF ResetGetsThrough
  <2>1. script.at \in 1 .. 51
    BY SeedPlace DEF WholeInv
  <2>2. Plan[script.at] \in DemoItem /\ docs[Plan[script.at]].deleted
    BY <2>1, PlanKinds DEF SeedRejects
  <2>3. Plan[script.at][1] = "vehicle" /\ docs[Plan[script.at]] # NoDocument
    BY <2>2 DEF WholeInv, RefInv, DocOK, NoDocument
  <2>4. docs[Plan[script.at]].id = 0
    <3>1. PICK n \in 1 .. 51 : n = script.at
      BY <2>1
    <3>2. n >= script.at /\ Plan[n][1] = "vehicle"
      BY <2>3, <3>1
    <3>3. docs[Plan[n]].id = 0
      BY <3>2 DEF WholeInv, SeedOK
    <3> QED
      BY <3>1, <3>3
  <2> QED
    BY <2>2, <2>3, <2>4 DEF WholeInv, RefInv, DocOK
<1> QED
  BY <1>1, <1>2, <1>3 DEF DemoIsWhole

\* However often the script is cut off, run again or reset, and whatever
\* vehicles their owners delete: requests are stored as the dispatcher would
\* have left them, a run that reports success has left the whole demo behind,
\* and a run with --reset is not refused.
THEOREM DemoIsAlwaysWhole == SeedSpec => []DemoIsWhole
BY InitWhole, StepWhole, WholeIsWhole, PTL DEF SeedSpec

\* Both hold of the run as well: no step of any of its worlds does more to the
\* demo than a step of the script.
THEOREM DemoOfTheRun == WorldsSpec => [](ReferencesResolve /\ DemoIsWhole)
<1>1. WorldsInit => SeedInit
  BY DEF WorldsInit
<1>2. [WorldsNext]_<< vars, seedVars, world >> => [SeedNext]_seedVars
  BY Zenon DEF WorldsNext
<1>3. WorldsSpec => SeedSpec
  BY <1>1, <1>2, PTL DEF WorldsSpec, SeedSpec
<1> QED
  BY <1>3, ReferencesAlwaysResolve, DemoIsAlwaysWhole, PTL

=============================================================================
