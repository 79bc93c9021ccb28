------------------------------ MODULE Tracking ------------------------------
(***************************************************************************)
(* The live tracking of one request: who is in its Socket.IO room          *)
(* (realtime/services/request-room.service.ts) and what happens to the     *)
(* positions that providers send (realtime/services/tracking.service.ts).  *)
(*                                                                         *)
(* A position goes to the room at once and to the database at most every   *)
(* Interval: the handler compares the clock with the time of the last      *)
(* write, saves, and only then notes the time.                             *)
(*                                                                         *)
(* The dispatch engine changes the assigned provider as it likes: that is  *)
(* Dispatch, and here one action.                                          *)
(***************************************************************************)
EXTENDS Naturals, FiniteSets

CONSTANTS
  Provider,     \* provider profiles
  NoProvider,   \* null
  Customer,     \* the customer of the request
  Socket,
  Owner,        \* Owner[s]: whose socket it is
  Handler,      \* slots for events in flight
  Interval,     \* LOCATION_SAVE_INTERVAL_MS, in ticks
  Overlap,      \* may anything happen while a handler awaits?
  MaxTime       \* bound on the clock

ASSUME TrackingAssumption ==
  /\ NoProvider \notin Provider
  /\ Customer \notin Provider \cup { NoProvider }
  /\ Socket # {} /\ Owner \in [Socket -> Provider \cup { Customer }]
  /\ Interval \in Nat \ {0} /\ MaxTime \in Nat /\ Interval <= MaxTime
  /\ Overlap \in BOOLEAN

VARIABLES
  assigned,     \* the stored assignedProviderId
  open,         \* the connected sockets
  room,         \* the adapter's room request:<id>
  position,     \* position[p]: when the stored currentLocation was sent
  lastSave,     \* lastProviderLocationSave[p]
  now,
  handler,
  wasAssigned,  \* history: the providers the request has been assigned to
  sent          \* history: sent[p]: when p's last broadcast position was sent

vars == << assigned, open, room, position, lastSave, now, handler,
           wasAssigned, sent >>

\* A provider that has not saved yet: 0 in the code, where the clock is far
\* from 0.  Here the clock starts at Interval, so that 0 is long ago too.
Never == 0

HandlerState ==
  [ pc      : { "idle", "join", "locate", "profile", "save", "mark" },
    socket  : Socket,
    allowed : BOOLEAN,          \* what getRequestById answered
    at      : 0 .. MaxTime,     \* when the position was sent
    time    : 0 .. MaxTime ]    \* `now' of the handler

AnySocket == CHOOSE s \in Socket : TRUE
Idle == [ pc |-> "idle", socket |-> AnySocket, allowed |-> FALSE, at |-> 0, time |-> 0 ]

Goes(h, local) == handler' = [handler EXCEPT ![h] = local]
Quiet == \A h \in Handler : handler[h].pc = "idle"

\* Without overlap a handler runs alone, and in less than a tick.
Undisturbed == Overlap \/ Quiet

Init ==
  /\ assigned = NoProvider
  /\ open = {} /\ room = {}
  /\ position = [p \in Provider |-> Never]
  /\ lastSave = [p \in Provider |-> Never]
  /\ now = Interval
  /\ handler = [h \in Handler |-> Idle]
  /\ wasAssigned = {}
  /\ sent = [p \in Provider |-> Never]

-----------------------------------------------------------------------------
\* createRequest, assignProvider: anyone else, or nobody yet.
Assign ==
  /\ Undisturbed
  /\ \E p \in Provider \ { assigned } :
       /\ assigned' = p
       /\ wasAssigned' = wasAssigned \cup { p }
  /\ UNCHANGED << open, room, position, lastSave, now, handler, sent >>

Connect(s) ==
  /\ Undisturbed
  /\ s \notin open
  /\ open' = open \cup { s }
  /\ UNCHANGED << assigned, room, position, lastSave, now, handler, wasAssigned, sent >>

\* Socket.IO takes a socket out of its rooms when it closes.
Disconnect(s) ==
  /\ Undisturbed
  /\ s \in open
  /\ open' = open \ { s }
  /\ room' = room \ { s }
  /\ UNCHANGED << assigned, position, lastSave, now, handler, wasAssigned, sent >>

Tick ==
  /\ Undisturbed
  /\ now < MaxTime
  /\ now' = now + 1
  /\ UNCHANGED << assigned, open, room, position, lastSave, handler, wasAssigned, sent >>

-----------------------------------------------------------------------------
(***************************************************************************)
(* Rooms.                                                                  *)
(***************************************************************************)
\* assertCanView.
CanView(u) == u = Customer \/ u = assigned

\* The request is read: the answer depends on it alone.
RequestJoin(h, s) ==
  /\ Undisturbed
  /\ handler[h].pc = "idle"
  /\ s \in open
  /\ Goes(h, [Idle EXCEPT !.pc = "join", !.socket = s, !.allowed = CanView(Owner[s])])
  /\ UNCHANGED << assigned, open, room, position, lastSave, now, wasAssigned, sent >>

\* Whether the socket is still open is not asked, and the adapter does not
\* ask either.
Join(h) ==
  /\ handler[h].pc = "join"
  /\ room' = IF handler[h].allowed THEN room \cup { handler[h].socket } ELSE room
  /\ Goes(h, Idle)
  /\ UNCHANGED << assigned, open, position, lastSave, now, wasAssigned, sent >>

RequestLeave(s) ==
  /\ Undisturbed
  /\ s \in open
  /\ room' = room \ { s }
  /\ UNCHANGED << assigned, open, position, lastSave, now, handler, wasAssigned, sent >>

-----------------------------------------------------------------------------
(***************************************************************************)
(* Positions.                                                              *)
(***************************************************************************)
\* Mutated: any provider may send positions.
LocationUpdate_Anybody(h, s) ==
  /\ Undisturbed
  /\ handler[h].pc = "idle"
  /\ s \in open /\ Owner[s] # Customer
  /\ Goes(h, [Idle EXCEPT !.pc = "locate", !.socket = s, !.at = now, !.allowed = TRUE])
  /\ UNCHANGED << assigned, open, room, position, lastSave, now, wasAssigned, sent >>

LocationUpdate(h, s) ==
  /\ Undisturbed
  /\ handler[h].pc = "idle"
  /\ s \in open /\ Owner[s] # Customer
  /\ Goes(h, [Idle EXCEPT !.pc = "locate", !.socket = s, !.at = now,
                          !.allowed = (Owner[s] = assigned)])
  /\ UNCHANGED << assigned, open, room, position, lastSave, now, wasAssigned, sent >>

\* The position is broadcast, then the profile is loaded.
Broadcast(h) ==
  LET p == Owner[handler[h].socket] IN
  /\ handler[h].pc = "locate"
  /\ IF handler[h].allowed
       THEN /\ sent' = [sent EXCEPT ![p] = handler[h].at]
            /\ Goes(h, [handler[h] EXCEPT !.pc = "profile"])
       ELSE Goes(h, Idle) /\ UNCHANGED sent
  /\ UNCHANGED << assigned, open, room, position, lastSave, now, wasAssigned >>

\* Mutated: the comparison is off by one tick.
Due_Late(p) == now - lastSave[p] > Interval

Due(p) == now - lastSave[p] >= Interval

Throttle(h) ==
  /\ handler[h].pc = "profile"
  /\ IF Due(Owner[handler[h].socket])
       THEN Goes(h, [handler[h] EXCEPT !.pc = "save", !.time = now])
       ELSE Goes(h, Idle)
  /\ UNCHANGED << assigned, open, room, position, lastSave, now, wasAssigned, sent >>

Save(h) ==
  /\ handler[h].pc = "save"
  /\ position' = [position EXCEPT ![Owner[handler[h].socket]] = handler[h].at]
  /\ Goes(h, [handler[h] EXCEPT !.pc = "mark"])
  /\ UNCHANGED << assigned, open, room, lastSave, now, wasAssigned, sent >>

Mark(h) ==
  /\ handler[h].pc = "mark"
  /\ lastSave' = [lastSave EXCEPT ![Owner[handler[h].socket]] = handler[h].time]
  /\ Goes(h, Idle)
  /\ UNCHANGED << assigned, open, room, position, now, wasAssigned, sent >>

\* A rejected save throws: the time is not noted.
SaveFails(h) ==
  /\ Overlap
  /\ handler[h].pc = "save"
  /\ Goes(h, Idle)
  /\ UNCHANGED << assigned, open, room, position, lastSave, now, wasAssigned, sent >>

Next ==
  \/ Assign \/ Tick
  \/ \E s \in Socket : Connect(s) \/ Disconnect(s) \/ RequestLeave(s)
  \/ \E h \in Handler :
       \/ \E s \in Socket : RequestJoin(h, s) \/ LocationUpdate(h, s)
       \/ Join(h) \/ Broadcast(h) \/ Throttle(h) \/ Save(h) \/ Mark(h) \/ SaveFails(h)

Spec == Init /\ [][Next]_vars

-----------------------------------------------------------------------------
(***************************************************************************)
(* Properties.                                                             *)
(***************************************************************************)

\* Every variable has its type.
TypeOK ==
  /\ assigned \in Provider \cup { NoProvider }
  /\ open \subseteq Socket /\ room \subseteq Socket
  /\ position \in [Provider -> 0 .. MaxTime]
  /\ lastSave \in [Provider -> 0 .. MaxTime]
  /\ now \in Interval .. MaxTime
  /\ handler \in [Handler -> HandlerState]
  /\ wasAssigned \subseteq Provider
  /\ sent \in [Provider -> 0 .. MaxTime]

\* Nobody is in the room who was never entitled to be: not even a provider
\* whose join was decided while the request changed hands (joinRequestRoom).
RoomWasEntitled ==
  \A s \in room : Owner[s] = Customer \/ Owner[s] \in wasAssigned

\* Only a provider that was assigned is ever tracked, on the map or in the
\* database (handleLocationUpdate).
TrackedWasAssigned ==
  \A p \in Provider : sent[p] # Never \/ position[p] # Never => p \in wasAssigned

\* Neither the room nor the map is open to anybody who was never entitled:
\* both of the above (joinRequestRoom, handleLocationUpdate).
OnlyTheEntitled == TypeOK /\ RoomWasEntitled /\ TrackedWasAssigned

\* Nothing in flight: the stored position of a provider was sent less than an
\* Interval before the last one that was broadcast (handleLocationUpdate).
StoredIsRecent ==
  Quiet => \A p \in Provider : sent[p] # Never => sent[p] < position[p] + Interval

=============================================================================
