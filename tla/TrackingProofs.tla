--------------------------- MODULE TrackingProofs ---------------------------
(***************************************************************************)
(* The room and the map of one request, for any numbers of providers,      *)
(* sockets and events in flight: they are never open to anybody who was    *)
(* not entitled at some time.                                              *)
(***************************************************************************)
EXTENDS MCTracking, TLAPS

\* OnlyTheEntitled looks at what the handlers have done.  What keeps it true is
\* what they carry: a join that was allowed, and a position on its way, are of
\* someone who was entitled when the request was read; and whoever is assigned
\* now is remembered.
WasEntitled(u) == u = Customer \/ u \in wasAssigned

EntitledInv ==
  /\ OnlyTheEntitled
  /\ assigned # NoProvider => assigned \in wasAssigned
  /\ \A h \in Handler :
       LET me == handler[h] IN
       /\ me.pc = "join" /\ me.allowed => WasEntitled(Owner[me.socket])
       /\ me.pc \in { "locate", "profile", "save", "mark" } =>
            Owner[me.socket] \in Provider
       /\ me.pc = "locate" /\ me.allowed => Owner[me.socket] \in wasAssigned
       /\ me.pc \in { "profile", "save", "mark" } => Owner[me.socket] \in wasAssigned

LEMMA IdleHandler == Idle \in HandlerState /\ Idle.pc = "idle"
BY TrackingAssumption DEF Idle, AnySocket, HandlerState

LEMMA InitEntitled == Init => EntitledInv
<1> SUFFICES ASSUME Init PROVE EntitledInv
  OBVIOUS
<1>1. TypeOK
  BY IdleHandler, TrackingAssumption DEF Init, TypeOK, Never
<1> QED
  BY <1>1, IdleHandler
     DEF Init, EntitledInv, OnlyTheEntitled, RoomWasEntitled, TrackedWasAssigned, Never

\* A handler goes on, and carries no more than it is entitled to; neither the
\* request nor what is shared changes.
LEMMA HandlerGoesOn ==
  ASSUME EntitledInv, NEW h \in Handler, NEW local \in HandlerState, Goes(h, local),
         UNCHANGED << assigned, open, now, wasAssigned >>,
         OnlyTheEntitled',
         local.pc = "join" /\ local.allowed => WasEntitled(Owner[local.socket]),
         local.pc \in { "locate", "profile", "save", "mark" } =>
           Owner[local.socket] \in Provider,
         local.pc = "locate" /\ local.allowed => Owner[local.socket] \in wasAssigned,
         local.pc \in { "profile", "save", "mark" } => Owner[local.socket] \in wasAssigned
  PROVE  EntitledInv'
BY DEF EntitledInv, OnlyTheEntitled, TypeOK, Goes, WasEntitled

\* Neither the room nor the positions change.
LEMMA NothingShown ==
  ASSUME EntitledInv, handler' \in [Handler -> HandlerState],
         UNCHANGED << assigned, open, room, position, now, wasAssigned, sent >>,
         lastSave' \in [Provider -> 0 .. MaxTime]
  PROVE  OnlyTheEntitled'
BY DEF EntitledInv, OnlyTheEntitled, TypeOK, RoomWasEntitled, TrackedWasAssigned

LEMMA StepEntitled == EntitledInv /\ [Next]_vars => EntitledInv'
<1> SUFFICES ASSUME EntitledInv, [Next]_vars PROVE EntitledInv'
  OBVIOUS
<1> USE TrackingAssumption, IdleHandler
<1>type. TypeOK
  BY DEF EntitledInv, OnlyTheEntitled
<1>goes. ASSUME NEW h \in Handler, NEW local \in HandlerState, Goes(h, local)
         PROVE  handler' \in [Handler -> HandlerState]
  BY <1>goes, <1>type DEF TypeOK, Goes
<1>now. now \in 0 .. MaxTime
  BY <1>type DEF TypeOK
<1>1. ASSUME UNCHANGED vars PROVE EntitledInv'
  BY <1>1 DEF vars, EntitledInv, OnlyTheEntitled, TypeOK, RoomWasEntitled,
              TrackedWasAssigned, WasEntitled
<1>2. ASSUME Assign PROVE EntitledInv'
  BY <1>2 DEF Assign, EntitledInv, OnlyTheEntitled, TypeOK, RoomWasEntitled,
              TrackedWasAssigned, WasEntitled
<1>3. ASSUME Tick PROVE EntitledInv'
  <2>1. now' \in Interval .. MaxTime
    BY <1>3, <1>type DEF Tick, TypeOK
  <2> QED
    BY <1>3, <2>1 DEF Tick, EntitledInv, OnlyTheEntitled, TypeOK, RoomWasEntitled,
                      TrackedWasAssigned, WasEntitled
<1>4. ASSUME NEW s \in Socket, Connect(s) \/ Disconnect(s) \/ RequestLeave(s)
      PROVE  EntitledInv'
  BY <1>4 DEF Connect, Disconnect, RequestLeave, EntitledInv, OnlyTheEntitled, TypeOK,
              RoomWasEntitled, TrackedWasAssigned, WasEntitled
<1>5. ASSUME NEW h \in Handler, NEW s \in Socket, RequestJoin(h, s) PROVE EntitledInv'
  <2> DEFINE local == [Idle EXCEPT !.pc = "join", !.socket = s, !.allowed = CanView(Owner[s])]
  <2>1. local \in HandlerState /\ local.pc = "join" /\ local.socket = s
        /\ (local.allowed <=> CanView(Owner[s]))
    BY DEF HandlerState, CanView
  <2>2. Owner[s] \in Provider \cup { Customer }
    OBVIOUS
  <2>3. CanView(Owner[s]) => WasEntitled(Owner[s])
    BY <2>2 DEF CanView, WasEntitled, EntitledInv
  <2>4. Goes(h, local) /\ handler' \in [Handler -> HandlerState]
    BY <1>5, <2>1, <1>goes DEF RequestJoin
  <2>5. OnlyTheEntitled'
    BY <1>5, <2>4, <1>type, NothingShown DEF RequestJoin, TypeOK
  <2> HIDE DEF local
  <2> QED
    BY <1>5, <2>1, <2>3, <2>4, <2>5, HandlerGoesOn DEF RequestJoin
<1>6. ASSUME NEW h \in Handler, NEW s \in Socket, LocationUpdate(h, s) PROVE EntitledInv'
  <2> DEFINE local == [Idle EXCEPT !.pc = "locate", !.socket = s, !.at = now,
                                   !.allowed = (Owner[s] = assigned)]
  <2>1. local \in HandlerState /\ local.pc = "locate" /\ local.socket = s
        /\ (local.allowed <=> Owner[s] = assigned)
    BY <1>now DEF HandlerState
  <2>2. Owner[s] \in Provider
    BY <1>6 DEF LocationUpdate
  <2>3. Owner[s] = assigned => Owner[s] \in wasAssigned
    BY <2>2 DEF EntitledInv
  <2>4. Goes(h, local) /\ handler' \in [Handler -> HandlerState]
    BY <1>6, <2>1, <1>goes DEF LocationUpdate
  <2>5. OnlyTheEntitled'
    BY <1>6, <2>4, <1>type, NothingShown DEF LocationUpdate, TypeOK
  <2> HIDE DEF local
  <2> QED
    BY <1>6, <2>1, <2>2, <2>3, <2>4, <2>5, HandlerGoesOn DEF LocationUpdate
<1>7. ASSUME NEW h \in Handler, Join(h) PROVE EntitledInv'
  <2>1. handler[h].socket \in Socket
    BY <1>type DEF TypeOK, HandlerState
  <2>2. handler[h].allowed => WasEntitled(Owner[handler[h].socket])
    BY <1>7 DEF Join, EntitledInv
  <2>3. OnlyTheEntitled'
    BY <1>7, <2>1, <2>2, <1>goes
       DEF Join, EntitledInv, OnlyTheEntitled, TypeOK, RoomWasEntitled,
           TrackedWasAssigned, WasEntitled
  <2> QED
    BY <1>7, <2>3, HandlerGoesOn DEF Join
<1>8. ASSUME NEW h \in Handler, Broadcast(h) PROVE EntitledInv'
  <2> DEFINE me == handler[h]
             local == [me EXCEPT !.pc = "profile"]
  <2>1. /\ me \in HandlerState /\ me.pc = "locate" /\ Owner[me.socket] \in Provider
        /\ me.allowed => Owner[me.socket] \in wasAssigned
    BY <1>8, <1>type DEF Broadcast, EntitledInv, TypeOK
  <2>2. local \in HandlerState /\ local.pc = "profile" /\ local.socket = me.socket
    BY <2>1 DEF HandlerState
  <2>3. me.at \in 0 .. MaxTime
    BY <2>1 DEF HandlerState
  <2>4. CASE me.allowed
    <3>1. Goes(h, local) /\ handler' \in [Handler -> HandlerState]
      BY <1>8, <2>2, <2>4, <1>goes DEF Broadcast
    <3>2. OnlyTheEntitled'
      BY <1>8, <2>1, <2>3, <2>4, <3>1
         DEF Broadcast, EntitledInv, OnlyTheEntitled, TypeOK, RoomWasEntitled,
             TrackedWasAssigned
    <3> HIDE DEF local
    <3> QED
      BY <1>8, <2>1, <2>2, <2>4, <3>1, <3>2, HandlerGoesOn DEF Broadcast
  <2>5. CASE ~ me.allowed
    <3>1. Goes(h, Idle) /\ OnlyTheEntitled'
      BY <1>8, <2>5, <1>goes, <1>type, NothingShown DEF Broadcast, TypeOK
    <3> QED
      BY <1>8, <3>1, HandlerGoesOn DEF Broadcast
  <2> QED
    BY <2>4, <2>5
<1>9. ASSUME NEW h \in Handler, Throttle(h) PROVE EntitledInv'
  <2> DEFINE me == handler[h]
             local == [me EXCEPT !.pc = "save", !.time = now]
  <2>1. /\ me \in HandlerState /\ me.pc = "profile"
        /\ Owner[me.socket] \in Provider /\ Owner[me.socket] \in wasAssigned
    BY <1>9, <1>type DEF Throttle, EntitledInv, TypeOK
  <2>2. local \in HandlerState /\ local.pc = "save" /\ local.socket = me.socket
    BY <2>1, <1>now DEF HandlerState
  <2> HIDE DEF local
  <2>3. Goes(h, local) \/ Goes(h, Idle)
    BY <1>9 DEF Throttle, local
  <2>4. OnlyTheEntitled'
    BY <1>9, <2>2, <2>3, <1>goes, <1>type, NothingShown DEF Throttle, TypeOK
  <2> QED
    BY <1>9, <2>1, <2>2, <2>3, <2>4, HandlerGoesOn DEF Throttle
<1>10. ASSUME NEW h \in Handler, Save(h) PROVE EntitledInv'
  <2> DEFINE me == handler[h]
             local == [me EXCEPT !.pc = "mark"]
  <2>1. /\ me \in HandlerState /\ me.pc = "save"
        /\ Owner[me.socket] \in Provider /\ Owner[me.socket] \in wasAssigned
    BY <1>10, <1>type DEF Save, EntitledInv, TypeOK
  <2>2. /\ local \in HandlerState /\ local.pc = "mark" /\ local.socket = me.socket
        /\ me.at \in 0 .. MaxTime
    BY <2>1 DEF HandlerState
  <2> HIDE DEF local
  <2>3. Goes(h, local) /\ handler' \in [Handler -> HandlerState]
    BY <1>10, <2>2, <1>goes DEF Save, local
  <2>4. OnlyTheEntitled'
    BY <1>10, <2>1, <2>2, <2>3
       DEF Save, EntitledInv, OnlyTheEntitled, TypeOK, RoomWasEntitled, TrackedWasAssigned
  <2> QED
    BY <1>10, <2>1, <2>2, <2>3, <2>4, HandlerGoesOn DEF Save
<1>11. ASSUME NEW h \in Handler, Mark(h) PROVE EntitledInv'
  <2>1. handler[h].time \in 0 .. MaxTime
    BY <1>type DEF TypeOK, HandlerState
  <2>2. lastSave' \in [Provider -> 0 .. MaxTime]
    BY <1>11, <2>1, <1>type DEF Mark, TypeOK
  <2>3. OnlyTheEntitled'
    BY <1>11, <2>2, <1>goes, NothingShown DEF Mark
  <2> QED
    BY <1>11, <2>3, HandlerGoesOn DEF Mark
<1>12. ASSUME NEW h \in Handler, SaveFails(h) PROVE EntitledInv'
  <2>1. OnlyTheEntitled'
    BY <1>12, <1>goes, <1>type, NothingShown DEF SaveFails, TypeOK
  <2> QED
    BY <1>12, <2>1, HandlerGoesOn DEF SaveFails
<1> QED
  BY <1>1, <1>2, <1>3, <1>4, <1>5, <1>6, <1>7, <1>8, <1>9, <1>10, <1>11, <1>12 DEF Next

\* However joins, positions and closing sockets overlap with a request that
\* changes hands: nobody is in its room, on its map or saved as its provider's
\* position who was not entitled at some time (joinRequestRoom,
\* handleLocationUpdate).
THEOREM OnlyTheEntitledAlways == Spec => []OnlyTheEntitled
<1>1. EntitledInv => OnlyTheEntitled
  BY DEF EntitledInv
<1> QED
  BY <1>1, InitEntitled, StepEntitled, PTL DEF Spec

-----------------------------------------------------------------------------
(***************************************************************************)
(* One handler at a time, nothing fails: what is stored keeps up with what *)
(* is broadcast.                                                           *)
(***************************************************************************)
\* A handler runs alone, within the tick its position was sent in.  When none
\* is about to, the time noted is that of the position stored, and the last
\* broadcast is within an interval of it.
Sends(p, pcs) == \E h \in Handler : handler[h].pc \in pcs /\ Owner[handler[h].socket] = p

RecentInv ==
  /\ EntitledInv
  /\ \A g, h \in Handler : handler[g].pc # "idle" /\ handler[h].pc # "idle" => g = h
  /\ \A h \in Handler :
       LET me == handler[h]
           p  == Owner[me.socket] IN
       /\ me.pc \in { "locate", "profile", "save", "mark" } => me.at = now
       /\ me.pc \in { "profile", "save", "mark" } => sent[p] = now
       /\ me.pc \in { "save", "mark" } => me.time = now
       /\ me.pc = "mark" => position[p] = now
  /\ \A p \in Provider :
       /\ position[p] <= now
       /\ ~ Sends(p, { "mark" }) => lastSave[p] = position[p]
       /\ ~ Sends(p, { "profile", "save" }) =>
            sent[p] = Never \/ sent[p] < position[p] + Interval

LEMMA InitRecent == Init => RecentInv
BY InitEntitled, IdleHandler, TrackingAssumption DEF Init, RecentInv, Never, Sends

\* A handler that was idle, or is the one at work, goes on.
LEMMA AloneGoesOn ==
  ASSUME RecentInv, EntitledInv', NEW h \in Handler, NEW local \in HandlerState, Goes(h, local),
         handler[h].pc # "idle" \/ Quiet, UNCHANGED now,
         LET p == Owner[local.socket] IN
           /\ local.pc \in { "locate", "profile", "save", "mark" } => local.at = now
           /\ local.pc \in { "profile", "save", "mark" } => sent'[p] = now
           /\ local.pc \in { "save", "mark" } => local.time = now
           /\ local.pc = "mark" => position'[p] = now,
         \A p \in Provider :
           /\ position'[p] <= now
           /\ ~ (local.pc = "mark" /\ Owner[local.socket] = p) => lastSave'[p] = position'[p]
           /\ ~ (local.pc \in { "profile", "save" } /\ Owner[local.socket] = p) =>
                sent'[p] = Never \/ sent'[p] < position'[p] + Interval
  PROVE  RecentInv'
<1>1. /\ handler'[h] = local
      /\ \A g \in Handler \ { h } : handler'[g] = handler[g] /\ handler[g].pc = "idle"
  BY DEF RecentInv, EntitledInv, OnlyTheEntitled, TypeOK, Goes, Quiet
<1>2. \A p \in Provider :
        /\ ~ Sends(p, { "mark" })' => ~ (local.pc = "mark" /\ Owner[local.socket] = p)
        /\ ~ Sends(p, { "profile", "save" })' =>
             ~ (local.pc \in { "profile", "save" } /\ Owner[local.socket] = p)
  BY <1>1 DEF Sends
<1> QED
  BY <1>1, <1>2 DEF RecentInv

\* What is known of the others while h is at work, and of all while it is not
\* about to save.
LEMMA Alone ==
  ASSUME RecentInv, NEW h \in Handler, handler[h].pc # "idle" \/ Quiet, NEW p \in Provider
  PROVE  /\ ~ (handler[h].pc = "mark" /\ Owner[handler[h].socket] = p) =>
              lastSave[p] = position[p]
         /\ ~ (handler[h].pc \in { "profile", "save" } /\ Owner[handler[h].socket] = p) =>
              sent[p] = Never \/ sent[p] < position[p] + Interval
BY DEF RecentInv, Sends, Quiet

LEMMA StepRecent ==
  ASSUME ~ Overlap
  PROVE  RecentInv /\ [Next]_vars => RecentInv'
<1> SUFFICES ASSUME RecentInv, [Next]_vars PROVE RecentInv'
  OBVIOUS
<1> USE TrackingAssumption, IdleHandler
<1>kept. EntitledInv'
  BY StepEntitled DEF RecentInv
<1>type. TypeOK /\ now \in Nat /\ \A p \in Provider : position[p] \in Nat /\ lastSave[p] \in Nat
  BY DEF RecentInv, EntitledInv, OnlyTheEntitled, TypeOK
<1>1. ASSUME UNCHANGED << handler, position, lastSave, sent, now >> PROVE RecentInv'
  BY <1>1, <1>kept DEF RecentInv, Sends
<1>2. CASE Tick
  <2>1. Quiet /\ now' = now + 1 /\ UNCHANGED << handler, position, lastSave, sent >>
    BY <1>2 DEF Tick, Undisturbed
  <2>2. \A h \in Handler : handler[h].pc = "idle"
    BY <2>1 DEF Quiet
  <2>3. \A p \in Provider : position[p] <= now'
    BY <1>type, <2>1 DEF RecentInv
  <2> QED
    BY <1>kept, <2>1, <2>2, <2>3 DEF RecentInv, Sends
<1>3. ASSUME NEW h \in Handler, NEW local \in HandlerState, Goes(h, local),
             handler[h].pc \in { "idle", "join", "locate" },
             handler[h].pc # "idle" \/ Quiet, local.pc \in { "idle", "join", "locate" },
             local.pc = "locate" => local.at = now,
             UNCHANGED << position, lastSave, sent, now >>
      PROVE  RecentInv'
  <2>1. \A p \in Provider :
          /\ lastSave[p] = position[p] /\ position[p] <= now
          /\ sent[p] = Never \/ sent[p] < position[p] + Interval
    BY <1>3, Alone DEF RecentInv
  <2> QED
    BY <1>3, <1>kept, <2>1, AloneGoesOn
<1>4. ASSUME NEW h \in Handler, NEW s \in Socket, RequestJoin(h, s) PROVE RecentInv'
  <2> DEFINE local == [Idle EXCEPT !.pc = "join", !.socket = s, !.allowed = CanView(Owner[s])]
  <2>1. local \in HandlerState /\ local.pc = "join"
    BY DEF HandlerState, CanView
  <2> HIDE DEF local
  <2>2. /\ Goes(h, local) /\ Quiet /\ handler[h].pc = "idle"
        /\ UNCHANGED << position, lastSave, sent, now >>
    BY <1>4 DEF RequestJoin, Undisturbed, local
  <2> QED
    BY <1>3, <2>1, <2>2
<1>5. ASSUME NEW h \in Handler, NEW s \in Socket, LocationUpdate(h, s) PROVE RecentInv'
  <2> DEFINE local == [Idle EXCEPT !.pc = "locate", !.socket = s, !.at = now,
                                   !.allowed = (Owner[s] = assigned)]
  <2>0. now \in 0 .. MaxTime
    BY <1>type DEF TypeOK
  <2>1. local \in HandlerState /\ local.pc = "locate" /\ local.at = now
    BY <2>0 DEF HandlerState
  <2> HIDE DEF local
  <2>2. /\ Goes(h, local) /\ Quiet /\ handler[h].pc = "idle"
        /\ UNCHANGED << position, lastSave, sent, now >>
    BY <1>5 DEF LocationUpdate, Undisturbed, local
  <2> QED
    BY <1>3, <2>1, <2>2
<1>6. ASSUME NEW h \in Handler, Join(h) PROVE RecentInv'
  BY <1>3, <1>6 DEF Join
<1>7. ASSUME NEW h \in Handler, Broadcast(h) PROVE RecentInv'
  <2> DEFINE me == handler[h]
             p == Owner[me.socket]
             local == [me EXCEPT !.pc = "profile"]
  <2>1. me \in HandlerState /\ me.pc = "locate" /\ me.at = now /\ p \in Provider
    BY <1>7, <1>type DEF Broadcast, RecentInv, EntitledInv, TypeOK
  <2>2. CASE me.allowed
    <3>1. /\ local \in HandlerState /\ local.pc = "profile" /\ local.at = now
          /\ local.socket = me.socket
      BY <2>1 DEF HandlerState
    <3> HIDE DEF local
    <3>2. /\ Goes(h, local) /\ UNCHANGED << position, lastSave, now >>
          /\ sent'[p] = now /\ \A q \in Provider \ { p } : sent'[q] = sent[q]
      BY <1>7, <1>type, <2>1, <2>2 DEF Broadcast, TypeOK, local
    <3>3. \A q \in Provider :
            /\ lastSave[q] = position[q] /\ position[q] <= now
            /\ sent[q] = Never \/ sent[q] < position[q] + Interval
      BY <2>1, Alone DEF RecentInv
    <3> HIDE DEF me
    <3> QED
      BY <1>kept, <2>1, <3>1, <3>2, <3>3, AloneGoesOn DEF me
  <2>3. CASE ~ me.allowed
    BY <1>3, <1>7, <2>3 DEF Broadcast
  <2> QED
    BY <2>2, <2>3
<1>8. ASSUME NEW h \in Handler, Throttle(h) PROVE RecentInv'
  <2> DEFINE me == handler[h]
             p == Owner[me.socket]
             local == [me EXCEPT !.pc = "save", !.time = now]
  <2>1. /\ me \in HandlerState /\ me.pc = "profile" /\ me.at = now /\ p \in Provider
        /\ sent[p] = now /\ UNCHANGED << position, lastSave, sent, now >>
    BY <1>8, <1>type DEF Throttle, RecentInv, EntitledInv, TypeOK
  <2>2. \A q \in Provider :
          /\ lastSave[q] = position[q] /\ position[q] <= now
          /\ q # p => sent[q] = Never \/ sent[q] < position[q] + Interval
    BY <2>1, Alone DEF RecentInv
  <2>3. CASE Due(p)
    <3>1. /\ local \in HandlerState /\ local.pc = "save" /\ local.at = now
          /\ local.time = now /\ local.socket = me.socket
      BY <1>type, <2>1 DEF HandlerState, TypeOK
    <3> HIDE DEF local
    <3>2. Goes(h, local)
      BY <1>8, <2>3 DEF Throttle, local
    <3> QED
      BY <1>kept, <2>1, <2>2, <3>1, <3>2, AloneGoesOn
  <2>4. CASE ~ Due(p)
    <3>1. now < position[p] + Interval
      BY <1>type, <2>1, <2>2, <2>4 DEF Due
    <3>2. Goes(h, Idle)
      BY <1>8, <2>4 DEF Throttle
    <3> QED
      BY <1>kept, <2>1, <2>2, <3>1, <3>2, AloneGoesOn
  <2> QED
    BY <2>3, <2>4
<1>9. ASSUME NEW h \in Handler, Save(h) PROVE RecentInv'
  <2> DEFINE me == handler[h]
             p == Owner[me.socket]
             local == [me EXCEPT !.pc = "mark"]
  <2>1. /\ me \in HandlerState /\ me.pc = "save" /\ me.at = now /\ p \in Provider
        /\ me.time = now /\ sent[p] = now /\ UNCHANGED << lastSave, sent, now >>
        /\ position'[p] = now /\ \A q \in Provider \ { p } : position'[q] = position[q]
    BY <1>9, <1>type DEF Save, RecentInv, EntitledInv, TypeOK
  <2>2. \A q \in Provider :
          /\ lastSave[q] = position[q] /\ position[q] <= now
          /\ q # p => sent[q] = Never \/ sent[q] < position[q] + Interval
    BY <2>1, Alone DEF RecentInv
  <2>3. /\ local \in HandlerState /\ local.pc = "mark" /\ local.at = now
        /\ local.time = now /\ local.socket = me.socket
    BY <2>1 DEF HandlerState
  <2> HIDE DEF local
  <2>4. Goes(h, local)
    BY <1>9 DEF Save, local
  <2> QED
    BY <1>kept, <1>type, <2>1, <2>2, <2>3, <2>4, AloneGoesOn
<1>10. ASSUME NEW h \in Handler, Mark(h) PROVE RecentInv'
  <2> DEFINE me == handler[h]
             p == Owner[me.socket]
  <2>1. /\ me.pc = "mark" /\ me.time = now /\ p \in Provider
        /\ position[p] = now /\ UNCHANGED << position, sent, now >> /\ Goes(h, Idle)
        /\ lastSave'[p] = now /\ \A q \in Provider \ { p } : lastSave'[q] = lastSave[q]
    BY <1>10, <1>type DEF Mark, RecentInv, EntitledInv, TypeOK
  <2>2. \A q \in Provider :
          /\ q # p => lastSave[q] = position[q]
          /\ position[q] <= now
          /\ sent[q] = Never \/ sent[q] < position[q] + Interval
    BY <2>1, Alone DEF RecentInv
  <2> QED
    BY <1>kept, <1>type, <2>1, <2>2, AloneGoesOn
<1> QED
  BY <1>1, <1>2, <1>4, <1>5, <1>6, <1>7, <1>8, <1>9, <1>10
     DEF Next, vars, Assign, Connect, Disconnect, RequestLeave, SaveFails

\* One handler at a time and no save rejected: the stored position of a
\* provider lags the last one that was broadcast by less than an interval, for
\* any number of providers and requests that change hands
\* (handleLocationUpdate).
THEOREM StoredAlwaysRecent ==
  ASSUME ~ Overlap
  PROVE  Spec => []StoredIsRecent
<1>1. RecentInv => StoredIsRecent
  BY DEF RecentInv, StoredIsRecent, Quiet, Sends
<1> QED
  BY <1>1, InitRecent, StepRecent, PTL DEF Spec

\* The same of the run, whatever its other world does: the racing one shares
\* the variables, but a behaviour never crosses over.
THEOREM StoredAlwaysKeepsUp ==
  ASSUME ~ Overlap
  PROVE  WorldsSpec => []StoredKeepsUp
<1> DEFINE I == world = "serial" => RecentInv
<1>1. WorldsInit => I
  BY InitRecent DEF WorldsInit
<1>2. I /\ [WorldsNext]_<< vars, world >> => I'
  <2> SUFFICES ASSUME I, [WorldsNext]_<< vars, world >>, world' = "serial"
               PROVE  RecentInv'
    OBVIOUS
  <2>1. world = "serial" /\ [Next]_vars
    BY DEF WorldsNext
  <2> QED
    BY <2>1, StepRecent
<1>3. I => StoredKeepsUp
  BY DEF StoredKeepsUp, RecentInv, StoredIsRecent, Quiet, Sends
<1> QED
  BY <1>1, <1>2, <1>3, PTL DEF WorldsSpec

=============================================================================
