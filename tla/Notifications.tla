--------------------------- MODULE Notifications ---------------------------
(***************************************************************************)
(* The notifications about one request                                     *)
(* (modules/notifications).  When a handler of the dispatch engine is done *)
(* it calls BreakdownNotificationsIntegration and does not wait: the call  *)
(* sends one notification after another, and the emergency alerts of all   *)
(* admins at once.  Meanwhile the recipients mark notifications as read,   *)
(* from any number of tabs.                                                *)
(*                                                                         *)
(* To send is to create a document, deliver it and save the outcome, then  *)
(* count the user's unread notifications and push the count to the user's  *)
(* sockets.  Every caller uses the in-app channel only, which cannot fail. *)
(* The lookup of the provider and the refreshed document share the await   *)
(* of the send they are for, and its failure; the query for the admins is  *)
(* a step of its own, as it comes before their sends.                      *)
(***************************************************************************)
EXTENDS Naturals, Sequences, FiniteSets

CONSTANTS
  Call,         \* calls to the integration, each made once
  Reader,       \* slots for markAsRead and markAllAsRead in flight
  Customer,     \* the customer of the request
  Provider,     \* the user of the assigned provider
  Admin,        \* the active admins
  Events,       \* the events of the request that occur
  Overlap,      \* may anything be in flight while a call or a reader starts?
  Faults        \* may awaits be rejected, may the process die?

ASSUME NotificationAssumption ==
  /\ Customer # Provider
  /\ Customer \notin Admin /\ Provider \notin Admin
  /\ IsFiniteSet(Call) /\ IsFiniteSet(Admin)
  /\ Events \subseteq { "created", "assigned", "arrived", "completed",
                        "cancelled", "status" }
  /\ { Overlap, Faults } \subseteq BOOLEAN

User == { Customer, Provider } \cup Admin

-----------------------------------------------------------------------------
(***************************************************************************)
(* Who is told: a call goes through stages; each is one send, or the query *)
(* for the admins and one send per admin, whose failures are ignored       *)
(* (Promise.allSettled), but not that of the query.                        *)
(***************************************************************************)
Kind == [ event : Events, assigned : BOOLEAN, emergency : BOOLEAN ]

To(user)     == << [to |-> { user }, settles |-> FALSE] >>
AllAdmins    == << [to |-> Admin, settles |-> TRUE] >>
Optional(condition, stages) == IF condition THEN stages ELSE << >>

AssignedStages == To(Customer) \o To(Provider)

Stages(k) ==
  CASE k.event = "created" ->
         To(Customer) \o Optional(k.emergency, AllAdmins)
                      \o Optional(k.assigned, AssignedStages)
    [] k.event = "assigned" -> AssignedStages
    [] k.event = "arrived" -> To(Customer)
    [] k.event \in { "completed", "cancelled" } ->
         To(Customer) \o Optional(k.assigned, To(Provider))
    [] k.event = "status" -> Optional(k.emergency, AllAdmins)

MaxStages == 4

-----------------------------------------------------------------------------
\* A notification is named after the send that creates it.
Id == [ call : Call, stage : 1 .. MaxStages, user : User ]

VARIABLES
  call,         \* the integration's calls
  note,         \* the stored documents
  send,         \* the sends in memory
  reader,       \* markAsRead and markAllAsRead in memory
  lastCount     \* the count last pushed to each user's sockets

vars == << call, note, send, reader, lastCount >>

Absent == [ status |-> "none", readAt |-> FALSE ]
Unsent == [ pc |-> "none", count |-> 0 ]
AtRest == [ pc |-> "idle", user |-> Customer, count |-> 0 ]

Calls(c) == call[c].kind
InFlight == { "create", "save", "count", "emit" }
UnderWay == { "running", "asking" }

Init ==
  /\ call \in [Call -> [ pc : { "unused" }, kind : Kind, at : { 0 } ]]
  /\ note = [i \in Id |-> Absent]
  /\ send = [i \in Id |-> Unsent]
  /\ reader = [r \in Reader |-> AtRest]
  /\ lastCount = [u \in User |-> 0]

Quiet ==
  /\ \A c \in Call : call[c].pc \notin UnderWay
  /\ \A r \in Reader : reader[r].pc = "idle"

\* countUnread: both halves of its filter.
Unread(u) == Cardinality({ i \in Id : /\ i.user = u
                                      /\ note[i].status \notin { "none", "READ" }
                                      /\ ~ note[i].readAt })

\* The sends of the k-th stage of call c start.
Begins(c, k) ==
  send' = [i \in Id |-> IF i.call = c /\ i.stage = k /\ i.user \in Stages(Calls(c))[k].to
                          THEN [pc |-> "create", count |-> 0] ELSE send[i]]

Sent(c, k) == { i \in Id : /\ i.call = c /\ i.stage = k
                           /\ i.user \in Stages(Calls(c))[k].to }

-----------------------------------------------------------------------------
(***************************************************************************)
(* The integration's calls.                                                *)
(***************************************************************************)
\* The call comes to stage k: it sends, or asks for the admins first.
Enters(c, k) ==
  \/ /\ ~ Stages(Calls(c))[k].settles
     /\ call' = [call EXCEPT ![c].pc = "running", ![c].at = k]
     /\ Begins(c, k)
  \/ /\ Stages(Calls(c))[k].settles
     /\ call' = [call EXCEPT ![c].pc = "asking", ![c].at = k]
     /\ UNCHANGED send

Fire(c) ==
  /\ call[c].pc = "unused"
  /\ Overlap \/ Quiet
  /\ Stages(Calls(c)) # << >>
  /\ Enters(c, 1)
  /\ UNCHANGED << note, reader, lastCount >>

AdminsFound(c) ==
  /\ call[c].pc = "asking"
  /\ call' = [call EXCEPT ![c].pc = "running"]
  /\ Begins(c, call[c].at)
  /\ UNCHANGED << note, reader, lastCount >>

\* The query is awaited before Promise.allSettled: its error ends the call.
AdminsQueryFails(c) ==
  /\ Faults
  /\ call[c].pc = "asking"
  /\ call' = [call EXCEPT ![c].pc = "stopped"]
  /\ UNCHANGED << note, send, reader, lastCount >>

\* Mutated: Promise.all.
Rejects_All(c, k) == \E i \in Sent(c, k) : send[i].pc = "failed"

\* Does the await of the stage throw?
Rejects(c, k) == /\ ~ Stages(Calls(c))[k].settles
                 /\ \E i \in Sent(c, k) : send[i].pc = "failed"

NextStage(c) ==
  LET k == call[c].at IN
  /\ call[c].pc = "running"
  /\ \A i \in Sent(c, k) : send[i].pc \in { "sent", "failed" }
  /\ \/ /\ Rejects(c, k)
        /\ call' = [call EXCEPT ![c].pc = "stopped"]
        /\ UNCHANGED send
     \/ /\ ~ Rejects(c, k)
        /\ k = Len(Stages(Calls(c)))
        /\ call' = [call EXCEPT ![c].pc = "done"]
        /\ UNCHANGED send
     \/ /\ ~ Rejects(c, k)
        /\ k < Len(Stages(Calls(c)))
        /\ Enters(c, k + 1)
  /\ UNCHANGED << note, reader, lastCount >>

CallStep(c) == Fire(c) \/ AdminsFound(c) \/ AdminsQueryFails(c) \/ NextStage(c)

-----------------------------------------------------------------------------
(***************************************************************************)
(* send.                                                                   *)
(***************************************************************************)
StoreNote(i) ==
  /\ send[i].pc = "create"
  /\ note' = [note EXCEPT ![i] = [status |-> "PENDING", readAt |-> FALSE]]
  /\ send' = [send EXCEPT ![i].pc = "save"]
  /\ UNCHANGED << call, reader, lastCount >>

\* Mutated: every path of the loaded document is written.
Delivered_Whole(stored) == [status |-> "DELIVERED", readAt |-> FALSE]

\* The update that the orchestrator's save() issues: the modified paths only.
Delivered(stored) == [stored EXCEPT !.status = "DELIVERED"]

\* Mutated: the save is missing.
SaveDelivery_NotSaved(i) ==
  /\ send[i].pc = "save"
  /\ send' = [send EXCEPT ![i].pc = "count"]
  /\ UNCHANGED << call, note, reader, lastCount >>

SaveDelivery(i) ==
  /\ send[i].pc = "save"
  /\ note' = [note EXCEPT ![i] = Delivered(@)]
  /\ send' = [send EXCEPT ![i].pc = "count"]
  /\ UNCHANGED << call, reader, lastCount >>

\* emitUnreadCount, at the end of send: the count, then the push.
CountForSend(i) ==
  /\ send[i].pc = "count"
  /\ send' = [send EXCEPT ![i] = [pc |-> "emit", count |-> Unread(i.user)]]
  /\ UNCHANGED << call, note, reader, lastCount >>

EmitForSend(i) ==
  /\ send[i].pc = "emit"
  /\ lastCount' = [lastCount EXCEPT ![i.user] = send[i].count]
  /\ send' = [send EXCEPT ![i] = [pc |-> "sent", count |-> 0]]
  /\ UNCHANGED << call, note, reader >>

SendStep(i) == StoreNote(i) \/ SaveDelivery(i) \/ CountForSend(i) \/ EmitForSend(i)

-----------------------------------------------------------------------------
(***************************************************************************)
(* markAsRead and markAllAsRead: one update, then emitUnreadCount.         *)
(***************************************************************************)
Starts(r, u) ==
  /\ reader[r].pc = "idle"
  /\ Overlap \/ Quiet
  /\ reader' = [reader EXCEPT ![r] = [pc |-> "count", user |-> u, count |-> 0]]

Read(stored) == [stored EXCEPT !.readAt = TRUE, !.status = "READ"]

\* A notification that is already read is returned: nothing changes.
MarkAsRead(r, i) ==
  /\ note[i].status # "none" /\ ~ note[i].readAt
  /\ Starts(r, i.user)
  /\ note' = [note EXCEPT ![i] = Read(@)]
  /\ UNCHANGED << call, send, lastCount >>

\* Mutated: the count is not pushed.
MarkAllAsRead_Silent(r, u) ==
  /\ reader[r].pc = "idle"
  /\ Overlap \/ Quiet
  /\ note' = [i \in Id |-> IF i.user = u /\ note[i].status # "none" /\ ~ note[i].readAt
                             THEN Read(note[i]) ELSE note[i]]
  /\ UNCHANGED << call, send, reader, lastCount >>

MarkAllAsRead(r, u) ==
  /\ Starts(r, u)
  /\ note' = [i \in Id |-> IF i.user = u /\ note[i].status # "none" /\ ~ note[i].readAt
                             THEN Read(note[i]) ELSE note[i]]
  /\ UNCHANGED << call, send, lastCount >>

CountForReader(r) ==
  /\ reader[r].pc = "count"
  /\ reader' = [reader EXCEPT ![r].pc = "emit", ![r].count = Unread(reader[r].user)]
  /\ UNCHANGED << call, note, send, lastCount >>

EmitForReader(r) ==
  /\ reader[r].pc = "emit"
  /\ lastCount' = [lastCount EXCEPT ![reader[r].user] = reader[r].count]
  /\ reader' = [reader EXCEPT ![r] = AtRest]
  /\ UNCHANGED << call, note, send >>

-----------------------------------------------------------------------------
(***************************************************************************)
(* Faults: a rejected await ends the send or the reader it belongs to; a   *)
(* crash ends everything in memory.                                        *)
(***************************************************************************)
SendFails(i) ==
  /\ Faults
  /\ send[i].pc \in InFlight
  /\ send' = [send EXCEPT ![i] = [pc |-> "failed", count |-> 0]]
  /\ UNCHANGED << call, note, reader, lastCount >>

ReaderFails(r) ==
  /\ Faults
  /\ reader[r].pc # "idle"
  /\ reader' = [reader EXCEPT ![r] = AtRest]
  /\ UNCHANGED << call, note, send, lastCount >>

Crash ==
  /\ Faults
  /\ ~ Quiet
  /\ call' = [c \in Call |-> IF call[c].pc \in UnderWay
                               THEN [call[c] EXCEPT !.pc = "lost"] ELSE call[c]]
  /\ send' = [i \in Id |-> IF send[i].pc \in InFlight
                             THEN [pc |-> "failed", count |-> 0] ELSE send[i]]
  /\ reader' = [r \in Reader |-> AtRest]
  /\ UNCHANGED << note, lastCount >>

Next ==
  \/ \E c \in Call : CallStep(c)
  \/ \E i \in Id : SendStep(i) \/ SendFails(i)
  \/ \E r \in Reader : \/ \E i \in Id : MarkAsRead(r, i)
                       \/ \E u \in User : MarkAllAsRead(r, u)
                       \/ CountForReader(r) \/ EmitForReader(r) \/ ReaderFails(r)
  \/ Crash

Spec == Init /\ [][Next]_vars

-----------------------------------------------------------------------------
(***************************************************************************)
(* Properties.                                                             *)
(***************************************************************************)

\* Every variable has its type; with the channels that callers use, a
\* document is PENDING, DELIVERED or READ.
TypeOK ==
  /\ call \in [Call -> [ pc : { "unused", "done", "stopped", "lost" } \cup UnderWay,
                         kind : Kind, at : 0 .. MaxStages ]]
  /\ note \in [Id -> [ status : { "none", "PENDING", "DELIVERED", "READ" },
                       readAt : BOOLEAN ]]
  /\ send \in [Id -> [ pc : { "none", "sent", "failed" } \cup InFlight, count : Nat ]]
  /\ reader \in [Reader -> [ pc : { "idle", "count", "emit" }, user : User,
                             count : Nat ]]
  /\ lastCount \in [User -> Nat]

\* A notification that was read is never unread again, although its delivery
\* may save the document, loaded unread, afterwards (deliver).
ReadStays == [][\A i \in Id : note[i].readAt => note'[i].readAt]_vars

\* A notification whose sending went through is never left PENDING, whatever
\* its recipient did meanwhile (send, deliver).
SentIsDelivered ==
  \A i \in Id : send[i].pc = "sent" => note[i].status \in { "DELIVERED", "READ" }

\* What is stored is a notification, and not PENDING once its sending went
\* through: both of the above (send, deliver).
SendsAreWhole == TypeOK /\ SentIsDelivered

\* The query for the admins was rejected: the call is at their alerts, and
\* none of these was begun.
AdminsUnknown(c) ==
  /\ Stages(Calls(c))[call[c].at].settles
  /\ \A i \in Sent(c, call[c].at) : send[i].pc = "none"

\* An alert that fails never keeps anybody else from being told: a call stops
\* early only at a failed send to the customer or the provider (the lookup of
\* the provider included), or because the admins could not be asked for
\* (notifyAdminsEmergency: its query is not among what Promise.allSettled
\* settles).
StoppedOnlyByFailure ==
  \A c \in Call : call[c].pc = "stopped" =>
    \/ \E i \in Sent(c, call[c].at) : i.user \notin Admin /\ send[i].pc = "failed"
    \/ AdminsUnknown(c)

\* Nothing in flight: each user's sockets show the number of notifications
\* that are unread (emitUnreadCount after every change of it).
CountRightWhenQuiet ==
  Quiet => \A u \in User : lastCount[u] = Unread(u)

\* Whom an event of a request concerns.
Concerned(k) ==
  (IF k.event # "status" THEN { Customer } ELSE {})
    \cup (IF k.event \in { "created", "assigned", "completed", "cancelled" }
              /\ (k.assigned \/ k.event = "assigned") THEN { Provider } ELSE {})
    \cup (IF k.event \in { "created", "status" } /\ k.emergency THEN Admin ELSE {})

Told(c, u) == \E i \in Id : /\ i.call = c /\ i.user = u
                            /\ note[i].status \in { "DELIVERED", "READ" }

SendFailed(c, u) == \E i \in Id : i.call = c /\ i.user = u /\ send[i].pc = "failed"

\* A call that ran to its end has told everybody whom its event concerns, but
\* for the admins whose own alert failed; nobody waits for the call
\* (emitNotifications, notifyAdminsEmergency).
EveryoneTold ==
  \A c \in Call : call[c].pc = "done" =>
    \A u \in Concerned(Calls(c)) : Told(c, u) \/ (u \in Admin /\ SendFailed(c, u))

\* Nobody whom an event concerns is left untold but through the failure of a
\* message to the customer or the provider, of an admin's own alert, or of
\* the query for the admins: both of the above, during a call and after it
\* (emitNotifications).
ToldUnlessFailed == StoppedOnlyByFailure /\ EveryoneTold

=============================================================================
