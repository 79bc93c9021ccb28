------------------------------ MODULE Presence ------------------------------
(***************************************************************************)
(* Who is online, in one process (realtime/services/presence.service.ts,   *)
(* socket/presence/in-memory.presence.ts and the handlers that use them).  *)
(* Users do not affect one another, so the module has one user, a provider *)
(* who may not have created a profile yet, with several sockets.           *)
(*                                                                         *)
(* Everything in memory is synchronous.  Two handlers await the database:  *)
(* the handshake, which looks the profile up, and provider:online, which   *)
(* looks at its KYC; a socket may be gone when they resume.                *)
(*                                                                         *)
(* Time is relative: an age is the number of ticks since an event, counted *)
(* up to the first value that exceeds the timeout.                         *)
(***************************************************************************)
EXTENDS Naturals, FiniteSets

CONSTANTS
  Socket,       \* the user's sockets; a recovered one keeps its id
  Timeout,      \* SOCKET_HEARTBEAT_TIMEOUT_MS, in ticks
  Overlap,      \* may anything happen while provider:online awaits?
  MayRevoke     \* may an admin withdraw a verification?

ASSUME PresenceAssumption ==
  /\ Timeout \in Nat \ {0}
  /\ { Overlap, MayRevoke } \subseteq BOOLEAN

VARIABLES
  hasProfile,   \* is there a provider profile for the user?
  verified,     \* is its KYC verified?
  transport,    \* transport[s]: "closed", "handshake" (authenticated, not
                \* yet connected) or "open"
  withProvider, \* withProvider[s]: socket.data.user.providerId is set
  session,      \* the store's Map of sessions
  userSockets,  \* the store's Set of the user's sockets
  providerOnline, \* the store's flag of the provider
  announced,    \* the last provider:online:status broadcast
  goingOnline,  \* sockets whose provider:online awaits the database
  silent        \* history: ticks since the client was last heard

vars == << hasProfile, verified, transport, withProvider, session, userSockets,
           providerOnline, announced, goingOnline, silent >>

profile == << hasProfile, verified >>

Age == 0 .. Timeout + 1
NoSession == [ on |-> FALSE, provider |-> FALSE, age |-> 0 ]

Init ==
  /\ hasProfile \in BOOLEAN
  /\ verified = FALSE
  /\ transport = [s \in Socket |-> "closed"]
  /\ withProvider = [s \in Socket |-> FALSE]
  /\ session = [s \in Socket |-> NoSession]
  /\ userSockets = {}
  /\ providerOnline = FALSE /\ announced = "never"
  /\ goingOnline = {}
  /\ silent = [s \in Socket |-> 0]

\* Everything but the awaited answer itself waits for a serial handler.
Undisturbed == Overlap \/ goingOnline = {}

-----------------------------------------------------------------------------
(***************************************************************************)
(* The profile: created once by the user, decided upon by admins.          *)
(***************************************************************************)
CreateProfile ==
  /\ Undisturbed
  /\ ~ hasProfile
  /\ hasProfile' = TRUE
  /\ UNCHANGED << verified, transport, withProvider, session,
                  userSockets, providerOnline, announced, goingOnline, silent >>

DecideKyc ==
  /\ Undisturbed
  /\ hasProfile
  /\ MayRevoke \/ ~ verified
  /\ verified' = ~ verified
  /\ UNCHANGED << hasProfile, transport, withProvider, session, userSockets,
                  providerOnline, announced, goingOnline, silent >>

-----------------------------------------------------------------------------
(***************************************************************************)
(* Connecting and disconnecting.                                           *)
(***************************************************************************)
Handshake(s) ==
  /\ Undisturbed
  /\ transport[s] = "closed" /\ s \notin goingOnline
  /\ transport' = [transport EXCEPT ![s] = "handshake"]
  /\ withProvider' = [withProvider EXCEPT ![s] = hasProfile]
  /\ silent' = [silent EXCEPT ![s] = 0]
  /\ UNCHANGED << profile, session, userSockets, providerOnline, announced,
                  goingOnline >>

\* registerConnection and addSession.  The heartbeat of the handshake is the
\* session's first.
Connect(s) ==
  /\ Undisturbed
  /\ transport[s] = "handshake"
  /\ transport' = [transport EXCEPT ![s] = "open"]
  /\ session' = [session EXCEPT ![s] =
                   [on |-> TRUE, provider |-> withProvider[s], age |-> silent[s]]]
  /\ userSockets' = userSockets \cup { s }
  /\ providerOnline' = (providerOnline \/ withProvider[s])
  /\ UNCHANGED << profile, withProvider, announced, goingOnline, silent >>

\* Mutated: the Set of the user's sockets keeps the ones that are gone.
RemovedFrom_Kept(sockets, gone) == sockets

RemovedFrom(sockets, gone) == sockets \ gone

\* getSessionsByUserId(...).some(...), for what is left.
StillOnline(sockets, gone) == \E s \in sockets \ gone : session[s].provider

\* Mutated: any socket of the user that is left counts.
Leave_AnySocket(gone) ==
  /\ session' = [s \in Socket |-> IF s \in gone THEN NoSession ELSE session[s]]
  /\ userSockets' = RemovedFrom(userSockets, gone)
  /\ IF (\E s \in gone : session[s].provider) /\ userSockets \subseteq gone
       THEN providerOnline' = FALSE /\ announced' = "offline"
       ELSE UNCHANGED << providerOnline, announced >>

\* unregisterConnection of each socket of `gone', one after the other: when
\* no session of the provider is left it is offline, and that is broadcast.
Leave(gone) ==
  /\ session' = [s \in Socket |-> IF s \in gone THEN NoSession ELSE session[s]]
  /\ userSockets' = RemovedFrom(userSockets, gone)
  /\ IF (\E s \in gone : session[s].provider) /\ ~ StillOnline(userSockets, gone)
       THEN providerOnline' = FALSE /\ announced' = "offline"
       ELSE UNCHANGED << providerOnline, announced >>

Disconnect(s) ==
  /\ Undisturbed
  /\ transport[s] # "closed"
  /\ transport' = [transport EXCEPT ![s] = "closed"]
  /\ IF session[s].on THEN Leave({ s })
                      ELSE UNCHANGED << session, userSockets, providerOnline, announced >>
  /\ UNCHANGED << profile, withProvider, goingOnline, silent >>

-----------------------------------------------------------------------------
(***************************************************************************)
(* Events of a socket.                                                     *)
(***************************************************************************)
\* Mutated: only socket.data is refreshed, not the store.
RecordHeartbeat_NotStored(s) ==
  /\ Undisturbed
  /\ transport[s] = "open"
  /\ silent' = [silent EXCEPT ![s] = 0]
  /\ UNCHANGED << profile, transport, withProvider, session, userSockets,
                  providerOnline, announced, goingOnline >>

RecordHeartbeat(s) ==
  /\ Undisturbed
  /\ transport[s] = "open"
  /\ session' = [session EXCEPT ![s].age = 0]
  /\ silent' = [silent EXCEPT ![s] = 0]
  /\ UNCHANGED << profile, transport, withProvider, userSockets,
                  providerOnline, announced, goingOnline >>

\* provider:online, up to its await.
ProviderOnline(s) ==
  /\ Undisturbed
  /\ transport[s] = "open" /\ withProvider[s] /\ s \notin goingOnline
  /\ goingOnline' = goingOnline \cup { s }
  /\ UNCHANGED << profile, transport, withProvider, session, userSockets,
                  providerOnline, announced, silent >>

\* assertKycVerified, then setProviderOnline: whether the socket is still
\* there is not asked.
GoOnline(s) ==
  /\ s \in goingOnline
  /\ goingOnline' = goingOnline \ { s }
  /\ IF verified THEN providerOnline' = TRUE /\ announced' = "online"
                 ELSE UNCHANGED << providerOnline, announced >>
  /\ UNCHANGED << profile, transport, withProvider, session, userSockets, silent >>

ProviderOffline(s) ==
  /\ Undisturbed
  /\ transport[s] = "open" /\ withProvider[s]
  /\ providerOnline' = FALSE /\ announced' = "offline"
  /\ UNCHANGED << profile, transport, withProvider, session, userSockets,
                  goingOnline, silent >>

-----------------------------------------------------------------------------
(***************************************************************************)
(* Time and the heartbeat monitor.                                         *)
(***************************************************************************)
Older(age) == IF age > Timeout THEN age ELSE age + 1

Tick ==
  /\ Undisturbed
  /\ session' = [s \in Socket |->
       IF session[s].on THEN [session[s] EXCEPT !.age = Older(@)] ELSE NoSession]
  /\ silent' = [s \in Socket |->
       IF transport[s] = "closed" THEN 0 ELSE Older(silent[s])]
  /\ UNCHANGED << profile, transport, withProvider, userSockets, providerOnline,
                  announced, goingOnline >>

\* Mutated: the comparison is the other way round.
Stale_Reversed == { s \in Socket : session[s].on /\ session[s].age < Timeout }

Stale == { s \in Socket : session[s].on /\ session[s].age > Timeout }

\* One round of the interval: a stale socket is disconnected, and its
\* disconnect event runs at once.
Sweep ==
  /\ Undisturbed
  /\ Stale # {}
  /\ transport' = [s \in Socket |-> IF s \in Stale THEN "closed" ELSE transport[s]]
  /\ Leave(Stale)
  /\ UNCHANGED << profile, withProvider, goingOnline, silent >>

Next ==
  \/ CreateProfile \/ DecideKyc \/ Tick \/ Sweep
  \/ \E s \in Socket : \/ Handshake(s) \/ Connect(s) \/ Disconnect(s)
                       \/ RecordHeartbeat(s)
                       \/ ProviderOnline(s) \/ GoOnline(s) \/ ProviderOffline(s)

Spec == Init /\ [][Next]_vars

-----------------------------------------------------------------------------
(***************************************************************************)
(* Properties.                                                             *)
(***************************************************************************)

\* Every variable has its type.
TypeOK ==
  /\ { hasProfile, verified, providerOnline } \subseteq BOOLEAN
  /\ transport \in [Socket -> { "closed", "handshake", "open" }]
  /\ withProvider \in [Socket -> BOOLEAN]
  /\ session \in [Socket -> [ on : BOOLEAN, provider : BOOLEAN, age : Age ]]
  /\ userSockets \subseteq Socket
  /\ announced \in { "never", "online", "offline" }
  /\ goingOnline \subseteq Socket
  /\ silent \in [Socket -> Age]

\* The store's two indexes hold exactly the open sockets, whatever comes and
\* goes (addSession, removeSession).
IndexesAgree ==
  \A s \in Socket : /\ session[s].on <=> transport[s] = "open"
                    /\ s \in userSockets <=> session[s].on

\* The store has its shape, and both its indexes agree with the sockets
\* (in-memory.presence.ts:8-48).
StoreIsConsistent == TypeOK /\ IndexesAgree

\* A provider without a session is neither online nor announced to be
\* (unregisterConnection), if provider:online is never overtaken.
GoneIsOffline ==
  (\A s \in Socket : ~ session[s].provider) =>
    ~ providerOnline /\ announced # "online"

\* A provider whose socket is open and was heard within the timeout is not
\* taken for offline unless it said so: the monitor only drops the silent.
HeardIsKept ==
  [][ \A s \in Socket :
        transport[s] = "open" /\ transport'[s] = "closed" /\ Sweep
          => silent[s] > Timeout ]_vars

\* A client that fell silent is dropped, unless it is heard again
\* (startHeartbeatMonitor).
SilentIsDropped ==
  \A s \in Socket :
    transport[s] = "open" /\ silent[s] > Timeout
      ~> transport[s] = "closed" \/ silent[s] <= Timeout

=============================================================================
