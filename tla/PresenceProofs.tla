--------------------------- MODULE PresenceProofs ---------------------------
(***************************************************************************)
(* The presence of one user, for any number of sockets, any timeout and any*)
(* limit: the store's indexes and the sockets never disagree, a provider   *)
(* who is gone is offline, only the silent are dropped, and the limiter of *)
(* events is fair.                                                         *)
(***************************************************************************)
EXTENDS MCPresence, NaturalSets, TLAPS

\* The sockets of `gone' have been removed from the transport and from both
\* indexes, whatever became of the provider's flag.
LEMMA LeaveKeepsStore ==
  ASSUME StoreIsConsistent, NEW gone \in SUBSET Socket, Leave(gone),
         transport' = [s \in Socket |-> IF s \in gone THEN "closed" ELSE transport[s]],
         UNCHANGED << profile, withProvider, goingOnline, silent >>
  PROVE  StoreIsConsistent'
<1> USE PresenceAssumption
<1>1. /\ NoSession \in [ on : BOOLEAN, provider : BOOLEAN, age : Age ]
      /\ ~ NoSession.on
  BY DEF NoSession, Age
<1>2. /\ providerOnline' \in BOOLEAN
      /\ announced' \in { "never", "online", "offline" }
  BY DEF Leave, StoreIsConsistent, TypeOK
<1>3. TypeOK'
  BY <1>1, <1>2 DEF Leave, RemovedFrom, StoreIsConsistent, TypeOK, profile
<1>4. IndexesAgree'
  BY <1>1 DEF Leave, RemovedFrom, StoreIsConsistent, IndexesAgree, TypeOK
<1> QED
  BY <1>3, <1>4 DEF StoreIsConsistent

LEMMA InitStore == Init => StoreIsConsistent
<1> SUFFICES ASSUME Init PROVE StoreIsConsistent
  OBVIOUS
<1>1. { hasProfile, verified, providerOnline } \subseteq BOOLEAN
  BY Zenon DEF Init
<1>2. 0 \in Age
  BY PresenceAssumption DEF Age
<1>3. TypeOK
  BY <1>1, <1>2 DEF Init, TypeOK, NoSession
<1>4. IndexesAgree
  BY DEF Init, IndexesAgree, NoSession
<1> QED
  BY <1>3, <1>4 DEF StoreIsConsistent

\* A step that leaves sockets and sessions alone.
LEMMA ElsewhereKeepsStore ==
  ASSUME StoreIsConsistent,
         UNCHANGED << transport, withProvider, session, userSockets, silent >>,
         { hasProfile', verified', providerOnline' } \subseteq BOOLEAN,
         announced' \in { "never", "online", "offline" },
         goingOnline' \subseteq Socket
  PROVE  StoreIsConsistent'
BY DEF StoreIsConsistent, TypeOK, IndexesAgree

LEMMA StepStore == StoreIsConsistent /\ [Next]_vars => StoreIsConsistent'
<1> SUFFICES ASSUME StoreIsConsistent, [Next]_vars PROVE StoreIsConsistent'
  OBVIOUS
<1> USE PresenceAssumption
<1>1. ASSUME UNCHANGED vars PROVE StoreIsConsistent'
  BY <1>1 DEF StoreIsConsistent, TypeOK, IndexesAgree, vars
<1>2. ASSUME CreateProfile \/ DecideKyc PROVE StoreIsConsistent'
  BY <1>2, ElsewhereKeepsStore DEF CreateProfile, DecideKyc, StoreIsConsistent, TypeOK
<1>3. ASSUME Tick PROVE StoreIsConsistent'
  <2>1. \A a \in Age : Older(a) \in Age
    BY DEF Age, Older
  <2>2. NoSession \in [ on : BOOLEAN, provider : BOOLEAN, age : Age ] /\ 0 \in Age
    BY DEF NoSession, Age
  <2>3. TypeOK'
    BY <1>3, <2>1, <2>2 DEF Tick, StoreIsConsistent, TypeOK, profile
  <2>4. IndexesAgree'
    BY <1>3 DEF Tick, StoreIsConsistent, IndexesAgree, TypeOK, NoSession
  <2> QED
    BY <2>3, <2>4 DEF StoreIsConsistent
<1>4. ASSUME Sweep PROVE StoreIsConsistent'
  BY <1>4, LeaveKeepsStore DEF Sweep, Stale
<1>5. ASSUME NEW s \in Socket, Handshake(s) PROVE StoreIsConsistent'
  <2>1. TypeOK'
    BY <1>5 DEF Handshake, StoreIsConsistent, TypeOK, profile, Age
  <2>2. IndexesAgree'
    BY <1>5 DEF Handshake, StoreIsConsistent, IndexesAgree, TypeOK
  <2> QED
    BY <2>1, <2>2 DEF StoreIsConsistent
<1>6. ASSUME NEW s \in Socket, Connect(s) PROVE StoreIsConsistent'
  <2>1. TypeOK'
    BY <1>6 DEF Connect, StoreIsConsistent, TypeOK, profile
  <2>2. IndexesAgree'
    BY <1>6 DEF Connect, StoreIsConsistent, IndexesAgree, TypeOK
  <2> QED
    BY <2>1, <2>2 DEF StoreIsConsistent
<1>7. ASSUME NEW s \in Socket, Disconnect(s) PROVE StoreIsConsistent'
  <2>1. transport' = [t \in Socket |-> IF t \in { s } THEN "closed" ELSE transport[t]]
    BY <1>7 DEF Disconnect, StoreIsConsistent, TypeOK
  <2>2. CASE session[s].on
    BY <1>7, <2>1, <2>2, LeaveKeepsStore DEF Disconnect
  <2>3. CASE ~ session[s].on
    <3>1. TypeOK'
      BY <1>7, <2>3 DEF Disconnect, StoreIsConsistent, TypeOK, profile
    <3>2. IndexesAgree'
      BY <1>7, <2>3, <2>1 DEF Disconnect, StoreIsConsistent, IndexesAgree
    <3> QED
      BY <3>1, <3>2 DEF StoreIsConsistent
  <2> QED
    BY <2>2, <2>3
<1>8. ASSUME NEW s \in Socket, RecordHeartbeat(s) PROVE StoreIsConsistent'
  <2>1. TypeOK'
    BY <1>8 DEF RecordHeartbeat, StoreIsConsistent, TypeOK, profile, Age
  <2>2. IndexesAgree'
    BY <1>8 DEF RecordHeartbeat, StoreIsConsistent, IndexesAgree, TypeOK
  <2> QED
    BY <2>1, <2>2 DEF StoreIsConsistent
<1>9. ASSUME NEW s \in Socket, ProviderOnline(s) \/ GoOnline(s) \/ ProviderOffline(s)
      PROVE  StoreIsConsistent'
  BY <1>9, ElsewhereKeepsStore
     DEF ProviderOnline, GoOnline, ProviderOffline, StoreIsConsistent, TypeOK, profile
<1> QED
  BY <1>1, <1>2, <1>3, <1>4, <1>5, <1>6, <1>7, <1>8, <1>9 DEF Next

\* Whatever connects, disconnects, falls silent, is swept and races its own
\* provider:online: the sessions and the set of the user's sockets are exactly
\* the open sockets (in-memory.presence.ts:8-48, presence.service.ts:71-86).
THEOREM StoreAlwaysConsistent == Spec => []StoreIsConsistent
BY InitStore, StepStore, PTL DEF Spec

-----------------------------------------------------------------------------
(***************************************************************************)
(* Who is dropped, and when a provider is online.                          *)
(***************************************************************************)
\* The store's heartbeat of a session is the time since the client was heard.
AgeInv ==
  /\ StoreIsConsistent
  /\ \A s \in Socket : session[s].on => session[s].age = silent[s]

LEMMA InitAge == Init => AgeInv
BY InitStore DEF Init, AgeInv, NoSession

LEMMA StepAge == AgeInv /\ [Next]_vars => AgeInv'
<1> SUFFICES ASSUME AgeInv, [Next]_vars PROVE AgeInv'
  OBVIOUS
<1> USE PresenceAssumption
<1>store. StoreIsConsistent'
  BY StepStore DEF AgeInv
<1>type. TypeOK /\ IndexesAgree
  BY DEF AgeInv, StoreIsConsistent
<1>1. ASSUME UNCHANGED << session, silent >> PROVE AgeInv'
  BY <1>1, <1>store DEF AgeInv
<1>2. ASSUME NEW gone \in SUBSET Socket, Leave(gone), UNCHANGED silent PROVE AgeInv'
  <2>1. \A s \in Socket : session'[s] = NoSession \/ session'[s] = session[s]
    BY <1>2 DEF Leave
  <2> QED
    BY <1>2, <2>1, <1>store DEF AgeInv, NoSession
<1>3. CASE Tick
  <2>1. \A s \in Socket : session'[s].on =>
          /\ session[s].on /\ session'[s].age = Older(session[s].age)
          /\ silent'[s] = Older(silent[s])
    BY <1>3, <1>type DEF Tick, TypeOK, IndexesAgree, NoSession
  <2> QED
    BY <2>1, <1>store DEF AgeInv
<1>4. CASE Sweep
  BY <1>2, <1>4 DEF Sweep, Stale
<1>5. ASSUME NEW s \in Socket, Handshake(s) PROVE AgeInv'
  BY <1>5, <1>store, <1>type DEF Handshake, AgeInv, IndexesAgree, TypeOK
<1>6. ASSUME NEW s \in Socket, Connect(s) PROVE AgeInv'
  BY <1>6, <1>store, <1>type DEF Connect, AgeInv, TypeOK
<1>7. ASSUME NEW s \in Socket, Disconnect(s) PROVE AgeInv'
  BY <1>1, <1>2, <1>7 DEF Disconnect
<1>8. ASSUME NEW s \in Socket, RecordHeartbeat(s) PROVE AgeInv'
  BY <1>8, <1>store, <1>type DEF RecordHeartbeat, AgeInv, TypeOK
<1> QED
  BY <1>1, <1>3, <1>4, <1>5, <1>6, <1>7, <1>8
     DEF Next, vars, CreateProfile, DecideKyc, ProviderOnline, GoOnline, ProviderOffline

\* The monitor disconnects a socket only after a whole timeout without a word
\* from its client, whatever else happens meanwhile (startHeartbeatMonitor,
\* presence.service.ts:71-86).
THEOREM HeardAlwaysKept == Spec => HeardIsKept
<1>1. AgeInv /\ [Next]_vars =>
        [\A s \in Socket : transport[s] = "open" /\ transport'[s] = "closed" /\ Sweep
           => silent[s] > Timeout]_vars
  <2> SUFFICES ASSUME AgeInv, NEW s \in Socket, transport[s] = "open",
                      transport'[s] = "closed", Sweep
               PROVE  silent[s] > Timeout
    OBVIOUS
  <2>1. s \in Stale
    BY DEF Sweep
  <2> QED
    BY <2>1 DEF Stale, AgeInv
<1> QED
  BY <1>1, InitAge, StepAge, PTL DEF Spec, HeardIsKept

\* Who is being taken online has a session, and so has every provider that is
\* online or announced to be.  The second needs the first, and the first needs
\* that nothing happens while a provider:online awaits.
PresenceInv ==
  /\ StoreIsConsistent
  /\ \A s \in Socket :
       /\ session[s].provider => session[s].on
       /\ transport[s] = "open" => session[s].provider = withProvider[s]
       /\ s \in goingOnline => session[s].provider
  /\ GoneIsOffline

LEMMA InitPresence == Init => PresenceInv
BY InitStore DEF Init, PresenceInv, NoSession, GoneIsOffline

LEMMA LeaveKeepsPresence ==
  ASSUME PresenceInv, StoreIsConsistent', goingOnline = {},
         NEW gone \in SUBSET Socket, Leave(gone),
         transport' = [s \in Socket |-> IF s \in gone THEN "closed" ELSE transport[s]],
         UNCHANGED << withProvider, goingOnline >>
  PROVE  PresenceInv'
<1>1. \A s \in Socket : session'[s] = IF s \in gone THEN NoSession ELSE session[s]
  BY DEF Leave
<1>2. TypeOK /\ IndexesAgree
  BY DEF PresenceInv, StoreIsConsistent
<1>3. GoneIsOffline'
  <2> SUFFICES ASSUME \A s \in Socket : ~ session'[s].provider
               PROVE  ~ providerOnline' /\ announced' # "online"
    BY DEF GoneIsOffline
  <2>1. ~ StillOnline(userSockets, gone)
    BY <1>1, <1>2 DEF StillOnline, TypeOK
  <2>2. CASE \E s \in gone : session[s].provider
    BY <2>1, <2>2 DEF Leave
  <2>3. CASE ~ \E s \in gone : session[s].provider
    <3>1. \A s \in Socket : ~ session[s].provider
      BY <1>1, <2>3
    <3> QED
      BY <2>3, <3>1 DEF Leave, PresenceInv, GoneIsOffline
  <2> QED
    BY <2>2, <2>3
<1>4. \A s \in Socket :
        /\ session'[s].provider => session'[s].on
        /\ transport'[s] = "open" => session'[s].provider = withProvider'[s]
  BY <1>1 DEF PresenceInv, NoSession
<1> QED
  BY <1>3, <1>4 DEF PresenceInv

LEMMA StepPresence ==
  ASSUME ~ Overlap
  PROVE  PresenceInv /\ [Next]_vars => PresenceInv'
<1> SUFFICES ASSUME PresenceInv, [Next]_vars PROVE PresenceInv'
  OBVIOUS
<1>store. StoreIsConsistent'
  BY StepStore DEF PresenceInv
<1>type. TypeOK /\ IndexesAgree
  BY DEF PresenceInv, StoreIsConsistent
<1>1. CASE UNCHANGED vars
  BY <1>1, <1>store DEF vars, PresenceInv, GoneIsOffline
<1>2. CASE CreateProfile \/ DecideKyc
  BY <1>2, <1>store DEF CreateProfile, DecideKyc, PresenceInv, GoneIsOffline
<1>3. CASE Tick
  <2>1. \A s \in Socket : /\ session'[s].on = session[s].on
                          /\ session'[s].provider = session[s].provider
    BY <1>3, <1>type DEF Tick, TypeOK, NoSession, PresenceInv
  <2> QED
    BY <1>3, <2>1, <1>store DEF Tick, PresenceInv, GoneIsOffline
<1>4. CASE Sweep
  BY <1>4, <1>store, LeaveKeepsPresence DEF Sweep, Stale, Undisturbed
<1>5. ASSUME NEW s \in Socket, Handshake(s) PROVE PresenceInv'
  BY <1>5, <1>store, <1>type DEF Handshake, TypeOK, PresenceInv, GoneIsOffline
<1>6. ASSUME NEW s \in Socket, Connect(s) PROVE PresenceInv'
  <2>1. /\ session'[s].on /\ session'[s].provider = withProvider[s]
        /\ \A t \in Socket \ { s } : session'[t] = session[t]
        /\ ~ session[s].on
    BY <1>6, <1>type DEF Connect, TypeOK, IndexesAgree
  <2>2. GoneIsOffline'
    BY <1>6, <2>1 DEF Connect, PresenceInv, GoneIsOffline
  <2> QED
    BY <1>6, <2>1, <2>2, <1>store, <1>type DEF Connect, PresenceInv, TypeOK
<1>7. ASSUME NEW s \in Socket, Disconnect(s) PROVE PresenceInv'
  <2>1. /\ transport' = [t \in Socket |-> IF t \in { s } THEN "closed" ELSE transport[t]]
        /\ goingOnline = {} /\ UNCHANGED << withProvider, goingOnline >>
    BY <1>7, <1>type DEF Disconnect, TypeOK, Undisturbed
  <2>2. CASE session[s].on
    BY <1>7, <2>1, <2>2, <1>store, LeaveKeepsPresence DEF Disconnect
  <2>3. CASE ~ session[s].on
    BY <1>7, <2>1, <2>3, <1>store DEF Disconnect, PresenceInv, GoneIsOffline
  <2> QED
    BY <2>2, <2>3
<1>8. ASSUME NEW s \in Socket, RecordHeartbeat(s) PROVE PresenceInv'
  <2>1. \A t \in Socket : /\ session'[t].on = session[t].on
                          /\ session'[t].provider = session[t].provider
    BY <1>8, <1>type DEF RecordHeartbeat, TypeOK
  <2> QED
    BY <1>8, <2>1, <1>store DEF RecordHeartbeat, PresenceInv, GoneIsOffline
<1>9. ASSUME NEW s \in Socket, ProviderOnline(s) PROVE PresenceInv'
  BY <1>9, <1>store DEF ProviderOnline, PresenceInv, GoneIsOffline
<1>10. ASSUME NEW s \in Socket, GoOnline(s) PROVE PresenceInv'
  BY <1>10, <1>store DEF GoOnline, PresenceInv, GoneIsOffline
<1>11. ASSUME NEW s \in Socket, ProviderOffline(s) PROVE PresenceInv'
  BY <1>11, <1>store DEF ProviderOffline, PresenceInv, GoneIsOffline
<1> QED
  BY <1>1, <1>2, <1>3, <1>4, <1>5, <1>6, <1>7, <1>8, <1>9, <1>10, <1>11 DEF Next

\* When nothing happens while a provider:online awaits the database: a provider
\* without a session is neither online nor announced to be, however many
\* sockets come, go and are swept (unregisterConnection).
THEOREM GoneAlwaysOffline ==
  ASSUME ~ Overlap
  PROVE  Spec => []GoneIsOffline
<1>1. PresenceInv => GoneIsOffline
  BY DEF PresenceInv
<1> QED
  BY <1>1, InitPresence, StepPresence, PTL DEF Spec

\* The same of the run, whatever its other worlds do: the racing one shares
\* the variables, but a behaviour never crosses over.
THEOREM GoneMeansAlwaysOffline ==
  ASSUME ~ Overlap
  PROVE  WorldsSpec => []GoneMeansOffline
<1> DEFINE I == world = "serial" => PresenceInv
<1>1. WorldsInit => I
  BY InitPresence DEF WorldsInit
<1>2. I /\ [WorldsNext]_<< eventVars, world >> => I'
  <2> SUFFICES ASSUME I, [WorldsNext]_<< eventVars, world >>, world' = "serial"
               PROVE  PresenceInv'
    OBVIOUS
  <2>1. world = "serial" /\ [Next]_vars
    BY DEF WorldsNext, eventVars
  <2> QED
    BY <2>1, StepPresence
<1>3. I => GoneMeansOffline
  BY DEF GoneMeansOffline, PresenceInv
<1> QED
  BY <1>1, <1>2, <1>3, PTL DEF WorldsSpec

-----------------------------------------------------------------------------
(***************************************************************************)
(* Sums over what a socket was let through, tick by tick.                  *)
(***************************************************************************)
\* f is the running sum of w, over the first n + 1 ticks.
Sums(f, w, n) ==
  \A a \in 0 .. n : f[a] = w[a] + (IF a = 0 THEN 0 ELSE f[a - 1])

LEMMA SumExists ==
  ASSUME NEW N \in Nat, NEW w \in [0 .. N -> Nat]
  PROVE  \E f \in [0 .. N -> Nat] : Sums(f, w, N)
<1> DEFINE Good == { n \in Nat : n <= N => \E f \in [0 .. n -> Nat] : Sums(f, w, n) }
<1>1. 0 \in Good
  <2> DEFINE f == [a \in 0 .. 0 |-> w[0]]
  <2>1. f \in [0 .. 0 -> Nat] /\ Sums(f, w, 0)
    BY DEF Sums
  <2> QED
    BY <2>1
<1>2. ASSUME NEW n \in Nat, n \in Good PROVE n + 1 \in Good
  <2> SUFFICES ASSUME n + 1 <= N
               PROVE  \E f \in [0 .. n + 1 -> Nat] : Sums(f, w, n + 1)
    OBVIOUS
  <2>1. PICK f \in [0 .. n -> Nat] : Sums(f, w, n)
    <3>1. n <= N
      OBVIOUS
    <3> QED
      BY <1>2, <3>1
  <2> DEFINE g == [a \in 0 .. n + 1 |-> IF a = n + 1 THEN w[a] + f[n] ELSE f[a]]
  <2>2. w[n + 1] \in Nat /\ f[n] \in Nat
    OBVIOUS
  <2>3. g \in [0 .. n + 1 -> Nat]
    BY <2>2
  <2>4. Sums(g, w, n + 1)
    <3>1. g[n + 1] = w[n + 1] + f[n] /\ \A a \in 0 .. n : g[a] = f[a]
      <4>1. n + 1 \in 0 .. n + 1
        OBVIOUS
      <4>2. \A a \in 0 .. n : a \in 0 .. n + 1 /\ a # n + 1
        OBVIOUS
      <4> QED
        BY <4>1, <4>2, Zenon
    <3> HIDE DEF g
    <3>2. g[n + 1] = w[n + 1] + g[n]
      BY <3>1
    <3>3. ASSUME NEW a \in 0 .. n, a # 0 PROVE g[a] = w[a] + g[a - 1]
      <4>1. a - 1 \in 0 .. n
        BY <3>3
      <4>2. f[a] = w[a] + f[a - 1]
        BY <2>1, <3>3, Zenon DEF Sums
      <4>3. g[a] = f[a] /\ g[a - 1] = f[a - 1]
        BY <3>1, <4>1, Zenon
      <4> QED
        BY <4>2, <4>3, Zenon
    <3>4. g[0] = w[0] + 0
      BY <2>1, <3>1 DEF Sums
    <3> QED
      BY <3>2, <3>3, <3>4 DEF Sums
  <2> QED
    BY <2>3, <2>4
<1>3. N \in Good
  <2> HIDE DEF Good
  <2> QED
    BY <1>1, <1>2, Induction
<1> QED
  BY <1>3

LEMMA SumUnique ==
  ASSUME NEW N \in Nat, NEW w, NEW f, NEW g, Sums(f, w, N), Sums(g, w, N)
  PROVE  \A a \in 0 .. N : f[a] = g[a]
<1> DEFINE Good == { n \in Nat : n <= N => f[n] = g[n] }
<1>1. 0 \in Good
  BY DEF Sums
<1>2. ASSUME NEW n \in Nat, n \in Good PROVE n + 1 \in Good
  <2> SUFFICES ASSUME n + 1 <= N PROVE f[n + 1] = g[n + 1]
    OBVIOUS
  <2>1. n + 1 \in 0 .. N /\ n + 1 # 0 /\ (n + 1) - 1 = n /\ f[n] = g[n]
    BY <1>2
  <2> QED
    BY <2>1 DEF Sums
<1>3. Nat \subseteq Good
  <2> HIDE DEF Good
  <2> QED
    BY <1>1, <1>2, Induction
<1> QED
  BY <1>3

LEMMA SumGrows ==
  ASSUME NEW N \in Nat, NEW w \in [0 .. N -> Nat], NEW f \in [0 .. N -> Nat],
         Sums(f, w, N), NEW a \in 0 .. N
  PROVE  f[a] <= f[N]
<1> DEFINE Good == { n \in Nat : a <= n /\ n <= N => f[a] <= f[n] }
<1>1. 0 \in Good
  OBVIOUS
<1>2. ASSUME NEW n \in Nat, n \in Good PROVE n + 1 \in Good
  <2> SUFFICES ASSUME a <= n + 1, n + 1 <= N PROVE f[a] <= f[n + 1]
    OBVIOUS
  <2>1. CASE a = n + 1
    BY <2>1
  <2>2. CASE a <= n
    <3>1. n + 1 \in 0 .. N /\ n \in 0 .. N /\ n + 1 # 0 /\ (n + 1) - 1 = n
      OBVIOUS
    <3>2. f[n + 1] = w[n + 1] + f[n]
      BY <3>1 DEF Sums
    <3>3. f[a] \in Nat /\ f[n] \in Nat /\ w[n + 1] \in Nat /\ f[a] <= f[n]
      BY <1>2, <2>2, <3>1
    <3> QED
      BY <3>2, <3>3
  <2> QED
    BY <2>1, <2>2
<1>3. Nat \subseteq Good
  <2> HIDE DEF Good
  <2> QED
    BY <1>1, <1>2, Induction
<1> QED
  BY <1>3

\* The sum of what a socket was let through during the last a + 1 ticks.
Window == 0 .. windowMs - 1
Counts == [Window -> Nat]

Sum(w) == CHOOSE f \in Counts : Sums(f, w, windowMs - 1)

LEMMA SumIs ==
  ASSUME NEW w \in Counts
  PROVE  Sum(w) \in Counts /\ Sums(Sum(w), w, windowMs - 1)
<1>1. windowMs - 1 \in Nat
  BY LimiterAssumption
<1>2. \E f \in Counts : Sums(f, w, windowMs - 1)
  BY <1>1, SumExists DEF Counts, Window
<1> QED
  BY <1>2 DEF Sum

LEMMA SumIsThe ==
  ASSUME NEW w \in Counts, NEW f, Sums(f, w, windowMs - 1)
  PROVE  \A a \in Window : Sum(w)[a] = f[a]
<1>1. windowMs - 1 \in Nat
  BY LimiterAssumption
<1> QED
  BY <1>1, SumIs, SumUnique DEF Window

LEMMA LetIsSum ==
  ASSUME passed \in [Socket -> Counts], NEW s \in Socket
  PROVE  Let[s] = Sum(passed[s])[windowMs - 1]
<1> DEFINE w == passed[s]
           Is(f) == f = [a \in 0 .. windowMs - 1 |->
                           passed[s][a] + (IF a = 0 THEN 0 ELSE f[a - 1])]
           g == CHOOSE f : Is(f)
<1>1. w \in Counts /\ windowMs - 1 \in Window
  BY LimiterAssumption DEF Window
<1>2. Is(Sum(w))
  <2>1. Sum(w) \in Counts /\ Sums(Sum(w), w, windowMs - 1)
    BY <1>1, SumIs
  <2> QED
    BY <2>1 DEF Sums, Counts, Window
<1>3. Is(g)
  BY <1>2
<1>4. Sums(g, w, windowMs - 1)
  BY <1>3 DEF Sums
<1>5. Let[s] = g[windowMs - 1]
  BY DEF Let
<1> HIDE DEF g, w
<1>6. Sum(w)[windowMs - 1] = g[windowMs - 1]
  BY <1>1, <1>4, SumIsThe
<1> QED
  BY <1>5, <1>6 DEF w

LEMMA SumOfNothing == Nothing \in Counts /\ \A a \in Window : Sum(Nothing)[a] = 0
<1>1. Nothing \in Counts /\ \A a \in Window : Nothing[a] = 0
  BY DEF Nothing, Counts, Window
<1>2. Sums(Nothing, Nothing, windowMs - 1)
  BY LimiterAssumption DEF Sums, Nothing
<1> QED
  BY <1>1, <1>2, SumIsThe

\* An event that is let through counts in every sum.
LEMMA SumWithEvent ==
  ASSUME NEW w \in Counts
  PROVE  LET v == [w EXCEPT ![0] = @ + 1]
         IN  v \in Counts /\ \A a \in Window : Sum(v)[a] = Sum(w)[a] + 1
<1> DEFINE v == [w EXCEPT ![0] = @ + 1]
           S == Sum(w)
           f == [a \in Window |-> S[a] + 1]
<1>1. S \in Counts /\ Sums(S, w, windowMs - 1)
  BY SumIs
<1>2. v \in Counts /\ v[0] = w[0] + 1 /\ \A a \in Window \ { 0 } : v[a] = w[a]
  BY LimiterAssumption DEF Counts, Window
<1> HIDE DEF v, S
<1>3. Sums(f, v, windowMs - 1)
  <2> SUFFICES ASSUME NEW a \in Window
               PROVE  f[a] = v[a] + (IF a = 0 THEN 0 ELSE f[a - 1])
    BY DEF Sums, Window
  <2>1. w[a] \in Nat /\ S[a] \in Nat /\ S[a] = w[a] + (IF a = 0 THEN 0 ELSE S[a - 1])
    BY <1>1 DEF Sums, Counts, Window
  <2>2. CASE a = 0
    BY <1>2, <2>1, <2>2
  <2>3. CASE a # 0
    <3>1. a - 1 \in Window /\ S[a - 1] \in Nat
      BY <1>1, <2>3, LimiterAssumption DEF Window, Counts
    <3> QED
      BY <1>2, <2>1, <2>3, <3>1
  <2> QED
    BY <2>2, <2>3
<1>4. \A a \in Window : Sum(v)[a] = f[a]
  BY <1>2, <1>3, SumIsThe
<1> QED
  BY <1>2, <1>4 DEF v, S

\* A tick later everything happened a tick longer ago.
LEMMA SumAfterTick ==
  ASSUME NEW w \in Counts
  PROVE  LET v == [a \in 0 .. windowMs - 1 |-> IF a = 0 THEN 0 ELSE w[a - 1]]
         IN  /\ v \in Counts
             /\ \A a \in Window : Sum(v)[a] = IF a = 0 THEN 0 ELSE Sum(w)[a - 1]
<1> DEFINE v == [a \in 0 .. windowMs - 1 |-> IF a = 0 THEN 0 ELSE w[a - 1]]
           S == Sum(w)
           f == [a \in Window |-> IF a = 0 THEN 0 ELSE S[a - 1]]
<1>1. S \in Counts /\ Sums(S, w, windowMs - 1)
  BY SumIs
<1>2. v \in Counts /\ v[0] = 0 /\ \A a \in Window \ { 0 } : v[a] = w[a - 1]
  BY LimiterAssumption DEF Counts, Window
<1> HIDE DEF v, S
<1>3. Sums(f, v, windowMs - 1)
  <2> SUFFICES ASSUME NEW a \in Window
               PROVE  f[a] = v[a] + (IF a = 0 THEN 0 ELSE f[a - 1])
    BY DEF Sums, Window
  <2>1. CASE a = 0
    BY <1>2, <2>1
  <2>2. CASE a # 0
    <3>1. a - 1 \in Window /\ w[a - 1] \in Nat /\ S[a - 1] \in Nat
          /\ S[a - 1] = w[a - 1] + (IF a - 1 = 0 THEN 0 ELSE S[(a - 1) - 1])
      BY <1>1, <2>2, LimiterAssumption DEF Window, Counts, Sums
    <3>2. CASE a = 1
      BY <1>2, <2>2, <3>1, <3>2
    <3>3. CASE a # 1
      BY <1>2, <2>2, <3>1, <3>3
    <3> QED
      BY <3>2, <3>3
  <2> QED
    BY <2>1, <2>2
<1>4. \A a \in Window : Sum(v)[a] = f[a]
  BY <1>2, <1>3, SumIsThe
<1> QED
  BY <1>2, <1>4 DEF v, S

-----------------------------------------------------------------------------
(***************************************************************************)
(* The limiter                                                             *)
(***************************************************************************)
Limit == [ known : BOOLEAN, count : 0 .. maxEvents + 1, since : 0 .. windowMs ]

\* A count goes on past the limit, what is let through does not.
LetIn(l) == IF l.count > maxEvents THEN maxEvents ELSE l.count

\* What s was let through since its window began is what the count says, and
\* what it was let through earlier is of one window at most: the previous one
\* began before the last windowMs did.
Accounted(l, w) ==
  /\ ~ l.known => \A a \in Window : Sum(w)[a] = 0
  /\ l.known /\ l.since = windowMs =>
       Sum(w)[0] = 0 /\ Sum(w)[windowMs - 1] <= maxEvents
  /\ l.known /\ l.since < windowMs =>
       /\ Sum(w)[l.since] = LetIn(l)
       /\ Sum(w)[windowMs - 1] <= LetIn(l) + maxEvents

LimiterTypeOK ==
  /\ limit \in [Socket -> Limit]
  /\ passed \in [Socket -> Counts]
  /\ tried \in [Socket -> Age]
  /\ polite \in [Socket -> BOOLEAN]

LimiterInv ==
  /\ LimiterTypeOK
  /\ \A s \in Socket : Accounted(limit[s], passed[s])

LEMMA InitLimiter == LimiterInit => LimiterInv
<1> SUFFICES ASSUME LimiterInit PROVE LimiterInv
  OBVIOUS
<1>1. LimiterTypeOK
  BY SumOfNothing, LimiterAssumption, PresenceAssumption
     DEF LimiterInit, LimiterTypeOK, Limit, NoLimit, Age
<1>2. \A s \in Socket : ~ limit[s].known /\ passed[s] = Nothing
  BY DEF LimiterInit, NoLimit
<1> QED
  BY <1>1, <1>2, SumOfNothing DEF LimiterInv, Accounted

LEMMA WindowIndexes == windowMs - 1 \in Window /\ 0 \in Window
BY LimiterAssumption DEF Window

\* The event of s is counted, and let through or not.
LEMMA CheckIsFair ==
  ASSUME LimiterInv, NEW s \in Socket
  PROVE  LET v == IF Passes(s) THEN [passed[s] EXCEPT ![0] = @ + 1] ELSE passed[s]
         IN  /\ Counted(s) \in Limit /\ v \in Counts
             /\ Accounted(Counted(s), v)
             /\ ~ Passes(s) => Sum(passed[s])[windowMs - 1] >= maxEvents
<1> USE LimiterAssumption
<1> DEFINE l == limit[s]
           c == Counted(s)
           w == passed[s]
           v == IF Passes(s) THEN [w EXCEPT ![0] = @ + 1] ELSE w
           S == Sum(w)
<1>1. l \in Limit /\ w \in Counts /\ Accounted(l, w)
  BY DEF LimiterInv, LimiterTypeOK
<1>2. S \in Counts /\ \A a \in Window : S[a] \in Nat /\ S[a] <= S[windowMs - 1]
  <2>1. S \in Counts /\ Sums(S, w, windowMs - 1)
    BY <1>1, SumIs
  <2>2. windowMs - 1 \in Nat
    OBVIOUS
  <2> HIDE DEF S, w
  <2> QED
    BY <1>1, <2>1, <2>2, SumGrows DEF Counts, Window
<1>3. v \in Counts /\ \A a \in Window : Sum(v)[a] = IF Passes(s) THEN S[a] + 1 ELSE S[a]
  <2>1. CASE Passes(s)
    BY <1>1, <2>1, SumWithEvent
  <2>2. CASE ~ Passes(s)
    BY <1>1, <2>2
  <2> QED
    BY <2>1, <2>2
<1>4. CASE ~ l.known \/ l.since >= windowMs
  <2>1. c.known /\ c.count = 1 /\ c.since = 0 /\ c \in Limit
    <3> DEFINE n == CurrentWindow(s)
    <3>1. n.known /\ n.count = 0 /\ n.since = 0 /\ n \in Limit
      BY <1>4 DEF CurrentWindow, NewLimit, Limit
    <3> HIDE DEF n
    <3>2. c = [n EXCEPT !.count = IF @ > maxEvents THEN @ ELSE @ + 1]
      BY DEF Counted, n
    <3> QED
      BY <3>1, <3>2 DEF Limit
  <2>2. Passes(s)
    BY <2>1 DEF Passes
  <2>3. S[0] = 0 /\ S[windowMs - 1] <= maxEvents
    BY <1>1, <1>4, WindowIndexes DEF Accounted, Limit
  <2>4. Sum(v)[0] = 1 /\ Sum(v)[windowMs - 1] <= 1 + maxEvents
    BY <1>2, <1>3, <2>2, <2>3, WindowIndexes
  <2> HIDE DEF c, v, S, w
  <2>5. Accounted(c, v)
    BY <2>1, <2>4 DEF Accounted, LetIn
  <2> QED
    BY <1>3, <2>1, <2>2, <2>5 DEF c, v, w
<1>5. CASE l.known /\ l.since < windowMs
  <2>1. /\ c.known /\ c.since = l.since
        /\ c.count = IF l.count > maxEvents THEN l.count ELSE l.count + 1
        /\ c \in Limit
    BY <1>1, <1>5 DEF Counted, CurrentWindow, Limit
  <2>2. /\ l.since \in Window /\ S[l.since] = LetIn(l)
        /\ S[windowMs - 1] <= LetIn(l) + maxEvents
    BY <1>1, <1>5 DEF Accounted, Limit, Window
  <2>3. Passes(s) <=> l.count < maxEvents
    BY <1>1, <2>1 DEF Passes, Limit
  <2>4. LetIn(c) = IF Passes(s) THEN LetIn(l) + 1 ELSE LetIn(l)
    BY <1>1, <2>1, <2>3 DEF LetIn, Limit
  <2>5. ~ Passes(s) => LetIn(l) = maxEvents
    BY <1>1, <2>3 DEF LetIn, Limit
  <2>6. LetIn(l) \in Nat
    BY <1>1 DEF LetIn, Limit
  <2> HIDE DEF c, v, S, w, l
  <2>7. Sum(v)[c.since] = LetIn(c) /\ Sum(v)[windowMs - 1] <= LetIn(c) + maxEvents
    BY <1>2, <1>3, <2>1, <2>2, <2>4, <2>6, WindowIndexes
  <2>8. ~ Passes(s) => S[windowMs - 1] >= maxEvents
    BY <1>2, <2>2, <2>5, WindowIndexes
  <2>9. Accounted(c, v)
    BY <1>5, <2>1, <2>7 DEF Accounted
  <2> QED
    BY <1>3, <2>1, <2>8, <2>9 DEF c, v, w, S
<1> QED
  BY <1>1, <1>4, <1>5 DEF Limit

LEMMA CheckKeepsLimiter ==
  ASSUME LimiterInv, NEW s \in Socket, check(s), tried' \in [Socket -> Age]
  PROVE  LimiterInv'
<1> DEFINE v == IF Passes(s) THEN [passed[s] EXCEPT ![0] = @ + 1] ELSE passed[s]
<1>1. Counted(s) \in Limit /\ v \in Counts /\ Accounted(Counted(s), v)
  BY CheckIsFair
<1>2. /\ limit' = [limit EXCEPT ![s] = Counted(s)]
      /\ passed' = [passed EXCEPT ![s] = v]
      /\ polite' \in [Socket -> BOOLEAN]
  BY DEF check, LimiterInv, LimiterTypeOK
<1> HIDE DEF v
<1>3. LimiterTypeOK'
  BY <1>1, <1>2 DEF LimiterInv, LimiterTypeOK
<1>4. \A t \in Socket : Accounted(limit'[t], passed'[t])
  BY <1>1, <1>2 DEF LimiterInv, LimiterTypeOK
<1> QED
  BY <1>3, <1>4 DEF LimiterInv

LEMMA ClearKeepsLimiter ==
  ASSUME LimiterInv, NEW gone \in SUBSET Socket, clear(gone)
  PROVE  LimiterInv'
<1>1. LimiterTypeOK'
  BY SumOfNothing, LimiterAssumption, PresenceAssumption
     DEF clear, LimiterInv, LimiterTypeOK, Limit, NoLimit, Age
<1>2. \A s \in Socket : Accounted(limit'[s], passed'[s])
  <2> SUFFICES ASSUME NEW s \in Socket PROVE Accounted(limit'[s], passed'[s])
    OBVIOUS
  <2>1. CASE s \in gone
    <3>1. ~ limit'[s].known /\ passed'[s] = Nothing
      BY <2>1 DEF clear, NoLimit
    <3> QED
      BY <3>1, SumOfNothing DEF Accounted
  <2>2. CASE s \notin gone
    BY <2>2 DEF clear, LimiterInv
  <2> QED
    BY <2>1, <2>2
<1> QED
  BY <1>1, <1>2 DEF LimiterInv

LEMMA TickKeepsLimiter ==
  ASSUME LimiterInv, TickEvent
  PROVE  LimiterInv'
<1> USE LimiterAssumption
<1>1. ASSUME NEW s \in Socket
      PROVE  /\ limit'[s] \in Limit /\ passed'[s] \in Counts
             /\ Accounted(limit'[s], passed'[s])
  <2> DEFINE l == limit[s]
             m == IF l.known /\ l.since < windowMs
                  THEN [l EXCEPT !.since = @ + 1] ELSE l
             w == passed[s]
             v == [a \in 0 .. windowMs - 1 |-> IF a = 0 THEN 0 ELSE w[a - 1]]
             S == Sum(w)
  <2>1. l \in Limit /\ w \in Counts /\ Accounted(l, w)
    BY DEF LimiterInv, LimiterTypeOK
  <2>2. /\ v \in Counts
        /\ \A a \in Window : Sum(v)[a] = IF a = 0 THEN 0 ELSE S[a - 1]
    BY <2>1, SumAfterTick
  <2>3. \A a \in Window : S[a] \in Nat /\ S[a] <= S[windowMs - 1]
    <3>1. S \in Counts /\ Sums(S, w, windowMs - 1)
      BY <2>1, SumIs
    <3>2. windowMs - 1 \in Nat
      OBVIOUS
    <3> HIDE DEF S, w
    <3> QED
      BY <2>1, <3>1, <3>2, SumGrows DEF Counts, Window
  <2>4. m \in Limit /\ limit'[s] = m /\ passed'[s] = v
    BY <2>1 DEF TickEvent, Limit
  <2>5. Sum(v)[0] = 0 /\ Sum(v)[windowMs - 1] <= S[windowMs - 1]
    <3>1. Sum(v)[0] = 0
      BY <2>2, WindowIndexes
    <3>2. CASE windowMs = 1
      BY <2>3, <3>1, <3>2, WindowIndexes
    <3>3. CASE windowMs # 1
      <4>1. (windowMs - 1) - 1 \in Window /\ windowMs - 1 # 0
        BY <3>3 DEF Window
      <4> QED
        BY <2>2, <2>3, <3>1, <4>1, WindowIndexes
    <3> QED
      BY <3>2, <3>3
  <2> HIDE DEF S, v, w
  <2>6. CASE ~ l.known
    <3>1. \A a \in Window : Sum(v)[a] = 0
      <4> SUFFICES ASSUME NEW a \in Window, a # 0 PROVE S[a - 1] = 0
        BY <2>2
      <4>1. a - 1 \in Window
        BY DEF Window
      <4> QED
        BY <2>1, <2>6, <4>1 DEF Accounted, S
    <3> QED
      BY <2>2, <2>4, <2>6, <3>1 DEF Accounted
  <2>7. CASE l.known /\ l.since = windowMs
    <3>1. S[windowMs - 1] <= maxEvents /\ m = l
      BY <2>1, <2>7 DEF Accounted, S
    <3>2. Sum(v)[windowMs - 1] <= maxEvents
      <4>1. Sum(v)[windowMs - 1] \in Nat
        BY <2>2, SumIs, WindowIndexes DEF Counts
      <4> QED
        BY <2>3, <2>5, <3>1, <4>1, WindowIndexes
    <3> QED
      BY <2>2, <2>4, <2>5, <2>7, <3>1, <3>2 DEF Accounted
  <2>8. CASE l.known /\ l.since < windowMs
    <3>1. /\ l.since \in Window /\ S[l.since] = LetIn(l)
          /\ S[windowMs - 1] <= LetIn(l) + maxEvents
      BY <2>1, <2>8 DEF Accounted, Limit, Window, S
    <3>2. /\ m.known /\ m.since = l.since + 1 /\ LetIn(m) = LetIn(l)
          /\ LetIn(l) \in Nat /\ LetIn(l) <= maxEvents
      BY <2>1, <2>8 DEF LetIn, Limit
    <3>3. Sum(v)[windowMs - 1] \in Nat
      BY <2>2, SumIs, WindowIndexes DEF Counts
    <3> HIDE DEF m
    <3>4. CASE m.since = windowMs
      <4>1. l.since = windowMs - 1
        BY <3>1, <3>2, <3>4 DEF Window
      <4>2. Sum(v)[windowMs - 1] <= maxEvents
        BY <2>3, <2>5, <3>1, <3>2, <3>3, <4>1
      <4> QED
        BY <2>2, <2>4, <2>5, <3>2, <3>4, <4>2 DEF Accounted
    <3>5. CASE m.since # windowMs
      <4>1. m.since \in Window /\ m.since # 0 /\ m.since - 1 = l.since
        BY <3>1, <3>2, <3>5 DEF Window
      <4>2. Sum(v)[m.since] = LetIn(m)
        BY <2>2, <3>1, <3>2, <4>1
      <4>3. Sum(v)[windowMs - 1] <= LetIn(m) + maxEvents
        BY <2>3, <2>5, <3>1, <3>2, <3>3, WindowIndexes
      <4> QED
        BY <2>2, <2>4, <3>2, <3>5, <4>2, <4>3 DEF Accounted
    <3> QED
      BY <3>4, <3>5
  <2> QED
    BY <2>1, <2>6, <2>7, <2>8 DEF Limit
<1>2. \A a \in Age : Older(a) \in Age
  BY PresenceAssumption DEF Age, Older
<1>3. LimiterTypeOK'
  <2>1. limit' \in [Socket -> Limit] /\ passed' \in [Socket -> Counts]
    <3>1. /\ limit' = [s \in Socket |-> limit'[s]]
          /\ passed' = [s \in Socket |-> passed'[s]]
      BY DEF TickEvent
    <3> QED
      BY <1>1, <3>1
  <2>2. tried' \in [Socket -> Age]
    BY <1>2, PresenceAssumption DEF TickEvent, LimiterInv, LimiterTypeOK, Age
  <2>3. polite' \in [Socket -> BOOLEAN]
    BY DEF TickEvent, LimiterInv, LimiterTypeOK
  <2> QED
    BY <2>1, <2>2, <2>3 DEF LimiterTypeOK
<1> QED
  BY <1>1, <1>3 DEF LimiterInv

LEMMA StepLimiter == LimiterInv /\ [EventNext]_eventVars => LimiterInv'
<1> SUFFICES ASSUME LimiterInv, [EventNext]_eventVars PROVE LimiterInv'
  OBVIOUS
<1>1. ASSUME UNCHANGED limiterVars PROVE LimiterInv'
  BY <1>1 DEF limiterVars, LimiterInv, LimiterTypeOK, Accounted, LetIn
<1>2. 0 \in Age
  BY PresenceAssumption DEF Age
<1>3. ASSUME NEW s \in Socket,
             HeartbeatEvent(s) \/ OtherEvent(s) \/ AvailabilityEvent(s)
      PROVE  LimiterInv'
  <2>1. check(s) /\ tried' \in [Socket -> Age]
    BY <1>2, <1>3
       DEF HeartbeatEvent, OtherEvent, AvailabilityEvent, LimiterInv, LimiterTypeOK
  <2> QED
    BY <2>1, CheckKeepsLimiter
<1>4. ASSUME NEW s \in Socket, HandshakeEvent(s) PROVE LimiterInv'
  BY <1>2, <1>4 DEF HandshakeEvent, LimiterInv, LimiterTypeOK, Accounted, LetIn
<1>5. ASSUME NEW s \in Socket, DisconnectEvent(s) PROVE LimiterInv'
  BY <1>5, ClearKeepsLimiter DEF DisconnectEvent
<1>6. CASE SweepEvent
  BY <1>6, ClearKeepsLimiter DEF SweepEvent, Stale
<1> QED
  BY <1>1, <1>3, <1>4, <1>5, <1>6, TickKeepsLimiter DEF EventNext, eventVars

\* Whatever the limit, the window and the spread of a client's events: no
\* stretch of a window's length lets more than two windows' worth through, and
\* what is refused had maxEvents let through before it in such a stretch
\* (rate-limit.middleware.ts:18-39).
THEOREM WindowAlwaysFair == EventSpec => []WindowIsFair
<1>1. LimiterInv => WindowIsFair
  <2> SUFFICES ASSUME LimiterInv, NEW s \in Socket
               PROVE  /\ Let[s] <= 2 * maxEvents
                      /\ ~ Passes(s) => Let[s] >= maxEvents
    BY DEF WindowIsFair, TwoWindowsWorth, RefusedOnlyAtLimit
  <2>1. limit[s] \in Limit /\ passed[s] \in Counts /\ Accounted(limit[s], passed[s])
    BY DEF LimiterInv, LimiterTypeOK
  <2>2. Let[s] = Sum(passed[s])[windowMs - 1] /\ Let[s] \in Nat
    BY <2>1, LetIsSum, SumIs, WindowIndexes DEF LimiterInv, LimiterTypeOK, Counts
  <2>3. Let[s] <= 2 * maxEvents
    BY <2>1, <2>2, WindowIndexes, LimiterAssumption DEF Accounted, LetIn, Limit
  <2> QED
    BY <2>2, <2>3, CheckIsFair
<1> QED
  BY <1>1, InitLimiter, StepLimiter, PTL DEF EventSpec

-----------------------------------------------------------------------------
(***************************************************************************)
(* The limiter and the monitor.                                            *)
(***************************************************************************)
\* A polite client's last heartbeat is the last that the store knows of.
PoliteInv ==
  /\ AgeInv /\ LimiterInv
  /\ \A s \in Socket : polite[s] =>
       transport[s] # "closed" /\ tried[s] = silent[s] /\ tried[s] <= Timeout

LEMMA InitPolite == Init /\ LimiterInit => PoliteInv
BY InitAge, InitLimiter DEF PoliteInv, LimiterInit

LEMMA EventIsStep == [EventNext]_eventVars => [Next]_vars
BY DEF EventNext, eventVars, Next, vars, HeartbeatEvent, OtherEvent, AvailabilityEvent,
       HandshakeEvent, DisconnectEvent, SweepEvent, TickEvent

LEMMA StepPolite == PoliteInv /\ [EventNext]_eventVars => PoliteInv'
<1> SUFFICES ASSUME PoliteInv, [EventNext]_eventVars PROVE PoliteInv'
  OBVIOUS
<1> USE PresenceAssumption
<1>kept. AgeInv' /\ LimiterInv'
  BY EventIsStep, StepAge, StepLimiter DEF PoliteInv
<1>type. TypeOK /\ LimiterTypeOK
  BY DEF PoliteInv, AgeInv, StoreIsConsistent, LimiterInv
<1>0. ASSUME \A s \in Socket : polite'[s] =>
               /\ polite[s] /\ transport'[s] # "closed"
               /\ tried'[s] = tried[s] /\ silent'[s] = silent[s]
      PROVE  PoliteInv'
  BY <1>0, <1>kept DEF PoliteInv
<1>1. CASE UNCHANGED eventVars
  BY <1>0, <1>1 DEF eventVars, vars, limiterVars, PoliteInv
<1>2. ASSUME NEW s \in Socket, HeartbeatEvent(s) PROVE PoliteInv'
  <2>1. \A t \in Socket \ { s } : /\ polite'[t] = polite[t] /\ tried'[t] = tried[t]
                                  /\ silent'[t] = silent[t]
    BY <1>2, <1>type
       DEF HeartbeatEvent, check, RecordHeartbeat, vars, TypeOK, LimiterTypeOK
  <2>2. transport' = transport /\ transport[s] = "open" /\ tried'[s] = 0
    BY <1>2, <1>type
       DEF HeartbeatEvent, RecordHeartbeat, vars, TypeOK, LimiterTypeOK
  <2>3. polite'[s] => silent'[s] = 0
    <3>1. CASE Passes(s)
      BY <1>2, <1>type, <3>1 DEF HeartbeatEvent, RecordHeartbeat, TypeOK
    <3>2. CASE ~ Passes(s)
      <4>1. Let[s] >= maxEvents /\ Let[s] \in Nat
        BY <1>type, <3>2, CheckIsFair, LetIsSum, SumIs, WindowIndexes
           DEF PoliteInv, LimiterTypeOK, Counts
      <4>2. polite'[s] => Let[s] < maxEvents
        BY <1>2, <1>type DEF HeartbeatEvent, check, LimiterTypeOK
      <4> QED
        BY <4>1, <4>2, LimiterAssumption
    <3> QED
      BY <3>1, <3>2
  <2> QED
    BY <2>1, <2>2, <2>3, <1>kept DEF PoliteInv
<1>3. ASSUME NEW s \in Socket, OtherEvent(s) \/ AvailabilityEvent(s) PROVE PoliteInv'
  <2>1. /\ \A t \in Socket : polite'[t] => polite[t]
        /\ UNCHANGED << transport, tried, silent >>
    BY <1>3, <1>type DEF OtherEvent, AvailabilityEvent, check, vars, ProviderOnline,
                         ProviderOffline, LimiterTypeOK
  <2> QED
    BY <1>0, <2>1 DEF PoliteInv
<1>4. ASSUME NEW s \in Socket, HandshakeEvent(s) PROVE PoliteInv'
  <2>1. /\ transport'[s] = "handshake" /\ tried'[s] = 0 /\ silent'[s] = 0
        /\ \A t \in Socket \ { s } :
             /\ transport'[t] = transport[t] /\ polite'[t] = polite[t]
             /\ tried'[t] = tried[t] /\ silent'[t] = silent[t]
    BY <1>4, <1>type DEF HandshakeEvent, Handshake, TypeOK, LimiterTypeOK
  <2> QED
    BY <2>1, <1>kept DEF PoliteInv
<1>5. ASSUME NEW gone \in SUBSET Socket, clear(gone), UNCHANGED silent,
             \A t \in Socket \ gone : transport'[t] = transport[t]
      PROVE  PoliteInv'
  <2>1. \A t \in Socket : polite'[t] =>
          /\ polite[t] /\ t \notin gone /\ tried'[t] = tried[t]
    BY <1>5 DEF clear
  <2> QED
    BY <1>0, <1>5, <2>1 DEF PoliteInv
<1>6. ASSUME NEW s \in Socket, DisconnectEvent(s) PROVE PoliteInv'
  BY <1>5, <1>6, <1>type DEF DisconnectEvent, Disconnect, TypeOK
<1>7. CASE SweepEvent
  BY <1>5, <1>7, <1>type DEF SweepEvent, Sweep, Stale, TypeOK
<1>8. CASE TickEvent
  <2>1. \A s \in Socket : polite'[s] =>
          /\ polite[s] /\ tried[s] < Timeout /\ transport'[s] = transport[s]
          /\ tried'[s] = Older(tried[s]) /\ silent'[s] = Older(silent[s])
    BY <1>8 DEF TickEvent, Tick, PoliteInv
  <2>2. \A s \in Socket : tried[s] \in Nat
    BY <1>type DEF LimiterTypeOK, Age
  <2> QED
    BY <2>1, <2>2, <1>kept DEF PoliteInv, Older
<1>9. ASSUME NEW s \in Socket, Connect(s), UNCHANGED limiterVars PROVE PoliteInv'
  <2>1. \A t \in Socket : transport[t] # "closed" => transport'[t] # "closed"
    BY <1>9, <1>type DEF Connect, TypeOK
  <2> QED
    BY <1>0, <1>9, <2>1 DEF Connect, limiterVars, PoliteInv
<1>10. ASSUME \/ \E s \in Socket : GoOnline(s)
              \/ CreateProfile \/ DecideKyc,
              UNCHANGED limiterVars
       PROVE  PoliteInv'
  BY <1>0, <1>10 DEF GoOnline, CreateProfile, DecideKyc, limiterVars, PoliteInv
<1> QED
  BY <1>1, <1>2, <1>3, <1>4, <1>6, <1>7, <1>8, <1>9, <1>10 DEF EventNext

\* The limiter and the monitor never work against each other: a client that
\* keeps within the limit and sends its heartbeats in time is not due to be
\* dropped, for any limit, window and timeout (register.handlers.ts:63-77,
\* presence.service.ts:71-86).
THEOREM PoliteAlwaysKept == EventSpec => []PoliteIsKept
<1>1. PoliteInv => PoliteIsKept
  BY DEF PoliteInv, PoliteIsKept, AgeInv
<1> QED
  BY <1>1, InitPolite, StepPolite, PTL DEF EventSpec

=============================================================================
