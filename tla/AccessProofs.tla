---------------------------- MODULE AccessProofs ----------------------------
(***************************************************************************)
(* Theorems about who is let in, for every choice of the constants: the    *)
(* status that a decision is made on (UserStatusCache) and the sessions of *)
(* a user (AuthSessions).                                                  *)
(***************************************************************************)
EXTENDS MCAccess, NaturalSets, FiniteSetTheorems, SequenceTheorems, TLAPS

-----------------------------------------------------------------------------
(***************************************************************************)
(* The bound on the staleness of a decision, for any number of processes,  *)
(* of calls in flight and any time to live.                                *)
(***************************************************************************)
\* BoundedStaleness looks at the last decision only.  What makes the next one
\* right: the stored status is seen now; an entry expires within TTL of a
\* time at which its value was stored; so was an answer that is not yet in
\* the cache, after its lookup began.
CacheInv ==
  /\ CacheTypeOK
  /\ lastSeen[status] = clock
  /\ \A s \in Status : lastSeen[s] <= clock
  /\ \A i \in Instance : cache[i].expiresAt <= lastSeen[cache[i].value] + TTL
  /\ \A h \in Caller :
       /\ caller[h].pc \in { "find", "found" } => caller[h].start <= clock
       /\ caller[h].pc = "found" => lastSeen[caller[h].value] >= caller[h].start
       /\ caller[h].pc # "idle" => caller[h].at \in Instance
  /\ BoundedStaleness

LEMMA IdleType == IdleCaller \in CallerState /\ Missing \in Entry
BY DEF IdleCaller, Missing, CallerState, Entry, Status

LEMMA InitCacheInv == CacheInit => CacheInv
BY IdleType, CacheAssumption DEF CacheInit, CacheInv, CacheTypeOK, BoundedStaleness,
   IdleCaller, Missing, Status

\* A step of one handler that neither moves the clock nor changes the status,
\* the cache or the verdict.
LEMMA LocalStep ==
  ASSUME CacheInv, NEW h \in Caller, NEW local \in CallerState,
         CallerGoes(h, local), UNCHANGED << status, cache, clock, lastSeen, verdict >>,
         local.pc \in { "find", "found" } => local.start <= clock,
         local.pc = "found" => lastSeen[local.value] >= local.start,
         local.pc # "idle" => local.at \in Instance
  PROVE  CacheInv'
BY DEF CacheInv, CacheTypeOK, CallerGoes, BoundedStaleness

LEMMA StepCacheInv == CacheInv /\ [CacheNext]_cacheVars => CacheInv'
<1> SUFFICES ASSUME CacheInv, [CacheNext]_cacheVars PROVE CacheInv'
  OBVIOUS
<1> USE CacheAssumption
<1>1. ASSUME UNCHANGED cacheVars PROVE CacheInv'
  BY <1>1 DEF CacheInv, CacheTypeOK, BoundedStaleness, cacheVars
<1>2. ASSUME NEW h \in Caller, NEW i \in Instance, LookupHit(h, i)
      PROVE  CacheInv'
  <2>1. /\ cache[i].value \in Status /\ cache[i].expiresAt \in Nat
        /\ lastSeen[cache[i].value] \in Nat /\ clock \in Nat
        /\ clock < lastSeen[cache[i].value] + TTL
    BY <1>2 DEF LookupHit, Hit, CacheInv, CacheTypeOK, Entry
  <2>2. verdict' = [value |-> cache[i].value, start |-> clock, at |-> clock,
                    seen |-> lastSeen[cache[i].value]]
    BY <1>2 DEF LookupHit, Decide
  <2>3. BoundedStaleness' /\ CacheTypeOK'
    BY <1>2, <2>1, <2>2 DEF LookupHit, BoundedStaleness, CacheInv, CacheTypeOK
  <2> QED
    BY <1>2, <2>3 DEF LookupHit, CacheInv
<1>3. ASSUME NEW h \in Caller, NEW i \in Instance, LookupMiss(h, i)
      PROVE  CacheInv'
  <2> DEFINE local == [pc |-> "find", at |-> i, start |-> clock,
                       value |-> "inactive"]
  <2>1. local \in CallerState
    BY DEF CallerState, Status, CacheInv, CacheTypeOK
  <2> QED
    BY <1>3, <2>1, LocalStep DEF LookupMiss, CacheInv, CacheTypeOK
<1>4. ASSUME NEW h \in Caller, Find(h) PROVE CacheInv'
  <2> DEFINE local == [caller[h] EXCEPT !.pc = "found", !.value = status]
  <2>1. local \in CallerState
    BY DEF CallerState, CacheInv, CacheTypeOK
  <2>2. local.start <= clock /\ lastSeen[local.value] >= local.start
        /\ local.at \in Instance
    BY <1>4 DEF Find, CacheInv, CacheTypeOK, CallerState
  <2> QED
    BY <1>4, <2>1, <2>2, LocalStep DEF Find
<1>5. ASSUME NEW h \in Caller, Fill(h) PROVE CacheInv'
  <2> DEFINE me == caller[h]
  <2>1. /\ me \in CallerState /\ me.at \in Instance /\ me.start \in Nat
        /\ me.value \in Status /\ lastSeen[me.value] \in Nat
        /\ lastSeen[me.value] >= me.start
    BY <1>5 DEF Fill, CacheInv, CacheTypeOK, CallerState
  <2>2. /\ FilledEntry(me) \in Entry
        /\ FilledEntry(me).expiresAt <= lastSeen[FilledEntry(me).value] + TTL
    BY <2>1 DEF FilledEntry, Entry
  <2>3. /\ cache' \in [Instance -> Entry]
        /\ \A i \in Instance :
             cache'[i].expiresAt <= lastSeen[cache'[i].value] + TTL
    BY <1>5, <2>2 DEF Fill, CacheInv, CacheTypeOK
  <2>4. verdict' = [value |-> me.value, start |-> me.start, at |-> clock,
                    seen |-> lastSeen[me.value]]
    BY <1>5 DEF Fill, Decide
  <2>5. BoundedStaleness'
    BY <2>1, <2>4 DEF BoundedStaleness
  <2>6. /\ caller' \in [Caller -> CallerState]
        /\ \A g \in Caller : caller'[g] = IdleCaller \/ caller'[g] = caller[g]
    BY <1>5, IdleType DEF Fill, CallerGoes, CacheInv, CacheTypeOK
  <2>7. CacheTypeOK'
    BY <1>5, <2>1, <2>3, <2>4, <2>6 DEF Fill, CacheInv, CacheTypeOK
  <2> QED
    BY <1>5, <2>3, <2>5, <2>6, <2>7 DEF Fill, CacheInv, IdleCaller
<1>6. ASSUME NEW h \in Caller, FindFails(h) PROVE CacheInv'
  BY <1>6, IdleType, LocalStep DEF FindFails, IdleCaller
<1>7. ASSUME NEW h \in Caller, NEW i \in Instance, NEW s \in Status,
             UpdateStart(h, i, s)
      PROVE  CacheInv'
  <2> DEFINE local == [pc |-> "update", at |-> i, start |-> 0, value |-> s]
  <2>1. local \in CallerState
    BY DEF CallerState
  <2> QED
    BY <1>7, <2>1, LocalStep DEF UpdateStart
<1>8. ASSUME NEW h \in Caller, UpdateById(h) PROVE CacheInv'
  <2> DEFINE me == caller[h]
             local == [me EXCEPT !.pc = "invalidate"]
  <2>1. me \in CallerState /\ me.value \in Status /\ me.at \in Instance
    BY <1>8 DEF UpdateById, CacheInv, CacheTypeOK, CallerState
  <2>2. local \in CallerState /\ local.pc = "invalidate" /\ local.at \in Instance
    BY <2>1 DEF CallerState
  <2>3. /\ lastSeen' \in [Status -> Nat] /\ lastSeen'[me.value] = clock
        /\ \A s \in Status : lastSeen[s] <= lastSeen'[s] /\ lastSeen'[s] <= clock
    BY <1>8, <2>1 DEF UpdateById, CacheInv, CacheTypeOK
  <2>4. \A i \in Instance : cache[i].expiresAt <= lastSeen'[cache[i].value] + TTL
    <3>1. \A i \in Instance : /\ cache[i].expiresAt \in Nat
                              /\ cache[i].value \in Status
      BY DEF CacheInv, CacheTypeOK, Entry
    <3> QED
      BY <2>3, <3>1 DEF CacheInv, CacheTypeOK
  <2>5. \A g \in Caller : caller[g].pc = "found" =>
                             lastSeen'[caller[g].value] >= caller[g].start
    <3>1. \A g \in Caller : /\ caller[g].start \in Nat
                             /\ caller[g].value \in Status
      BY DEF CacheInv, CacheTypeOK, CallerState
    <3> QED
      BY <2>3, <3>1 DEF CacheInv, CacheTypeOK
  <2>6. /\ caller' \in [Caller -> CallerState]
        /\ caller'[h] = local
        /\ \A g \in Caller : g # h => caller'[g] = caller[g]
    BY <1>8, <2>2 DEF UpdateById, CallerGoes, CacheInv, CacheTypeOK
  <2>7. CacheTypeOK'
    BY <1>8, <2>1, <2>3, <2>6 DEF UpdateById, CacheInv, CacheTypeOK
  <2> QED
    BY <1>8, <2>2, <2>3, <2>4, <2>5, <2>6, <2>7
    DEF UpdateById, CacheInv, BoundedStaleness
<1>9. ASSUME NEW h \in Caller, Invalidate(h) PROVE CacheInv'
  <2>1. /\ cache' \in [Instance -> Entry]
        /\ \A i \in Instance : cache'[i] = Missing \/ cache'[i] = cache[i]
    BY <1>9, IdleType DEF Invalidate, CacheInv, CacheTypeOK
  <2>2. \A i \in Instance : cache'[i].expiresAt <= lastSeen[cache'[i].value] + TTL
    <3>1. Missing.expiresAt <= lastSeen[Missing.value] + TTL
      BY DEF Missing, CacheInv, CacheTypeOK, Status
    <3> QED
      BY <2>1, <3>1 DEF CacheInv
  <2>3. /\ caller' \in [Caller -> CallerState]
        /\ \A g \in Caller : caller'[g] = IdleCaller \/ caller'[g] = caller[g]
    BY <1>9, IdleType DEF Invalidate, CallerGoes, CacheInv, CacheTypeOK
  <2> QED
    BY <1>9, <2>1, <2>2, <2>3 DEF Invalidate, CacheInv, CacheTypeOK, IdleCaller,
       BoundedStaleness
<1>10. ASSUME NEW i \in Instance, Restart(i) PROVE CacheInv'
  <2>1. /\ cache' \in [Instance -> Entry]
        /\ \A j \in Instance : cache'[j] = Missing \/ cache'[j] = cache[j]
    BY <1>10, IdleType DEF Restart, CacheInv, CacheTypeOK
  <2>2. \A j \in Instance : cache'[j].expiresAt <= lastSeen[cache'[j].value] + TTL
    <3>1. Missing.expiresAt <= lastSeen[Missing.value] + TTL
      BY DEF Missing, CacheInv, CacheTypeOK, Status
    <3> QED
      BY <2>1, <3>1 DEF CacheInv
  <2>3. /\ caller' \in [Caller -> CallerState]
        /\ \A g \in Caller : caller'[g] = IdleCaller \/ caller'[g] = caller[g]
    BY <1>10, IdleType DEF Restart, CacheInv, CacheTypeOK
  <2> QED
    BY <1>10, <2>1, <2>2, <2>3 DEF Restart, CacheInv, CacheTypeOK, IdleCaller,
       BoundedStaleness
<1>11. ASSUME ClockTick PROVE CacheInv'
  <2>1. /\ clock' = clock + 1 /\ clock' \in Nat
        /\ lastSeen' \in [Status -> Nat] /\ lastSeen'[status] = clock'
        /\ \A s \in Status : lastSeen[s] <= lastSeen'[s] /\ lastSeen'[s] <= clock'
    BY <1>11 DEF ClockTick, CacheInv, CacheTypeOK
  <2>2. \A i \in Instance : cache[i].expiresAt <= lastSeen'[cache[i].value] + TTL
    <3>1. \A i \in Instance : /\ cache[i].expiresAt \in Nat
                              /\ cache[i].value \in Status
      BY DEF CacheInv, CacheTypeOK, Entry
    <3> QED
      BY <2>1, <3>1 DEF CacheInv, CacheTypeOK
  <2>3. \A h \in Caller :
          /\ caller[h].pc \in { "find", "found" } => caller[h].start <= clock'
          /\ caller[h].pc = "found" =>
               lastSeen'[caller[h].value] >= caller[h].start
    <3>1. \A g \in Caller : /\ caller[g].start \in Nat
                             /\ caller[g].value \in Status
      BY DEF CacheInv, CacheTypeOK, CallerState
    <3> QED
      BY <2>1, <3>1 DEF CacheInv, CacheTypeOK
  <2> QED
    BY <1>11, <2>1, <2>2, <2>3 DEF ClockTick, CacheInv, CacheTypeOK, BoundedStaleness
<1> QED
  BY <1>1, <1>2, <1>3, <1>4, <1>5, <1>6, <1>7, <1>8, <1>9, <1>10, <1>11 DEF CacheNext

\* Entries, handlers and decisions keep their shapes.
THEOREM CacheTypeCorrect == CacheSpec => []CacheTypeOK
<1>1. CacheInv => CacheTypeOK
  BY DEF CacheInv
<1> QED
  BY <1>1, InitCacheInv, StepCacheInv, PTL DEF CacheSpec

\* Whatever lookups and updates overlap in whatever processes, a decision is
\* made on a status that was stored after the call began or less than TTL ago.
THEOREM StalenessBounded == CacheSpec => []BoundedStaleness
<1>1. CacheInv => BoundedStaleness
  BY DEF CacheInv
<1> QED
  BY <1>1, InitCacheInv, StepCacheInv, PTL DEF CacheSpec

-----------------------------------------------------------------------------
(***************************************************************************)
(* One process, one call at a time: a change shows at once.                *)
(***************************************************************************)
\* Only an update that has not invalidated yet leaves an entry that differs
\* from what is stored, and nobody looks meanwhile; an answer on its way is
\* what is stored.
CoherentInv ==
  /\ CacheTypeOK
  /\ \A g, h \in Caller : caller[g].pc # "idle" /\ caller[h].pc # "idle" => g = h
  /\ \A h \in Caller : caller[h].pc = "found" => caller[h].value = status
  /\ (\A h \in Caller : caller[h].pc # "invalidate") =>
       \A i \in Instance : Hit(i) => cache[i].value = status

LEMMA InitCoherent == CacheInit => CoherentInv
<1> SUFFICES ASSUME CacheInit PROVE CoherentInv
  OBVIOUS
<1>1. CacheTypeOK
  BY InitCacheInv DEF CacheInv
<1> QED
  BY <1>1, CacheAssumption DEF CacheInit, CoherentInv, IdleCaller, Missing, Hit

LEMMA StepCoherent ==
  ASSUME ~ CacheOverlap, \A i, j \in Instance : i = j
  PROVE  CoherentInv /\ CacheInv /\ [CacheNext]_cacheVars => CoherentInv'
<1> SUFFICES ASSUME CoherentInv, CacheInv, [CacheNext]_cacheVars PROVE CoherentInv'
  OBVIOUS
<1>type. CacheTypeOK /\ CacheTypeOK'
  BY StepCacheInv DEF CacheInv
<1>miss. ASSUME NEW i \in Instance, cache' = [cache EXCEPT ![i] = Missing],
                UNCHANGED clock
         PROVE  \A j \in Instance : ~ Hit(j)'
  BY <1>miss, <1>type DEF CacheTypeOK, Missing, Hit
<1>1. CASE UNCHANGED cacheVars
  BY <1>1, <1>type DEF cacheVars, CoherentInv, Hit
<1>2. ASSUME NEW h \in Caller, NEW local, CallerGoes(h, local),
             caller[h].pc = "idle" => CacheAccepts(h),
             caller[h].pc # "invalidate", local.pc # "invalidate",
             local.pc = "found" => local.value = status,
             UNCHANGED << status, cache, clock >>
      PROVE  CoherentInv'
  BY <1>2, <1>type DEF CallerGoes, CacheAccepts, CacheTypeOK, CoherentInv, Hit
<1>3. ASSUME NEW h \in Caller, NEW i \in Instance, LookupHit(h, i) PROVE CoherentInv'
  BY <1>3, <1>type DEF LookupHit, CoherentInv, Hit
<1>4. ASSUME NEW h \in Caller, NEW i \in Instance, LookupMiss(h, i) PROVE CoherentInv'
  BY <1>2, <1>4 DEF LookupMiss, CacheAccepts
<1>5. ASSUME NEW h \in Caller, Find(h) PROVE CoherentInv'
  <2> DEFINE local == [caller[h] EXCEPT !.pc = "found", !.value = status]
  <2>1. local.pc = "found" /\ local.value = status
    BY <1>type DEF CacheTypeOK, CallerState
  <2> HIDE DEF local
  <2>2. CallerGoes(h, local) /\ caller[h].pc = "find" /\ UNCHANGED << status, cache, clock >>
    BY <1>5 DEF Find, local
  <2> QED
    BY <1>2, <2>1, <2>2
<1>6. ASSUME NEW h \in Caller, Fill(h) PROVE CoherentInv'
  <2> DEFINE me == caller[h]
  <2>1. /\ me.pc = "found" /\ me.value = status /\ me.at \in Instance
        /\ \A g \in Caller \ { h } : caller[g].pc = "idle"
    BY <1>6 DEF Fill, CoherentInv, CacheInv
  <2>2. /\ \A g \in Caller : caller'[g].pc = "idle"
        /\ UNCHANGED << status, clock >>
    BY <1>6, <2>1, <1>type DEF Fill, CallerGoes, IdleCaller, CacheTypeOK
  <2>3. \A i \in Instance : cache'[i].value = status
    BY <1>6, <2>1, <1>type DEF Fill, FilledEntry, CacheTypeOK
  <2> QED
    BY <1>type, <2>2, <2>3 DEF CoherentInv, Hit
<1>7. ASSUME NEW h \in Caller, FindFails(h) PROVE CoherentInv'
  BY <1>2, <1>7 DEF FindFails, IdleCaller
<1>8. ASSUME NEW h \in Caller, NEW i \in Instance, NEW s \in Status, UpdateStart(h, i, s)
      PROVE  CoherentInv'
  BY <1>2, <1>8 DEF UpdateStart, CacheAccepts
<1>9. ASSUME NEW h \in Caller, UpdateById(h) PROVE CoherentInv'
  <2>1. \A g \in Caller \ { h } : caller[g].pc = "idle" /\ caller'[g] = caller[g]
    BY <1>9, <1>type DEF UpdateById, CallerGoes, CoherentInv, CacheTypeOK
  <2>2. caller'[h].pc = "invalidate"
    BY <1>9, <1>type DEF UpdateById, CallerGoes, CacheTypeOK, CallerState
  <2> QED
    BY <1>type, <2>1, <2>2 DEF CoherentInv
<1>10. ASSUME NEW h \in Caller, Invalidate(h) PROVE CoherentInv'
  <2>1. caller[h].at \in Instance
    BY <1>10 DEF Invalidate, CacheInv
  <2>2. \A g \in Caller : caller'[g].pc = "idle"
    BY <1>10, <1>type DEF Invalidate, CallerGoes, CoherentInv, IdleCaller, CacheTypeOK
  <2>3. \A i \in Instance : ~ Hit(i)'
    BY <1>10, <1>miss, <2>1 DEF Invalidate
  <2> QED
    BY <1>type, <2>2, <2>3 DEF CoherentInv
<1>11. ASSUME NEW i \in Instance, Restart(i) PROVE CoherentInv'
  <2>1. \A g \in Caller : caller'[g] = IdleCaller \/ caller'[g] = caller[g]
    BY <1>11 DEF Restart
  <2>2. \A j \in Instance : ~ Hit(j)'
    BY <1>11, <1>miss DEF Restart
  <2> QED
    BY <1>11, <1>type, <2>1, <2>2 DEF Restart, CoherentInv, IdleCaller
<1>12. CASE ClockTick
  <2>1. \A i \in Instance : Hit(i)' => Hit(i)
    BY <1>12, <1>type DEF ClockTick, Hit, CacheTypeOK, Entry
  <2> QED
    BY <1>12, <1>type, <2>1 DEF ClockTick, CoherentInv
<1> QED
  BY <1>1, <1>3, <1>4, <1>5, <1>6, <1>7, <1>8, <1>9, <1>10, <1>11, <1>12 DEF CacheNext

\* With one process and no lookup in flight during an update: as soon as the
\* update has answered, no entry says anything but what is stored, through
\* restarts and for any time to live (admin.service.ts:104-110).
THEOREM CoherentAlwaysWhenQuiet ==
  ASSUME ~ CacheOverlap, \A i, j \in Instance : i = j
  PROVE  CacheSpec => []CoherentWhenQuiet
<1>1. CoherentInv => CoherentWhenQuiet
  BY DEF CoherentInv, CoherentWhenQuiet
<1> QED
  BY <1>1, InitCacheInv, StepCacheInv, InitCoherent, StepCoherent, PTL DEF CacheSpec

\* The same in the run, whatever its other worlds do: they share the variables,
\* but a behaviour never crosses over.
THEOREM ChangeAlwaysShowsAtOnce ==
  ASSUME ~ CacheOverlap, \A i, j \in Instance : i = j
  PROVE  WorldsSpec => []ChangeShowsAtOnce
<1> DEFINE I == world = "quiet" => CacheInv /\ CoherentInv
<1>1. WorldsInit => I
  BY InitCacheInv, InitCoherent DEF WorldsInit
<1>2. I /\ [WorldsNext]_<< vars, cacheVars, world >> => I'
  <2> SUFFICES ASSUME I, [WorldsNext]_<< vars, cacheVars, world >>, world' = "quiet"
               PROVE  (CacheInv /\ CoherentInv)'
    OBVIOUS
  <2>1. world = "quiet" /\ [CacheNext]_cacheVars
    BY DEF WorldsNext
  <2> QED
    BY <2>1, StepCacheInv, StepCoherent
<1>3. I => ChangeShowsAtOnce
  BY DEF ChangeShowsAtOnce, CoherentInv, CoherentWhenQuiet
<1> QED
  BY <1>1, <1>2, <1>3, PTL DEF WorldsSpec

-----------------------------------------------------------------------------
(***************************************************************************)
(* What the session arrays go through in memory.                           *)
(***************************************************************************)
\* The filter, element by element.
FiltersUpTo(F, array, kept) ==
  /\ F[0] = << >>
  /\ \A n \in 1 .. Len(array) :
       F[n] = IF array[n] \in kept THEN Append(F[n - 1], array[n]) ELSE F[n - 1]

LEMMA FilteredSteps ==
  ASSUME NEW S, NEW array \in Seq(S), NEW kept
  PROVE  \E F \in [0 .. Len(array) -> Seq(S)] :
           FiltersUpTo(F, array, kept) /\ Filtered(array, kept) = F[Len(array)]
<1> DEFINE N == Len(array)
           Steps(F, n) == \A m \in 1 .. n :
             F[m] = IF array[m] \in kept THEN Append(F[m - 1], array[m]) ELSE F[m - 1]
           Good == { n \in Nat : n <= N =>
                       \E F \in [0 .. n -> Seq(S)] : F[0] = << >> /\ Steps(F, n) }
<1>1. N \in Nat /\ \A m \in 1 .. N : array[m] \in S
  OBVIOUS
<1>2. 0 \in Good
  <2> DEFINE F == [n \in 0 .. 0 |-> << >>]
  <2>1. F \in [0 .. 0 -> Seq(S)] /\ F[0] = << >> /\ Steps(F, 0)
    BY EmptySeq
  <2> QED
    BY <2>1
<1>3. ASSUME NEW n \in Nat, n \in Good PROVE n + 1 \in Good
  <2>0. n + 1 \in Nat
    OBVIOUS
  <2> SUFFICES ASSUME n + 1 <= N
               PROVE  \E F \in [0 .. n + 1 -> Seq(S)] : F[0] = << >> /\ Steps(F, n + 1)
    BY <2>0, Zenon
  <2>1. PICK F \in [0 .. n -> Seq(S)] : F[0] = << >> /\ Steps(F, n)
    <3>1. n <= N
      BY <1>1
    <3> QED
      BY <1>3, <3>1
  <2> DEFINE last == IF array[n + 1] \in kept THEN Append(F[n], array[n + 1]) ELSE F[n]
             G == [m \in 0 .. n + 1 |-> IF m = n + 1 THEN last ELSE F[m]]
  <2>2. last \in Seq(S)
    <3>1. F[n] \in Seq(S) /\ array[n + 1] \in S
      BY <1>1
    <3> QED
      BY <3>1, AppendProperties
  <2>3. G \in [0 .. n + 1 -> Seq(S)] /\ G[0] = << >>
    BY <2>1, <2>2
  <2>4. Steps(G, n + 1)
    BY <2>1
  <2> QED
    BY <2>3, <2>4
<1>4. N \in Good
  <2> HIDE DEF Good, N
  <2> QED
    BY <1>1, <1>2, <1>3, Induction
<1>5. PICK F \in [0 .. N -> Seq(S)] : F[0] = << >> /\ Steps(F, N)
  BY <1>1, <1>4
<1> DEFINE At(f, n) == IF n = 0 THEN << >>
                       ELSE IF array[n] \in kept THEN Append(f[n - 1], array[n])
                       ELSE f[n - 1]
           Is(f) == f = [n \in 0 .. Len(array) |-> At(f, n)]
           g == CHOOSE f : Is(f)
<1>6. Is(F)
  <2>1. ASSUME NEW n \in 0 .. Len(array) PROVE F[n] = At(F, n)
    <3>1. CASE n = 0
      BY <1>5, <3>1, Zenon
    <3>2. CASE n # 0
      <4>1. n \in 1 .. N
        BY <1>1, <3>2
      <4> QED
        BY <1>5, <3>2, <4>1, Zenon
    <3> QED
      BY <3>1, <3>2
  <2> DEFINE H == [n \in 0 .. Len(array) |-> At(F, n)]
  <2>2. \A n \in 0 .. Len(array) : H[n] = F[n]
    BY <2>1, Zenon
  <2>3. H = [n \in 0 .. Len(array) |-> H[n]]
    BY Zenon
  <2>4. F = [n \in 0 .. Len(array) |-> F[n]]
    BY <1>5
  <2> HIDE DEF H
  <2>5. F = H
    BY <2>2, <2>3, <2>4, Zenon
  <2> QED
    BY <2>5 DEF H
<1>7. Is(g)
  BY <1>6
<1>8. Filtered(array, kept) = g[Len(array)]
  BY DEF Filtered
<1> HIDE DEF g
<1>9. \A n \in 0 .. N : g[n] = F[n]
  <2> DEFINE Same == { n \in Nat : n <= N => g[n] = F[n] }
  <2>1. 0 \in Same
    BY <1>1, <1>5, <1>7
  <2>2. ASSUME NEW n \in Nat, n \in Same PROVE n + 1 \in Same
    <3> SUFFICES ASSUME n + 1 <= N PROVE g[n + 1] = F[n + 1]
      OBVIOUS
    <3>1. n + 1 \in 1 .. N /\ n + 1 # 0 /\ (n + 1) - 1 = n /\ g[n] = F[n]
      BY <1>1, <2>2
    <3>2. g[n + 1] = At(g, n + 1)
      <4>1. n + 1 \in 0 .. Len(array)
        BY <3>1
      <4> QED
        BY <1>7, <4>1, Zenon
    <3> QED
      BY <1>5, <3>1, <3>2
  <2>3. Nat \subseteq Same
    <3> HIDE DEF Same
    <3> QED
      BY <2>1, <2>2, Induction
  <2> QED
    BY <2>3
<1>10. FiltersUpTo(F, array, kept)
  BY <1>5, Zenon DEF FiltersUpTo
<1>11. Filtered(array, kept) = F[Len(array)]
  BY <1>1, <1>8, <1>9
<1> QED
  BY <1>10, <1>11

\* f has the elements of array[1 .. n] that are in `kept', in ascending order
\* if the array is.
Ascends(array) ==
  \A i, j \in 1 .. Len(array) : i < j => array[i].token < array[j].token

Picks(f, array, n, kept) ==
  /\ Len(f) <= n
  /\ \A j \in 1 .. Len(f) : f[j] \in kept /\ \E i \in 1 .. n : f[j] = array[i]
  /\ \A i \in 1 .. n : array[i] \in kept => \E j \in 1 .. Len(f) : f[j] = array[i]
  /\ Ascends(array) => Ascends(f)

LEMMA FilteredPicks ==
  ASSUME NEW S, NEW array \in Seq(S), NEW kept
  PROVE  /\ Filtered(array, kept) \in Seq(S)
         /\ Picks(Filtered(array, kept), array, Len(array), kept)
<1>1. PICK F \in [0 .. Len(array) -> Seq(S)] :
         FiltersUpTo(F, array, kept) /\ Filtered(array, kept) = F[Len(array)]
  BY FilteredSteps
<1> DEFINE N == Len(array)
<1> DEFINE Good == { n \in Nat : n <= N => Picks(F[n], array, n, kept) }
<1>2. N \in Nat /\ \A n \in 1 .. N : array[n] \in S
  OBVIOUS
<1>3. 0 \in Good
  <2> DEFINE f == F[0]
  <2>1. f = << >> /\ Len(f) = 0
    BY <1>1, Zenon, EmptySeq DEF FiltersUpTo
  <2> HIDE DEF f
  <2>2. Picks(f, array, 0, kept)
    BY <2>1 DEF Picks, Ascends
  <2> QED
    BY <2>2 DEF f
<1>4. ASSUME NEW n \in Nat, n \in Good PROVE n + 1 \in Good
  <2> SUFFICES ASSUME n + 1 <= N PROVE Picks(F[n + 1], array, n + 1, kept)
    <3>1. n + 1 \in Nat
      OBVIOUS
    <3> QED
      BY <3>1, Zenon
  <2> DEFINE f == F[n]
             e == array[n + 1]
             a == Append(f, e)
  <2>1. Picks(f, array, n, kept)
    BY <1>2, <1>4
  <2>2. n + 1 \in 1 .. N /\ n \in 0 .. N /\ (n + 1) - 1 = n
    BY <1>2
  <2>3. F[n + 1] = IF e \in kept THEN a ELSE f
    BY <1>1, <2>2 DEF FiltersUpTo
  <2>4. f \in Seq(S) /\ e \in S /\ Len(f) \in Nat
    BY <1>2, <2>2
  <2>5. CASE e \notin kept
    <3> HIDE DEF f, e, a
    <3>1. Picks(f, array, n + 1, kept)
      BY <2>1, <2>4, <2>5 DEF Picks, e
    <3> QED
      BY <2>3, <2>5, <3>1
  <2>6. CASE e \in kept
    <3>1. /\ Len(a) = Len(f) + 1 /\ a[Len(f) + 1] = e
          /\ \A i \in 1 .. Len(f) : a[i] = f[i]
      BY <2>4, AppendProperties
    <3> HIDE DEF f, a
    <3>2. ASSUME NEW j \in 1 .. Len(a)
          PROVE  a[j] \in kept /\ \E i \in 1 .. n + 1 : a[j] = array[i]
      <4>1. CASE j \in 1 .. Len(f)
        <5>1. PICK i \in 1 .. n : f[j] = array[i]
          BY <2>1, <4>1 DEF Picks
        <5>2. i \in 1 .. n + 1 /\ a[j] = array[i] /\ a[j] \in kept
          BY <2>1, <3>1, <4>1, <5>1 DEF Picks
        <5> QED
          BY <5>2
      <4>2. CASE j = Len(f) + 1
        BY <2>6, <3>1, <4>2
      <4> QED
        BY <2>4, <3>1, <4>1, <4>2
    <3>3. \A i \in 1 .. n + 1 : array[i] \in kept => \E j \in 1 .. Len(a) : a[j] = array[i]
      BY <2>1, <2>4, <3>1 DEF Picks
    <3>4. Ascends(array) => Ascends(a)
      <4> SUFFICES ASSUME Ascends(array), NEW i \in 1 .. Len(a), NEW j \in 1 .. Len(a), i < j
                   PROVE  a[i].token < a[j].token
        BY DEF Ascends
      <4>1. CASE j <= Len(f)
        <5>1. i \in 1 .. Len(f) /\ j \in 1 .. Len(f)
          BY <2>4, <3>1, <4>1
        <5> QED
          BY <2>1, <3>1, <5>1 DEF Picks, Ascends
      <4>2. CASE j = Len(f) + 1
        <5>1. i \in 1 .. Len(f) /\ a[i] = f[i] /\ a[j] = e
          BY <2>4, <3>1, <4>2
        <5>2. PICK k \in 1 .. n : f[i] = array[k]
          BY <2>1, <5>1 DEF Picks
        <5>3. k \in 1 .. Len(array) /\ n + 1 \in 1 .. Len(array) /\ k < n + 1
          BY <1>2, <2>2
        <5> QED
          BY <5>1, <5>2, <5>3 DEF Ascends
      <4>3. j <= Len(f) \/ j = Len(f) + 1
        BY <2>4, <3>1
      <4> QED
        BY <4>1, <4>2, <4>3, Zenon
    <3>5. Picks(a, array, n + 1, kept)
      BY <2>1, <2>4, <3>1, <3>2, <3>3, <3>4 DEF Picks
    <3> QED
      BY <2>3, <2>6, <3>5
  <2> QED
    BY <2>5, <2>6
<1>5. N \in Good
  <2> HIDE DEF Good, N
  <2> QED
    BY <1>2, <1>3, <1>4, Induction
<1> QED
  BY <1>1, <1>2, <1>5

\* The tokens of an array, and what filters and a new session make of them.
Tokens(array) == { array[i].token : i \in 1 .. Len(array) }

LEMMA StoredIsToken ==
  ASSUME NEW t
  PROVE  Stored(t) <=> t \in Tokens(refreshTokens)
BY DEF Stored, Tokens

LEMMA WithoutTokensIs ==
  ASSUME NEW array \in Seq(Session), NEW gone
  PROVE  LET rest == WithoutTokens(array, gone) IN
         /\ rest \in Seq(Session)
         /\ Len(rest) <= Len(array)
         /\ Tokens(rest) = Tokens(array) \ gone
         /\ Ascends(array) => Ascends(rest)
         /\ \A j \in 1 .. Len(rest) : \E i \in 1 .. Len(array) : rest[j] = array[i]
<1> DEFINE kept == { s \in Session : s.token \notin gone }
           rest == Filtered(array, kept)
<1>1. rest \in Seq(Session) /\ Picks(rest, array, Len(array), kept)
  BY FilteredPicks
<1>2. \A i \in 1 .. Len(array) : array[i] \in kept <=> array[i].token \notin gone
  OBVIOUS
<1>3. WithoutTokens(array, gone) = rest
  BY DEF WithoutTokens
<1> HIDE DEF kept, rest
<1>4. Tokens(rest) \subseteq Tokens(array) \ gone
  BY <1>1, <1>2 DEF Picks, Tokens
<1>5. Tokens(array) \ gone \subseteq Tokens(rest)
  BY <1>1, <1>2 DEF Picks, Tokens
<1> QED
  BY <1>1, <1>3, <1>4, <1>5 DEF Picks

\* The trim drops as many of the oldest as are too many.
Excess(array) == IF Len(array) > MaxSessions THEN Len(array) - MaxSessions ELSE 0

LEMMA TrimmedIs ==
  ASSUME NEW array \in Seq(Session)
  PROVE  /\ Trimmed(array) \in Seq(Session)
         /\ Excess(array) \in 0 .. Len(array)
         /\ Len(Trimmed(array)) = Len(array) - Excess(array)
         /\ Len(Trimmed(array)) <= MaxSessions
         /\ \A i \in 1 .. Len(Trimmed(array)) :
              /\ Trimmed(array)[i] = array[i + Excess(array)]
              /\ i + Excess(array) \in 1 .. Len(array)
<1> DEFINE N == Len(array)
<1>1. N \in Nat /\ MaxSessions \in Nat \ {0}
  BY AuthAssumption
<1>2. CASE N > MaxSessions
  <2> DEFINE m == N - MaxSessions + 1
             r == SubSeq(array, m, N)
  <2>1. Trimmed(array) = r /\ Excess(array) = N - MaxSessions
    BY <1>2 DEF Trimmed, Excess
  <2>2. m \in 1 .. N /\ m \in Int /\ N \in Int /\ N - m + 1 = MaxSessions
    BY <1>1, <1>2
  <2>3. \A i \in m .. N : array[i] \in Session
    BY <2>2
  <2> HIDE DEF m
  <2>4. /\ r \in Seq(Session) /\ Len(r) = MaxSessions
        /\ \A i \in 1 .. MaxSessions : r[i] = array[m + i - 1]
    BY <2>2, <2>3, SubSeqProperties
  <2>5. \A i \in 1 .. MaxSessions : m + i - 1 = i + (N - MaxSessions)
                                     /\ m + i - 1 \in 1 .. N
    BY <1>1, <1>2 DEF m
  <2> HIDE DEF r, N
  <2> QED
    BY <1>1, <1>2, <2>1, <2>4, <2>5 DEF N
<1>3. CASE ~ (N > MaxSessions)
  BY <1>1, <1>3 DEF Trimmed, Excess
<1> QED
  BY <1>2, <1>3

LEMMA TrimmedTokens ==
  ASSUME NEW array \in Seq(Session)
  PROVE  /\ Tokens(Trimmed(array)) \subseteq Tokens(array)
         /\ Ascends(array) => Ascends(Trimmed(array))
<1> DEFINE r == Trimmed(array)
           d == Excess(array)
<1>1. /\ Len(r) \in Nat /\ d \in Nat
      /\ \A i \in 1 .. Len(r) : r[i] = array[i + d] /\ i + d \in 1 .. Len(array)
  BY TrimmedIs
<1> HIDE DEF r, d
<1>2. Tokens(r) \subseteq Tokens(array)
  BY <1>1 DEF Tokens
<1>3. ASSUME Ascends(array) PROVE Ascends(r)
  <2>1. \A i, j \in 1 .. Len(r) : i < j => i + d < j + d
    BY <1>1
  <2> QED
    BY <1>1, <1>3, <2>1 DEF Ascends
<1> QED
  BY <1>2, <1>3 DEF r

\* An array with one more session at its end.
LEMMA AppendedTokens ==
  ASSUME NEW array \in Seq(Session), NEW s \in Session
  PROVE  /\ Append(array, s) \in Seq(Session)
         /\ Len(Append(array, s)) = Len(array) + 1
         /\ Tokens(Append(array, s)) = Tokens(array) \cup { s.token }
         /\ (Ascends(array) /\ \A t \in Tokens(array) : t < s.token) =>
              Ascends(Append(array, s))
<1> DEFINE a == Append(array, s)
           N == Len(array)
<1>1. /\ N \in Nat /\ a \in Seq(Session) /\ Len(a) = N + 1 /\ a[N + 1] = s
      /\ \A i \in 1 .. N : a[i] = array[i]
  BY AppendProperties
<1> HIDE DEF a
<1>2. Tokens(a) = Tokens(array) \cup { s.token }
  <2>1. 1 .. Len(a) = (1 .. N) \cup { N + 1 }
    BY <1>1
  <2> QED
    BY <1>1, <2>1 DEF Tokens
<1>3. ASSUME Ascends(array), \A t \in Tokens(array) : t < s.token PROVE Ascends(a)
  <2> SUFFICES ASSUME NEW i \in 1 .. Len(a), NEW j \in 1 .. Len(a), i < j
               PROVE  a[i].token < a[j].token
    BY DEF Ascends
  <2>1. i \in 1 .. N /\ (j \in 1 .. N \/ j = N + 1)
    BY <1>1
  <2>2. CASE j \in 1 .. N
    BY <1>1, <1>3, <2>1, <2>2 DEF Ascends
  <2>3. CASE j = N + 1
    <3>1. array[i].token \in Tokens(array) /\ a[i] = array[i] /\ a[j] = s
      BY <1>1, <2>1, <2>3 DEF Tokens
    <3> QED
      BY <1>3, <3>1
  <2> QED
    BY <2>1, <2>2, <2>3
<1> QED
  BY <1>1, <1>2, <1>3 DEF a

\* What persistRefreshToken saves: within the cap, sessions that were there
\* and the new one.
LEMMA WithSessionIs ==
  ASSUME NEW array \in Seq(Session), NEW t \in Token, now \in Token
  PROVE  /\ WithSession(array, t) \in Seq(Session)
         /\ Len(WithSession(array, t)) <= MaxSessions
         /\ Tokens(WithSession(array, t)) \subseteq Tokens(array) \cup { t }
<1> DEFINE kept == Filtered(array, Live)
           s == [token |-> t, expiresAt |-> now + Lifetime]
           all == Append(kept, s)
<1>1. s \in Session /\ s.token = t
  BY AuthAssumption DEF Session, Token
<1>2. kept \in Seq(Session) /\ Picks(kept, array, Len(array), Live)
  BY FilteredPicks
<1>3. WithSession(array, t) = Trimmed(all)
  BY DEF WithSession
<1> HIDE DEF kept, s
<1>4. all \in Seq(Session) /\ Tokens(all) = Tokens(kept) \cup { t }
  BY <1>1, <1>2, AppendedTokens
<1> HIDE DEF all
<1>5. Tokens(kept) \subseteq Tokens(array)
  BY <1>2 DEF Picks, Tokens
<1> QED
  BY <1>3, <1>4, <1>5, TrimmedIs, TrimmedTokens

-----------------------------------------------------------------------------
(***************************************************************************)
(* The cap, whatever overlaps and whatever fails.                          *)
(***************************************************************************)
\* The stored array comes from a handler's array: those are within the cap.
BoundInv ==
  /\ TypeOK
  /\ SessionCap
  /\ \A h \in Handler :
       LET me == handler[h] IN
       /\ Len(me.array) <= MaxSessions
       /\ me.pc \in { "reload", "persistSave" } => me.new \in Token
       /\ me.pc \in { "revokeLoad", "revokeSave" } /\ me.op = "refresh" => me.new \in Token

LEMMA SessionShapes ==
  /\ Idle \in HandlerState /\ Idle.pc = "idle" /\ Idle.op = "none"
  /\ Idle.array = << >> /\ Len(Idle.array) = 0
  /\ Idle.old = {} /\ Idle.new = NoToken
  /\ MaxSessions \in Nat /\ NoToken \notin Token
  /\ << >> \in Seq(Session)
BY AuthAssumption, EmptySeq DEF Idle, HandlerState, PC, NoToken, Token

LEMMA InitBound == Init => BoundInv
<1> SUFFICES ASSUME Init PROVE BoundInv
  OBVIOUS
<1>1. now \in 0 .. MaxTime
  BY AuthAssumption DEF Init
<1>2. handler \in [Handler -> HandlerState] /\ \A h \in Handler : handler[h] = Idle
  BY SessionShapes, Zenon DEF Init
<1>3. root \in [Token -> Token \cup { NoToken }]
  BY DEF Init
<1>4. refreshTokens \in Seq(Session) /\ Len(refreshTokens) = 0
  BY SessionShapes DEF Init, Idle
<1>5. TypeOK
  BY <1>1, <1>2, <1>3, <1>4 DEF Init, TypeOK
<1> QED
  BY <1>2, <1>4, <1>5, SessionShapes DEF BoundInv, SessionCap

\* One handler moves on.
LEMMA GoesBound ==
  ASSUME BoundInv, NEW h \in Handler, NEW local \in HandlerState, Goes(h, local),
         Len(local.array) <= MaxSessions
  PROVE  /\ handler' \in [Handler -> HandlerState]
         /\ handler'[h] = local
         /\ \A g \in Handler \ { h } : handler'[g] = handler[g]
         /\ \A g \in Handler : Len(handler'[g].array) <= MaxSessions
BY DEF Goes, BoundInv, TypeOK

\* A signature changes the root of one token, from none.
LEMMA SignsIs ==
  ASSUME TypeOK, NEW r \in Token \cup { NoToken }, Signs(r)
  PROVE  /\ root' \in [Token -> Token \cup { NoToken }]
         /\ now \in Token
         /\ root'[now] = IF r = NoToken THEN now ELSE root[r]
         /\ \A t \in Token \ { now } : root'[t] = root[t]
         /\ ~ SameSecond => root[now] = NoToken
<1>1. now \in Token
  BY DEF TypeOK, Token
<1>2. (IF r = NoToken THEN now ELSE root[r]) \in Token \cup { NoToken }
  BY <1>1 DEF TypeOK
<1> QED
  BY <1>1, <1>2 DEF Signs, TypeOK

\* What BoundInv says of the values that a step starts from.
LEMMA BoundTypes ==
  ASSUME BoundInv
  PROVE  /\ TypeOK /\ now \in Token
         /\ \A h \in Handler : /\ handler[h] \in HandlerState
                               /\ handler[h].array \in Seq(Session)
                               /\ handler[h].old \subseteq Token
                               /\ handler[h].new \in Token \cup { NoToken }
                               /\ Len(handler[h].array) <= MaxSessions
         /\ refreshTokens \in Seq(Session) /\ Len(refreshTokens) <= MaxSessions
         /\ promised \subseteq Token /\ given \subseteq Token /\ revoked \subseteq Token
BY DEF BoundInv, TypeOK, HandlerState, SessionCap, Token

\* The handler of a step, before and after.
Moves(h, pc, op, array, old, new) ==
  /\ handler' \in [Handler -> HandlerState]
  /\ \A g \in Handler \ { h } : handler'[g] = handler[g]
  /\ \A g \in Handler : Len(handler'[g].array) <= MaxSessions
  /\ handler'[h].pc = pc /\ handler'[h].op = op /\ handler'[h].array = array
  /\ handler'[h].old = old /\ handler'[h].new = new

LEMMA MovesTo ==
  ASSUME BoundInv, NEW h \in Handler, NEW local \in HandlerState, Goes(h, local),
         Len(local.array) <= MaxSessions
  PROVE  Moves(h, local.pc, local.op, local.array, local.old, local.new)
BY GoesBound DEF Moves

LEMMA MovesToIdle ==
  ASSUME BoundInv, NEW h \in Handler, Goes(h, Idle)
  PROVE  Moves(h, "idle", "none", << >>, {}, NoToken)
<1>1. Idle \in HandlerState /\ Len(Idle.array) <= MaxSessions
  BY SessionShapes
<1>2. Moves(h, Idle.pc, Idle.op, Idle.array, Idle.old, Idle.new)
  BY <1>1, MovesTo
<1> QED
  BY <1>2, SessionShapes, Zenon

LEMMA RegisterMoves ==
  ASSUME BoundInv, NEW h \in Handler, RegisterInsert(h)
  PROVE  Moves(h, "persistSave", "register", WithSession(<< >>, now), {}, now)
<1> DEFINE array == WithSession(<< >>, now)
<1>1. array \in Seq(Session) /\ Len(array) <= MaxSessions
  BY BoundTypes, SessionShapes, WithSessionIs
<1> HIDE DEF array
<1> DEFINE local == [Idle EXCEPT !.pc = "persistSave", !.op = "register",
                                 !.array = array, !.new = now]
<1>2. Goes(h, local)
  BY DEF RegisterInsert, array
<1>old. {} \in SUBSET Token
  BY BoundTypes
<1>3. /\ local \in HandlerState
      /\ local.pc = "persistSave" /\ local.op = "register" /\ local.array = array
      /\ local.old = {} /\ local.new = now
  BY <1>1, <1>old, BoundTypes, SessionShapes DEF HandlerState, PC, Idle
<1> HIDE DEF local
<1> QED
  BY <1>1, <1>2, <1>3, MovesTo DEF array

LEMMA LoginMoves ==
  ASSUME BoundInv, NEW h \in Handler, LoginLoad(h)
  PROVE  Moves(h, "comparePassword", "login", refreshTokens, {}, NoToken)
<1> DEFINE array == refreshTokens
<1>1. array \in Seq(Session) /\ Len(array) <= MaxSessions
  BY BoundTypes
<1> HIDE DEF array
<1> DEFINE local == [Idle EXCEPT !.pc = "comparePassword", !.op = "login",
                                 !.array = array]
<1>2. Goes(h, local)
  BY DEF LoginLoad, array
<1>old. {} \in SUBSET Token
  BY BoundTypes
<1>3. /\ local \in HandlerState
      /\ local.pc = "comparePassword" /\ local.op = "login" /\ local.array = array
      /\ local.old = {} /\ local.new = NoToken
  BY <1>1, <1>old, BoundTypes, SessionShapes DEF HandlerState, PC, Idle
<1> HIDE DEF local
<1> QED
  BY <1>1, <1>2, <1>3, MovesTo DEF array

LEMMA RefreshMoves ==
  ASSUME BoundInv, NEW h \in Handler,
         NEW t \in Token, RefreshLoad(h, t)
  PROVE  Moves(h, "revokeLoad", "refresh", << >>, { t }, now)
<1> DEFINE array == << >>
<1>1. array \in Seq(Session) /\ Len(array) <= MaxSessions /\ array = << >>
  BY SessionShapes
<1> HIDE DEF array
<1> DEFINE local == [Idle EXCEPT !.pc = "revokeLoad", !.op = "refresh",
                                 !.old = { t }, !.new = now]
<1>2. Goes(h, local)
  BY DEF RefreshLoad, array
<1>old. { t } \in SUBSET Token
  BY BoundTypes
<1>3. /\ local \in HandlerState
      /\ local.pc = "revokeLoad" /\ local.op = "refresh" /\ local.array = array
      /\ local.old = { t } /\ local.new = now
  BY <1>1, <1>old, BoundTypes, SessionShapes DEF HandlerState, PC, Idle
<1> HIDE DEF local
<1> QED
  BY <1>1, <1>2, <1>3, MovesTo DEF array

LEMMA RevokeLoadMoves ==
  ASSUME BoundInv, NEW h \in Handler, RevokeLoad(h)
  PROVE  Moves(h, "revokeSave", handler[h].op, refreshTokens, handler[h].old, handler[h].new)
<1> DEFINE array == refreshTokens
<1>1. array \in Seq(Session) /\ Len(array) <= MaxSessions
  BY BoundTypes
<1> HIDE DEF array
<1> DEFINE local == [handler[h] EXCEPT !.pc = "revokeSave", !.array = array]
<1>2. Goes(h, local)
  BY DEF RevokeLoad, array
<1>old. handler[h].old \in SUBSET Token
  BY BoundTypes
<1>3. /\ local \in HandlerState
      /\ local.pc = "revokeSave" /\ local.op = handler[h].op /\ local.array = array
      /\ local.old = handler[h].old /\ local.new = handler[h].new
  BY <1>1, <1>old, BoundTypes, SessionShapes DEF HandlerState, PC, Idle
<1> HIDE DEF local
<1> QED
  BY <1>1, <1>2, <1>3, MovesTo DEF array

LEMMA ReloadMoves ==
  ASSUME BoundInv, NEW h \in Handler, Reload(h), handler[h].new \in Token
  PROVE  Moves(h, "persistSave", handler[h].op, WithSession(refreshTokens, handler[h].new), handler[h].old, handler[h].new)
<1> DEFINE array == WithSession(refreshTokens, handler[h].new)
<1>1. array \in Seq(Session) /\ Len(array) <= MaxSessions
  BY BoundTypes, WithSessionIs
<1> HIDE DEF array
<1> DEFINE local == [handler[h] EXCEPT !.pc = "persistSave", !.array = array]
<1>2. Goes(h, local)
  BY DEF Reload, array
<1>old. handler[h].old \in SUBSET Token
  BY BoundTypes
<1>3. /\ local \in HandlerState
      /\ local.pc = "persistSave" /\ local.op = handler[h].op /\ local.array = array
      /\ local.old = handler[h].old /\ local.new = handler[h].new
  BY <1>1, <1>old, BoundTypes, SessionShapes DEF HandlerState, PC, Idle
<1> HIDE DEF local
<1> QED
  BY <1>1, <1>2, <1>3, MovesTo DEF array

LEMMA LogoutMoves ==
  ASSUME BoundInv, NEW h \in Handler,
         NEW t \in Token, Logout(h, t)
  PROVE  Moves(h, "revokeLoad", "logout", << >>, { t }, NoToken)
<1> DEFINE array == << >>
<1>1. array \in Seq(Session) /\ Len(array) <= MaxSessions /\ array = << >>
  BY SessionShapes
<1> HIDE DEF array
<1> DEFINE local == [Idle EXCEPT !.pc = "revokeLoad", !.op = "logout", !.old = { t }]
<1>2. Goes(h, local)
  BY DEF Logout, array
<1>old. { t } \in SUBSET Token
  BY BoundTypes
<1>3. /\ local \in HandlerState
      /\ local.pc = "revokeLoad" /\ local.op = "logout" /\ local.array = array
      /\ local.old = { t } /\ local.new = NoToken
  BY <1>1, <1>old, BoundTypes, SessionShapes DEF HandlerState, PC, Idle
<1> HIDE DEF local
<1> QED
  BY <1>1, <1>2, <1>3, MovesTo DEF array

LEMMA LogoutAllMoves ==
  ASSUME BoundInv, NEW h \in Handler, LogoutAllLoad(h)
  PROVE  Moves(h, "clearSave", "logoutAll", refreshTokens, promised, NoToken)
<1> DEFINE array == refreshTokens
<1>1. array \in Seq(Session) /\ Len(array) <= MaxSessions
  BY BoundTypes
<1> HIDE DEF array
<1> DEFINE local == [Idle EXCEPT !.pc = "clearSave", !.op = "logoutAll",
                                 !.array = array, !.old = promised]
<1>2. Goes(h, local)
  BY DEF LogoutAllLoad, array
<1>old. promised \in SUBSET Token
  BY BoundTypes
<1>3. /\ local \in HandlerState
      /\ local.pc = "clearSave" /\ local.op = "logoutAll" /\ local.array = array
      /\ local.old = promised /\ local.new = NoToken
  BY <1>1, <1>old, BoundTypes, SessionShapes DEF HandlerState, PC, Idle
<1> HIDE DEF local
<1> QED
  BY <1>1, <1>2, <1>3, MovesTo DEF array

LEMMA CompareMoves ==
  ASSUME BoundInv, NEW h \in Handler,
         ComparePassword(h), ~ (Goes(h, Idle) /\ UNCHANGED history)
  PROVE  Moves(h, "persistSave", handler[h].op, WithSession(handler[h].array, now), handler[h].old, now)
<1> DEFINE array == WithSession(handler[h].array, now)
<1>1. array \in Seq(Session) /\ Len(array) <= MaxSessions
  BY BoundTypes, WithSessionIs
<1> HIDE DEF array
<1> DEFINE local == [handler[h] EXCEPT !.pc = "persistSave", !.array = array,
                                      !.new = now]
<1>2. Goes(h, local)
  BY DEF ComparePassword, array
<1>old. handler[h].old \in SUBSET Token
  BY BoundTypes
<1>3. /\ local \in HandlerState
      /\ local.pc = "persistSave" /\ local.op = handler[h].op /\ local.array = array
      /\ local.old = handler[h].old /\ local.new = now
  BY <1>1, <1>old, BoundTypes, SessionShapes DEF HandlerState, PC, Idle
<1> HIDE DEF local
<1> QED
  BY <1>1, <1>2, <1>3, MovesTo DEF array

LEMMA RevokeSaveMoves ==
  ASSUME BoundInv, NEW h \in Handler,
         RevokeSave(h), handler[h].op = "refresh"
  PROVE  Moves(h, "reload", handler[h].op, << >>, handler[h].old, handler[h].new)
<1> DEFINE array == << >>
<1>1. array \in Seq(Session) /\ Len(array) <= MaxSessions /\ array = << >>
  BY SessionShapes
<1> HIDE DEF array
<1> DEFINE local == [handler[h] EXCEPT !.pc = "reload", !.array = array]
<1>2. Goes(h, local)
  BY DEF RevokeSave, array
<1>old. handler[h].old \in SUBSET Token
  BY BoundTypes
<1>3. /\ local \in HandlerState
      /\ local.pc = "reload" /\ local.op = handler[h].op /\ local.array = array
      /\ local.old = handler[h].old /\ local.new = handler[h].new
  BY <1>1, <1>old, BoundTypes, SessionShapes DEF HandlerState, PC, Idle
<1> HIDE DEF local
<1> QED
  BY <1>1, <1>2, <1>3, MovesTo DEF array

\* One handler has moved; the stored array is a filtered one or a handler's.
LEMMA MovedBound ==
  ASSUME BoundInv, NEW h \in Handler, NEW pc, NEW op, NEW array, NEW old, NEW new,
         Moves(h, pc, op, array, old, new),
         pc \in { "reload", "persistSave" } => new \in Token,
         pc \in { "revokeLoad", "revokeSave" } /\ op = "refresh" => new \in Token,
         exists' \in BOOLEAN, UNCHANGED << isActive, now >>,
         refreshTokens' \in Seq(Session), Len(refreshTokens') <= MaxSessions,
         given' \subseteq Token, revoked' \subseteq Token, promised' \subseteq Token,
         root' \in [Token -> Token \cup { NoToken }]
  PROVE  BoundInv'
<1>1. TypeOK'
  BY DEF Moves, BoundInv, TypeOK
<1>2. \A g \in Handler :
        LET me == handler'[g] IN
        /\ Len(me.array) <= MaxSessions
        /\ me.pc \in { "reload", "persistSave" } => me.new \in Token
        /\ me.pc \in { "revokeLoad", "revokeSave" } /\ me.op = "refresh" => me.new \in Token
  BY DEF Moves, BoundInv
<1> QED
  BY <1>1, <1>2 DEF BoundInv, SessionCap

LEMMA StepBound == BoundInv /\ [Next]_vars => BoundInv'
<1> SUFFICES ASSUME BoundInv, [Next]_vars PROVE BoundInv'
  OBVIOUS
<1>root. root \in [Token -> Token \cup { NoToken }] /\ exists \in BOOLEAN /\ isActive \in BOOLEAN
  BY DEF BoundInv, TypeOK
<1>1. CASE UNCHANGED vars
  BY <1>1 DEF vars, history, BoundInv, TypeOK, SessionCap
<1>2. ASSUME NEW h \in Handler, RegisterInsert(h) PROVE BoundInv'
  <2>1. root' \in [Token -> Token \cup { NoToken }]
    BY <1>2, BoundTypes, SignsIs DEF RegisterInsert
  <2> QED
    BY <1>2, <1>root, <2>1, BoundTypes, RegisterMoves, MovedBound DEF RegisterInsert
<1>3. ASSUME NEW h \in Handler, LoginLoad(h) PROVE BoundInv'
  BY <1>3, <1>root, BoundTypes, LoginMoves, MovedBound DEF LoginLoad, history
<1>4. ASSUME NEW h \in Handler, ComparePassword(h) PROVE BoundInv'
  <2>1. CASE Goes(h, Idle) /\ UNCHANGED history
    BY <1>4, <1>root, <2>1, BoundTypes, MovesToIdle, MovedBound DEF ComparePassword, history
  <2>2. CASE ~ (Goes(h, Idle) /\ UNCHANGED history)
    <3>1. root' \in [Token -> Token \cup { NoToken }]
      BY <1>4, <2>2, BoundTypes, SignsIs DEF ComparePassword
    <3> QED
      BY <1>4, <1>root, <2>2, <3>1, BoundTypes, CompareMoves, MovedBound DEF ComparePassword
  <2> QED
    BY <2>1, <2>2
<1>5. ASSUME NEW h \in Handler, NEW t \in given, RefreshLoad(h, t) PROVE BoundInv'
  <2>1. t \in Token
    BY BoundTypes
  <2>2. root' \in [Token -> Token \cup { NoToken }]
    BY <1>5, <2>1, BoundTypes, SignsIs DEF RefreshLoad
  <2> QED
    BY <1>5, <1>root, <2>1, <2>2, BoundTypes, RefreshMoves, MovedBound DEF RefreshLoad
<1>6. ASSUME NEW h \in Handler, RevokeLoad(h) PROVE BoundInv'
  <2>1. handler[h].op = "refresh" => handler[h].new \in Token
    BY <1>6 DEF RevokeLoad, BoundInv
  <2> QED
    BY <1>6, <1>root, <2>1, BoundTypes, RevokeLoadMoves, MovedBound DEF RevokeLoad, history
<1>7. ASSUME NEW h \in Handler, RevokeSave(h) PROVE BoundInv'
  <2> DEFINE me == handler[h]
             kept == WithoutTokens(me.array, me.old)
  <2>1. kept \in Seq(Session) /\ Len(kept) <= MaxSessions
    <3>1. me.array \in Seq(Session) /\ Len(me.array) <= MaxSessions
      BY BoundTypes
    <3>2. kept \in Seq(Session) /\ Len(kept) <= Len(me.array)
      BY <3>1, WithoutTokensIs
    <3> HIDE DEF kept, me
    <3> QED
      BY <3>1, <3>2, SessionShapes
  <2>2. refreshTokens' = kept \/ refreshTokens' = refreshTokens
    BY <1>7 DEF RevokeSave
  <2>3. refreshTokens' \in Seq(Session) /\ Len(refreshTokens') <= MaxSessions
    BY <2>1, <2>2, BoundTypes
  <2>4. me.op = "refresh" => me.new \in Token
    BY <1>7 DEF RevokeSave, BoundInv
  <2>5. CASE me.op = "refresh"
    BY <1>7, <1>root, <2>3, <2>4, <2>5, BoundTypes, RevokeSaveMoves, MovedBound
    DEF RevokeSave
  <2>6. CASE me.op # "refresh"
    BY <1>7, <1>root, <2>3, <2>6, BoundTypes, MovesToIdle, MovedBound DEF RevokeSave
  <2> QED
    BY <2>5, <2>6
<1>8. ASSUME NEW h \in Handler, Reload(h) PROVE BoundInv'
  <2>1. handler[h].new \in Token
    BY <1>8 DEF Reload, BoundInv
  <2> QED
    BY <1>8, <1>root, <2>1, BoundTypes, ReloadMoves, MovedBound DEF Reload, history
<1>9. ASSUME NEW h \in Handler, PersistSave(h) PROVE BoundInv'
  <2>1. handler[h].new \in Token
    BY <1>9 DEF PersistSave, BoundInv
  <2>2. promised' \subseteq Token
    BY <1>9, <2>1, BoundTypes DEF PersistSave, Newest
  <2> QED
    BY <1>9, <1>root, <2>1, <2>2, BoundTypes, MovesToIdle, MovedBound DEF PersistSave
<1>10. ASSUME NEW h \in Handler, NEW t \in given, Logout(h, t) PROVE BoundInv'
  <2>1. t \in Token
    BY BoundTypes
  <2> QED
    BY <1>10, <1>root, <2>1, BoundTypes, LogoutMoves, MovedBound DEF Logout, history
<1>11. ASSUME NEW h \in Handler, LogoutAllLoad(h) PROVE BoundInv'
  BY <1>11, <1>root, BoundTypes, LogoutAllMoves, MovedBound DEF LogoutAllLoad, history
<1>12. ASSUME NEW h \in Handler, ClearSave(h) PROVE BoundInv'
  <2>1. refreshTokens' \in Seq(Session) /\ Len(refreshTokens') <= MaxSessions
    BY <1>12, BoundTypes, SessionShapes DEF ClearSave
  <2> QED
    BY <1>12, <1>root, <2>1, BoundTypes, MovesToIdle, MovedBound DEF ClearSave
<1>13. ASSUME NEW h \in Handler, Abort(h) PROVE BoundInv'
  BY <1>13, <1>root, BoundTypes, MovesToIdle, MovedBound DEF Abort, history
<1>14. ASSUME NEW b \in BOOLEAN, SetActive(b) PROVE BoundInv'
  BY <1>14 DEF SetActive, history, BoundInv, TypeOK, SessionCap
<1>15. CASE Tick
  <2>1. now' \in 0 .. MaxTime
    BY <1>15, AuthAssumption DEF Tick, BoundInv, TypeOK
  <2> QED
    BY <1>15, <2>1 DEF Tick, history, BoundInv, TypeOK, SessionCap
<1> QED
  BY <1>1, <1>2, <1>3, <1>4, <1>5, <1>6, <1>7, <1>8, <1>9, <1>10, <1>11, <1>12,
     <1>13, <1>14, <1>15 DEF Next, Unfailing, Step

\* The stored array never holds more than MAX_REFRESH_SESSIONS, whatever
\* handlers overlap, wherever they are cut off (persistRefreshToken).
THEOREM SessionsAlwaysBounded == Spec => []SessionsBounded
<1>1. BoundInv => SessionsBounded
  BY DEF BoundInv, SessionsBounded
<1> QED
  BY <1>1, InitBound, StepBound, PTL DEF Spec

-----------------------------------------------------------------------------
(***************************************************************************)
(* One handler at a time, tokens signed in different seconds: revocations  *)
(* hold, and a login has one session, wherever handlers are cut off.       *)
(***************************************************************************)
Alone == \A g, h \in Handler : handler[g].pc # "idle" /\ handler[h].pc # "idle" => g = h

\* A handler that has signed a token and not stored it yet.
Renews(me) == me.pc \in { "revokeLoad", "revokeSave" } /\ me.op = "refresh"
HasSigned(me) == Renews(me) \/ me.pc \in { "reload", "persistSave" }

\* The handler that is at work knows what is stored: nobody else stores.
\* A token that it has signed is not out yet, and its login has no other
\* session than the one about to be given up.
Knows(me) ==
  /\ me.pc # "idle" => me.old \subseteq given
  /\ me.pc \in { "comparePassword", "revokeSave", "clearSave" } => me.array = refreshTokens
  /\ me.pc = "comparePassword" => me.old = {}
  /\ me.pc \in { "revokeLoad", "revokeSave" } => me.op \in { "refresh", "logout" }
  /\ HasSigned(me) => root[me.new] # NoToken /\ me.new \notin given
  /\ Renews(me) =>
       \A u \in Tokens(refreshTokens) : root[u] = root[me.new] => u \in me.old
  /\ me.pc = "reload" =>
       \A u \in Tokens(refreshTokens) : u \notin me.old /\ root[u] # root[me.new]
  /\ me.pc = "persistSave" =>
       \A u \in Tokens(me.array) \ { me.new } :
         u \in Tokens(refreshTokens) \ me.old /\ root[u] # root[me.new]

RevocationInv ==
  /\ BoundInv
  /\ Alone
  /\ \A t \in given : root[t] # NoToken
  /\ promised \subseteq given /\ revoked \subseteq given
  /\ Tokens(refreshTokens) \subseteq given \ revoked
  /\ \A t \in Token : root[t] # NoToken => root[root[t]] # NoToken
  /\ \A t, u \in Tokens(refreshTokens) : root[t] = root[u] => t = u
  /\ \A h \in Handler : Knows(handler[h])

LEMMA InitRevocation == Init => RevocationInv
<1> SUFFICES ASSUME Init PROVE RevocationInv
  OBVIOUS
<1>1. BoundInv
  BY InitBound
<1>2. \A h \in Handler : handler[h].pc = "idle"
  BY SessionShapes, Zenon DEF Init
<1>3. Tokens(refreshTokens) = {}
  <2>1. Len(refreshTokens) = 0
    BY SessionShapes DEF Init, Idle
  <2> QED
    BY <2>1 DEF Tokens
<1>4. \A h \in Handler : Knows(handler[h])
  BY <1>2 DEF Knows, HasSigned, Renews
<1>5. \A t \in Token : root[t] = NoToken
  BY DEF Init
<1>6. given = {} /\ revoked = {} /\ promised = {}
  BY DEF Init
<1>7. Alone
  BY <1>2 DEF Alone
<1> QED
  BY <1>1, <1>3, <1>4, <1>5, <1>6, <1>7 DEF RevocationInv

LEMMA TokensType ==
  ASSUME NEW array \in Seq(Session)
  PROVE  Tokens(array) \subseteq Token /\ (array = << >> => Tokens(array) = {})
<1>1. \A i \in 1 .. Len(array) : array[i].token \in Token
  <2>1. \A i \in 1 .. Len(array) : array[i] \in Session
    BY ElementOfSeq
  <2> QED
    BY <2>1 DEF Session
<1>2. array = << >> => Len(array) = 0
  BY EmptySeq
<1> QED
  BY <1>1, <1>2 DEF Tokens

\* The handler at work is the only one, before and after its step.
LEMMA OnlyOneAtWork ==
  ASSUME ~ Overlap, RevocationInv, NEW h \in Handler,
         handler[h].pc # "idle" \/ Accepts(h),
         NEW pc, NEW op, NEW array, NEW old, NEW new, Moves(h, pc, op, array, old, new)
  PROVE  /\ \A g \in Handler \ { h } : handler[g].pc = "idle" /\ handler'[g].pc = "idle"
         /\ Alone'
         /\ \A g \in Handler \ { h } : Knows(handler[g])'
<1>1. \A g \in Handler \ { h } : handler[g].pc = "idle" /\ handler'[g].pc = "idle"
  BY DEF RevocationInv, Alone, Accepts, Moves
<1>2. Alone'
  BY <1>1 DEF Alone
<1>3. \A g \in Handler \ { h } : Knows(handler[g])'
  BY <1>1 DEF Knows, HasSigned, Renews
<1> QED
  BY <1>1, <1>2, <1>3

\* A handler moves on, and the stored sessions stay as they are.
LEMMA MovedRevocation ==
  ASSUME ~ Overlap, RevocationInv, BoundInv', NEW h \in Handler,
         handler[h].pc # "idle" \/ Accepts(h),
         NEW pc, NEW op, NEW array, NEW old, NEW new, Moves(h, pc, op, array, old, new),
         Knows(handler[h])',
         UNCHANGED << refreshTokens, given, revoked, promised, root >>
  PROVE  RevocationInv'
<1>1. Alone' /\ \A g \in Handler : Knows(handler[g])'
  BY OnlyOneAtWork
<1> QED
  BY <1>1 DEF RevocationInv

\* The token that is signed is new, and roots stay as they are.
LEMMA SignsRevocation ==
  ASSUME ~ SameSecond, RevocationInv, NEW r \in given \cup { NoToken }, Signs(r)
  PROVE  /\ now \in Token \ given /\ root[now] = NoToken
         /\ root'[now] = IF r = NoToken THEN now ELSE root[r]
         /\ root'[now] \in Token
         /\ \A t \in given : t \in Token /\ root'[t] = root[t] /\ root[t] # NoToken
         /\ \A t \in Token \ { now } : root'[t] = root[t] /\ root[t] # now
         /\ \A t \in Token : root'[t] # NoToken => root'[root'[t]] # NoToken
<1>1. /\ TypeOK /\ given \subseteq Token /\ now \in Token /\ NoToken \notin Token
      /\ root \in [Token -> Token \cup { NoToken }]
  BY BoundTypes, SessionShapes DEF RevocationInv, TypeOK
<1>2. /\ root' \in [Token -> Token \cup { NoToken }]
      /\ root'[now] = IF r = NoToken THEN now ELSE root[r]
      /\ \A t \in Token \ { now } : root'[t] = root[t]
      /\ root[now] = NoToken
  BY <1>1, SignsIs
<1>3. \A t \in given : root[t] # NoToken
  BY DEF RevocationInv
<1>4. \A t \in Token : root[t] # NoToken => root[root[t]] # NoToken
  BY DEF RevocationInv
<1>5. now \notin given
  BY <1>2, <1>3
<1>6. root'[now] \in Token
  BY <1>1, <1>2, <1>3
<1>7. \A t \in Token : root[t] # now
  BY <1>1, <1>2, <1>4
<1>8. ASSUME NEW t \in Token, root'[t] # NoToken PROVE root'[root'[t]] # NoToken
  <2>1. CASE t = now /\ r = NoToken
    BY <1>1, <1>2, <2>1
  <2>2. CASE t = now /\ r # NoToken
    <3>1. root'[t] = root[r] /\ root[r] \in Token /\ root[root[r]] # NoToken /\ root[r] # now
      BY <1>1, <1>2, <1>3, <1>4, <1>7, <2>2
    <3> QED
      BY <1>2, <3>1
  <2>3. CASE t # now
    <3>1. root'[t] = root[t] /\ root[t] \in Token /\ root[root[t]] # NoToken /\ root[t] # now
      BY <1>1, <1>2, <1>4, <1>7, <1>8, <2>3
    <3> QED
      BY <1>2, <3>1
  <2> QED
    BY <2>1, <2>2, <2>3
<1> QED
  BY <1>1, <1>2, <1>3, <1>5, <1>6, <1>7, <1>8

\* A handler signs a token and moves on.
LEMMA SignedRevocation ==
  ASSUME ~ Overlap, ~ SameSecond, RevocationInv, BoundInv', NEW h \in Handler,
         handler[h].pc # "idle" \/ Accepts(h),
         NEW pc, NEW op, NEW array, NEW old, NEW new, Moves(h, pc, op, array, old, new),
         NEW r \in given \cup { NoToken }, Signs(r),
         Knows(handler[h])',
         UNCHANGED << refreshTokens, given, revoked, promised >>
  PROVE  RevocationInv'
<1>1. Alone' /\ \A g \in Handler : Knows(handler[g])'
  BY OnlyOneAtWork
<1>2. /\ \A t \in given : root'[t] = root[t]
      /\ \A t \in Token : root'[t] # NoToken => root'[root'[t]] # NoToken
  BY SignsRevocation
<1>3. Tokens(refreshTokens) \subseteq given
  BY DEF RevocationInv
<1> QED
  BY <1>1, <1>2, <1>3 DEF RevocationInv

LEMMA StepRevocation ==
  ASSUME ~ Overlap, ~ SameSecond
  PROVE  RevocationInv /\ [Next]_vars => RevocationInv'
<1> SUFFICES ASSUME RevocationInv, [Next]_vars PROVE RevocationInv'
  OBVIOUS
<1>bound. BoundInv /\ BoundInv'
  BY StepBound DEF RevocationInv
<1>types. /\ refreshTokens \in Seq(Session) /\ Tokens(refreshTokens) \subseteq Token
          /\ given \subseteq Token /\ NoToken \notin Token
          /\ \A h \in Handler : handler[h].array \in Seq(Session)
          /\ now \in Token
  BY <1>bound, BoundTypes, SessionShapes, TokensType
<1>inv. /\ \A t \in given : root[t] # NoToken
        /\ promised \subseteq given /\ revoked \subseteq given
        /\ Tokens(refreshTokens) \subseteq given \ revoked
        /\ \A t, u \in Tokens(refreshTokens) : root[t] = root[u] => t = u
        /\ \A h \in Handler : Knows(handler[h])
  BY DEF RevocationInv
<1>1. CASE UNCHANGED vars
  BY <1>1, <1>bound DEF vars, history, RevocationInv, Alone, Knows
<1>2. ASSUME NEW h \in Handler, RegisterInsert(h) PROVE RevocationInv'
  <2> DEFINE array == WithSession(<< >>, now)
  <2>1. Moves(h, "persistSave", "register", array, {}, now) /\ Accepts(h) /\ Signs(NoToken)
    BY <1>2, <1>bound, RegisterMoves DEF RegisterInsert
  <2>2. now \in Token \ given /\ root'[now] = now
    BY <2>1, SignsRevocation
  <2>3. Tokens(array) \subseteq { now }
    BY <1>types, SessionShapes, TokensType, WithSessionIs
  <2> HIDE DEF array
  <2>4. Knows(handler[h])'
    BY <1>2, <1>types, <2>1, <2>2, <2>3
    DEF RegisterInsert, Knows, HasSigned, Renews, Moves
  <2> QED
    BY <1>2, <1>bound, <2>1, <2>4, SignedRevocation DEF RegisterInsert
<1>3. ASSUME NEW h \in Handler, LoginLoad(h) PROVE RevocationInv'
  <2>1. Moves(h, "comparePassword", "login", refreshTokens, {}, NoToken) /\ Accepts(h)
    BY <1>3, <1>bound, LoginMoves DEF LoginLoad
  <2>2. Knows(handler[h])'
    BY <1>3, <2>1 DEF LoginLoad, Knows, HasSigned, Renews, Moves
  <2> QED
    BY <1>3, <1>bound, <2>1, <2>2, MovedRevocation DEF LoginLoad, history
<1>idle. ASSUME NEW h \in Handler, Moves(h, "idle", "none", << >>, {}, NoToken),
                handler[h].pc # "idle",
                UNCHANGED << refreshTokens, given, revoked, promised, root >>
         PROVE  RevocationInv'
  <2>1. Knows(handler[h])'
    BY <1>idle DEF Knows, HasSigned, Renews, Moves
  <2> QED
    BY <1>idle, <1>bound, <2>1, MovedRevocation
<1>4. ASSUME NEW h \in Handler, ComparePassword(h) PROVE RevocationInv'
  <2>1. CASE Goes(h, Idle) /\ UNCHANGED history
    BY <1>4, <1>bound, <1>idle, <2>1, MovesToIdle DEF ComparePassword, history
  <2>2. CASE ~ (Goes(h, Idle) /\ UNCHANGED history)
    <3> DEFINE me == handler[h]
               array == WithSession(me.array, now)
    <3>1. Moves(h, "persistSave", me.op, array, me.old, now) /\ Signs(NoToken)
      BY <1>4, <1>bound, <2>2, CompareMoves DEF ComparePassword
    <3>2. me.old = {} /\ me.array = refreshTokens
      BY <1>4, <1>inv DEF ComparePassword, Knows
    <3>3. /\ now \in Token \ given /\ root'[now] = now
          /\ \A t \in Token \ { now } : root'[t] = root[t] /\ root[t] # now
      BY <3>1, SignsRevocation
    <3>4. Tokens(array) \subseteq Tokens(refreshTokens) \cup { now }
      BY <1>types, <3>2, WithSessionIs
    <3>5. UNCHANGED << refreshTokens, given, revoked, promised >>
      BY <1>4, <2>2 DEF ComparePassword
    <3> HIDE DEF array, me
    <3>6. Knows(handler[h])'
      BY <1>types, <1>inv, <3>1, <3>2, <3>3, <3>4, <3>5
      DEF Knows, HasSigned, Renews, Moves
    <3> QED
      BY <1>4, <1>bound, <3>1, <3>5, <3>6, SignedRevocation DEF ComparePassword
  <2> QED
    BY <2>1, <2>2
<1>5. ASSUME NEW h \in Handler, NEW t \in given, RefreshLoad(h, t) PROVE RevocationInv'
  <2>1. /\ t \in Token
        /\ Moves(h, "revokeLoad", "refresh", << >>, { t }, now) /\ Accepts(h) /\ Signs(t)
        /\ Stored(t)
    BY <1>5, <1>bound, <1>types, RefreshMoves
    DEF RefreshLoad, Accepted, IsValidSession, Stored
  <2>2. /\ now \in Token \ given /\ root'[now] = root[t] /\ root'[now] \in Token
        /\ \A u \in given : root'[u] = root[u]
    BY <1>types, <2>1, SignsRevocation
  <2>3. \A u \in Tokens(refreshTokens) : root'[u] = root'[now] => u = t
    BY <1>inv, <2>1, <2>2, StoredIsToken
  <2>4. Knows(handler[h])'
    BY <1>5, <1>types, <2>1, <2>2, <2>3 DEF RefreshLoad, Knows, HasSigned, Renews, Moves
  <2> QED
    BY <1>5, <1>bound, <2>1, <2>4, SignedRevocation DEF RefreshLoad
<1>6. ASSUME NEW h \in Handler, RevokeLoad(h) PROVE RevocationInv'
  <2> DEFINE me == handler[h]
  <2>1. Moves(h, "revokeSave", me.op, refreshTokens, me.old, me.new)
    BY <1>6, <1>bound, RevokeLoadMoves
  <2>2. Knows(handler[h])'
    BY <1>6, <1>inv, <2>1 DEF RevokeLoad, history, Knows, HasSigned, Renews, Moves
  <2> QED
    BY <1>6, <1>bound, <2>1, <2>2, MovedRevocation DEF RevokeLoad, history
<1>stored. ASSUME NEW h \in Handler, handler[h].pc # "idle",
                  NEW pc, NEW op, NEW array, NEW old, NEW new,
                  Moves(h, pc, op, array, old, new),
                  Knows(handler[h])', UNCHANGED root,
                  given \subseteq given', \A t \in given' : root[t] # NoToken,
                  promised' \subseteq given', revoked' \subseteq given',
                  Tokens(refreshTokens') \subseteq given' \ revoked',
                  \A t, u \in Tokens(refreshTokens') : root[t] = root[u] => t = u
           PROVE  RevocationInv'
  <2>1. Alone' /\ \A g \in Handler : Knows(handler[g])'
    BY <1>stored, OnlyOneAtWork
  <2> QED
    BY <1>stored, <1>bound, <2>1 DEF RevocationInv
<1>7. ASSUME NEW h \in Handler, RevokeSave(h) PROVE RevocationInv'
  <2> DEFINE me == handler[h]
             kept == WithoutTokens(me.array, me.old)
  <2>1. /\ me.pc = "revokeSave" /\ me.array = refreshTokens /\ me.old \subseteq given
        /\ me.op \in { "refresh", "logout" }
    BY <1>7, <1>inv DEF RevokeSave, Knows
  <2>2. refreshTokens' = kept
    BY <1>7, <2>1 DEF RevokeSave
  <2>3. Tokens(refreshTokens') = Tokens(refreshTokens) \ me.old
    BY <1>types, <2>1, <2>2, WithoutTokensIs
  <2>4. given' = given /\ root' = root
    BY <1>7 DEF RevokeSave
  <2> HIDE DEF kept
  <2>5. CASE me.op = "refresh"
    <3>1. Moves(h, "reload", me.op, << >>, me.old, me.new)
      BY <1>7, <1>bound, <2>5, RevokeSaveMoves
    <3>2. revoked' = revoked /\ promised' = promised
      BY <1>7, <2>5 DEF RevokeSave
    <3>3. Knows(handler[h])'
      <4>1. /\ root[me.new] # NoToken /\ me.new \notin given
            /\ \A u \in Tokens(refreshTokens) : root[u] = root[me.new] => u \in me.old
        BY <1>inv, <2>1, <2>5 DEF Knows, HasSigned, Renews
      <4> QED
        BY <2>1, <2>3, <2>4, <3>1, <4>1 DEF Knows, HasSigned, Renews, Moves
    <3> QED
      BY <1>inv, <1>stored, <2>1, <2>3, <2>4, <3>1, <3>2, <3>3
  <2>6. CASE me.op # "refresh"
    <3>1. Moves(h, "idle", "none", << >>, {}, NoToken)
      BY <1>7, <1>bound, <2>6, MovesToIdle DEF RevokeSave
    <3>2. revoked' = revoked \cup me.old /\ promised' = promised \ me.old
      BY <1>7, <2>6 DEF RevokeSave
    <3>3. Knows(handler[h])'
      BY <3>1 DEF Knows, HasSigned, Renews, Moves
    <3> HIDE DEF me
    <3> QED
      BY <1>inv, <1>stored, <2>1, <2>3, <2>4, <3>1, <3>2, <3>3 DEF me
  <2> QED
    BY <2>5, <2>6
<1>8. ASSUME NEW h \in Handler, Reload(h) PROVE RevocationInv'
  <2> DEFINE me == handler[h]
             array == WithSession(refreshTokens, me.new)
  <2>1. me.pc = "reload" /\ me.new \in Token
    BY <1>8, <1>bound DEF Reload, BoundInv
  <2>2. Moves(h, "persistSave", me.op, array, me.old, me.new)
    BY <1>8, <1>bound, <2>1, ReloadMoves
  <2>3. Tokens(array) \subseteq Tokens(refreshTokens) \cup { me.new }
    BY <1>types, <2>1, WithSessionIs
  <2>4. UNCHANGED << refreshTokens, given, revoked, promised, root >>
    BY <1>8 DEF Reload, history
  <2>5. /\ me.old \subseteq given /\ root[me.new] # NoToken /\ me.new \notin given
        /\ \A u \in Tokens(refreshTokens) : u \notin me.old /\ root[u] # root[me.new]
    BY <1>inv, <2>1 DEF Knows, HasSigned
  <2> HIDE DEF array
  <2>6. Knows(handler[h])'
    BY <2>2, <2>3, <2>4, <2>5 DEF Knows, HasSigned, Renews, Moves
  <2> QED
    BY <1>bound, <2>1, <2>2, <2>4, <2>6, MovedRevocation
<1>9. ASSUME NEW h \in Handler, PersistSave(h) PROVE RevocationInv'
  <2> DEFINE me == handler[h]
  <2>1. /\ me.pc = "persistSave" /\ me.new \in Token /\ refreshTokens' = me.array
        /\ revoked' = (revoked \ { me.new }) \cup me.old
        /\ given' = given \cup { me.new } /\ root' = root
        /\ promised' \subseteq (promised \ me.old) \cup { me.new }
    BY <1>9, <1>bound DEF PersistSave, BoundInv, Newest
  <2>2. Moves(h, "idle", "none", << >>, {}, NoToken)
    BY <1>9, <1>bound, MovesToIdle DEF PersistSave
  <2>3. Knows(handler[h])'
    BY <2>2 DEF Knows, HasSigned, Renews, Moves
  <2>4. /\ me.old \subseteq given /\ root[me.new] # NoToken /\ me.new \notin given
        /\ \A u \in Tokens(me.array) \ { me.new } :
             u \in Tokens(refreshTokens) \ me.old /\ root[u] # root[me.new]
    BY <1>inv, <2>1 DEF Knows, HasSigned
  <2> HIDE DEF me
  <2>5. Tokens(refreshTokens') \subseteq given' \ revoked'
    BY <1>inv, <2>1, <2>4
  <2>6. \A t, u \in Tokens(refreshTokens') : root[t] = root[u] => t = u
    BY <1>inv, <2>1, <2>4
  <2> QED
    BY <1>inv, <1>stored, <2>1, <2>2, <2>3, <2>4, <2>5, <2>6 DEF me
<1>12. ASSUME NEW h \in Handler, ClearSave(h) PROVE RevocationInv'
  <2>1. /\ handler[h].pc = "clearSave" /\ handler[h].array = refreshTokens
        /\ handler[h].old \subseteq given
    BY <1>12, <1>inv DEF ClearSave, Knows
  <2>2. Moves(h, "idle", "none", << >>, {}, NoToken)
    BY <1>12, <1>bound, MovesToIdle DEF ClearSave
  <2>3. Knows(handler[h])'
    BY <2>2 DEF Knows, HasSigned, Renews, Moves
  <2>4. refreshTokens' = << >>
    BY <1>12, <2>1 DEF ClearSave
  <2>5. Tokens(refreshTokens') = {}
    BY <2>4, SessionShapes, TokensType
  <2>6. /\ revoked' = revoked \cup handler[h].old
        /\ promised' = promised \ handler[h].old /\ given' = given /\ root' = root
    BY <1>12 DEF ClearSave
  <2> QED
    BY <1>inv, <1>stored, <2>1, <2>2, <2>3, <2>5, <2>6
<1>10. ASSUME NEW h \in Handler, NEW t \in given, Logout(h, t) PROVE RevocationInv'
  <2>1. Moves(h, "revokeLoad", "logout", << >>, { t }, NoToken) /\ Accepts(h)
    BY <1>10, <1>bound, <1>types, LogoutMoves DEF Logout
  <2>2. Knows(handler[h])'
    BY <1>10, <2>1 DEF Logout, history, Knows, HasSigned, Renews, Moves
  <2> QED
    BY <1>10, <1>bound, <2>1, <2>2, MovedRevocation DEF Logout, history
<1>11. ASSUME NEW h \in Handler, LogoutAllLoad(h) PROVE RevocationInv'
  <2>1. Moves(h, "clearSave", "logoutAll", refreshTokens, promised, NoToken) /\ Accepts(h)
    BY <1>11, <1>bound, LogoutAllMoves DEF LogoutAllLoad
  <2>2. Knows(handler[h])'
    BY <1>11, <1>inv, <2>1 DEF LogoutAllLoad, history, Knows, HasSigned, Renews, Moves
  <2> QED
    BY <1>11, <1>bound, <2>1, <2>2, MovedRevocation DEF LogoutAllLoad, history
<1>13. ASSUME NEW h \in Handler, Abort(h) PROVE RevocationInv'
  BY <1>13, <1>bound, <1>idle, MovesToIdle DEF Abort, history
<1>14. ASSUME NEW b \in BOOLEAN, SetActive(b) PROVE RevocationInv'
  BY <1>14, <1>bound DEF SetActive, history, RevocationInv, Alone, Knows
<1>15. CASE Tick
  BY <1>15, <1>bound DEF Tick, history, RevocationInv, Alone, Knows
<1> QED
  BY <1>1, <1>2, <1>3, <1>4, <1>5, <1>6, <1>7, <1>8, <1>9, <1>10, <1>11, <1>12,
     <1>13, <1>14, <1>15 DEF Next, Unfailing, Step

LEMMA RevocationSafe == RevocationInv => RevokedRefused /\ OneSessionPerLogin
<1>1. RevocationInv => RevokedRefused
  <2> SUFFICES ASSUME RevocationInv, NEW t \in revoked, Accepted(t) PROVE FALSE
    BY DEF RevokedRefused
  <2>1. t \in Tokens(refreshTokens)
    BY DEF Accepted, IsValidSession, Tokens
  <2> QED
    BY <2>1 DEF RevocationInv
<1>2. RevocationInv => OneSessionPerLogin
  BY StoredIsToken DEF RevocationInv, OneSessionPerLogin
<1> QED
  BY <1>1, <1>2

\* One handler at a time, each second signing at most one token: a token that
\* was given up, by a logout or for a new one, is refused from then on, also
\* after a crash between two saves (auth.service.ts:175-192, 199-230).
THEOREM RevokedAlwaysRefused ==
  ASSUME ~ Overlap, ~ SameSecond
  PROVE  Spec => []RevokedRefused
BY RevocationSafe, InitRevocation, StepRevocation, PTL DEF Spec

\* Under the same conditions: a chain of rotations from one login never has
\* two sessions stored (refreshAccessToken revokes before it stores).
THEOREM LoginAlwaysOneSession ==
  ASSUME ~ Overlap, ~ SameSecond
  PROVE  Spec => []OneSessionPerLogin
BY RevocationSafe, InitRevocation, StepRevocation, PTL DEF Spec

\* Both of the above in the run, in each of the two worlds where handlers come
\* one at a time, whatever the third does: they share the variables, but a
\* behaviour never crosses over.
THEOREM RevocationAlwaysHolds ==
  ASSUME ~ Overlap, ~ SameSecond
  PROVE  WorldsSpec => []RevocationHolds
<1> DEFINE I == world # "race" => RevocationInv
<1>1. WorldsInit => I
  BY InitRevocation DEF WorldsInit, NoUser
<1>2. I /\ [WorldsNext]_<< vars, cacheVars, world >> => I'
  <2> SUFFICES ASSUME I, [WorldsNext]_<< vars, cacheVars, world >>, world' # "race"
               PROVE  RevocationInv'
    OBVIOUS
  <2>1. world # "race" /\ [Next]_vars
    BY DEF WorldsNext, Next
  <2> QED
    BY <2>1, StepRevocation
<1>3. I => RevocationHolds
  BY RevocationSafe DEF RevocationHolds, RevokedIsRefused, LoginIsOneSession
<1> QED
  BY <1>1, <1>2, <1>3, PTL DEF WorldsSpec

-----------------------------------------------------------------------------
(***************************************************************************)
(* One handler at a time and nothing fails: clients keep the sessions that *)
(* they were promised.                                                     *)
(***************************************************************************)
\* A session lasts at least as long as its token.
Lasts(array) ==
  \A i \in 1 .. Len(array) : array[i].expiresAt >= Expires(array[i].token)

\* Two sets with the same tokens that have not expired.
AgreeOnLive(tokens, others) ==
  \A t \in Token : now < Expires(t) => (t \in tokens <=> t \in others)

\* t is among the newest MAX_REFRESH_SESSIONS of the tokens.
IsTop(t, tokens) ==
  t \in tokens /\ Cardinality({ u \in tokens : u > t }) < MaxSessions

Top(tokens) == { t \in tokens : IsTop(t, tokens) }

Promises(me) ==
  /\ me.pc # "idle" => exists
  /\ HasSigned(me) => me.new <= now /\ \A t \in given : t < me.new
  /\ me.pc = "clearSave" => me.old = promised
  /\ me.pc = "reload" => AgreeOnLive(Tokens(refreshTokens), promised \ me.old)
  /\ me.pc = "persistSave" =>
       /\ Ascends(me.array) /\ Lasts(me.array)
       /\ AgreeOnLive(Tokens(me.array), Top((promised \ me.old) \cup { me.new }))

PromiseInv ==
  /\ RevocationInv
  /\ \A t \in Token : root[t] # NoToken => t <= now
  /\ Ascends(refreshTokens) /\ Lasts(refreshTokens)
  /\ ~ exists => refreshTokens = << >> /\ promised = {}
  /\ (\A h \in Handler : handler[h].pc \notin { "reload", "persistSave" }) =>
       AgreeOnLive(Tokens(refreshTokens), promised)
  /\ \A h \in Handler : Promises(handler[h])

\* Above the i-th of an ascending array there are as many tokens as follow.
LEMMA TokensAbove ==
  ASSUME NEW array \in Seq(Session), Ascends(array), NEW i \in 1 .. Len(array)
  PROVE  Cardinality({ u \in Tokens(array) : u > array[i].token }) = Len(array) - i
<1> DEFINE N == Len(array)
           After == i + 1 .. N
           Above == { u \in Tokens(array) : u > array[i].token }
           f == [j \in After |-> array[j].token]
<1>1. /\ N \in Nat
      /\ \A j \in 1 .. N : array[j] \in Session /\ array[j].token \in Nat
  <2>1. \A j \in 1 .. N : array[j] \in Session
    BY ElementOfSeq
  <2> QED
    BY <2>1 DEF Session, Token
<1>2. \A j \in After : j \in 1 .. N /\ i < j
  BY <1>1
<1>3. \A j, k \in 1 .. N : j < k => array[j].token < array[k].token
  BY DEF Ascends
<1>4. f \in [After -> Above]
  BY <1>1, <1>2, <1>3 DEF Tokens
<1>5. \A j, k \in After : f[j] = f[k] => j = k
  <2> SUFFICES ASSUME NEW j \in After, NEW k \in After, j # k PROVE f[j] # f[k]
    OBVIOUS
  <2>1. f[j] \in Nat /\ f[k] \in Nat
    BY <1>1, <1>2
  <2>2. j < k \/ k < j
    BY <1>2
  <2>3. f[j] < f[k] \/ f[k] < f[j]
    BY <1>2, <1>3, <2>2
  <2> QED
    BY <2>1, <2>3
<1>6. \A u \in Above : \E j \in After : f[j] = u
  <2> SUFFICES ASSUME NEW u \in Above PROVE \E j \in After : f[j] = u
    OBVIOUS
  <2>1. PICK j \in 1 .. N : array[j].token = u
    BY DEF Tokens
  <2>2. u > array[i].token /\ u \in Nat /\ array[i].token \in Nat
    BY <1>1, <2>1
  <2>3. ~ (j < i) /\ j # i
    BY <1>3, <2>1, <2>2
  <2>4. j \in After
    BY <1>1, <2>3
  <2> QED
    BY <2>1, <2>4
<1>7. ExistsBijection(After, Above)
  <2> HIDE DEF f, Above, After
  <2> QED
    BY <1>4, <1>5, <1>6 DEF ExistsBijection, Bijection, Injection, Surjection, IsInjective
<1>8. IsFiniteSet(After) /\ Cardinality(After) = N - i
  <2>1. i + 1 \in Int /\ N \in Int
    BY <1>1
  <2>2. /\ IsFiniteSet(i + 1 .. N)
        /\ Cardinality(i + 1 .. N) = IF i + 1 > N THEN 0 ELSE N - (i + 1) + 1
    BY <2>1, FS_Interval
  <2> QED
    BY <1>1, <2>2
<1> HIDE DEF After, Above
<1>9. Cardinality(Above) = Cardinality(After)
  BY <1>7, <1>8, FS_Bijection
<1> QED
  BY <1>8, <1>9 DEF Above

\* The trim of an ascending array keeps the newest.
LEMMA TrimmedTop ==
  ASSUME NEW array \in Seq(Session), Ascends(array), NEW t
  PROVE  t \in Tokens(Trimmed(array)) <=> IsTop(t, Tokens(array))
<1> DEFINE N == Len(array)
           d == Excess(array)
           r == Trimmed(array)
<1>1. /\ N \in Nat /\ d \in 0 .. N /\ Len(r) = N - d
      /\ \A k \in 1 .. Len(r) : r[k] = array[k + d] /\ k + d \in 1 .. N
      /\ \A i \in 1 .. N : N - i < MaxSessions <=> i > d
  <2>1. \A i \in 1 .. N : N - i < MaxSessions <=> i > d
    BY AuthAssumption DEF Excess
  <2>2. N \in Nat
    OBVIOUS
  <2> QED
    BY <2>1, <2>2, TrimmedIs
<1>2. \A i \in 1 .. N :
        Cardinality({ u \in Tokens(array) : u > array[i].token }) = N - i
  BY TokensAbove
<1> HIDE DEF r, d
<1>3. ASSUME t \in Tokens(r) PROVE IsTop(t, Tokens(array))
  <2>1. PICK k \in 1 .. Len(r) : t = r[k].token
    BY <1>3 DEF Tokens
  <2>2. k + d \in 1 .. N /\ t = array[k + d].token /\ k + d > d
    BY <1>1, <2>1
  <2>3. N - (k + d) < MaxSessions
    BY <1>1, <2>2
  <2>4. Cardinality({ u \in Tokens(array) : u > t }) < MaxSessions
    BY <1>2, <2>2, <2>3
  <2>5. t \in Tokens(array)
    BY <2>2 DEF Tokens
  <2> QED
    BY <2>4, <2>5 DEF IsTop
<1>4. ASSUME IsTop(t, Tokens(array)) PROVE t \in Tokens(r)
  <2>1. PICK i \in 1 .. N : t = array[i].token
    BY <1>4 DEF IsTop, Tokens
  <2>2. N - i < MaxSessions
    BY <1>2, <1>4, <2>1 DEF IsTop
  <2>3. i - d \in 1 .. Len(r) /\ (i - d) + d = i
    BY <1>1, <2>2
  <2>4. r[i - d].token = t
    BY <1>1, <2>1, <2>3
  <2> QED
    BY <2>3, <2>4 DEF Tokens
<1> QED
  BY <1>3, <1>4 DEF r

\* Above a live token there are live tokens only.
LEMMA LiveAbove ==
  ASSUME now \in Nat, NEW tokens \in SUBSET Token, NEW others \in SUBSET Token,
         AgreeOnLive(tokens, others), NEW t \in Token, now < Expires(t)
  PROVE  { u \in tokens : u > t } = { u \in others : u > t }
<1>1. \A u \in Token : u > t => now < Expires(u)
  BY AuthAssumption DEF Expires, Token
<1> QED
  BY <1>1 DEF AgreeOnLive

LEMMA TopAgrees ==
  ASSUME now \in Nat, NEW tokens \in SUBSET Token, NEW others \in SUBSET Token,
         AgreeOnLive(tokens, others)
  PROVE  AgreeOnLive(Top(tokens), Top(others))
<1> SUFFICES ASSUME NEW t \in Token, now < Expires(t)
             PROVE  t \in Top(tokens) <=> t \in Top(others)
  BY DEF AgreeOnLive
<1>1. { u \in tokens : u > t } = { u \in others : u > t }
  BY LiveAbove
<1>2. t \in tokens <=> t \in others
  BY DEF AgreeOnLive
<1> QED
  BY <1>1, <1>2 DEF Top, IsTop

LEMMA NewestAgrees ==
  ASSUME now \in Nat, NEW tokens \in SUBSET Token
  PROVE  AgreeOnLive(Newest(tokens), Top(tokens))
<1> SUFFICES ASSUME NEW t \in Token, now < Expires(t)
             PROVE  t \in Newest(tokens) <=> t \in Top(tokens)
  BY DEF AgreeOnLive
<1> DEFINE live == { u \in tokens : now < Expires(u) }
<1>1. live \in SUBSET Token /\ AgreeOnLive(live, tokens)
  BY DEF AgreeOnLive
<1>2. { u \in live : u > t } = { u \in tokens : u > t }
  BY <1>1, LiveAbove
<1>3. t \in Newest(tokens) <=> t \in live /\ Cardinality({ u \in live : u > t }) < MaxSessions
  BY DEF Newest
<1> QED
  BY <1>2, <1>3 DEF Top, IsTop

\* What persistRefreshToken saves are the newest of the sessions and the new.
LEMMA WithSessionTop ==
  ASSUME NEW array \in Seq(Session), Ascends(array), Lasts(array), now \in Token,
         NEW t \in Token, t <= now, \A u \in Tokens(array) : u < t
  PROVE  /\ Ascends(WithSession(array, t)) /\ Lasts(WithSession(array, t))
         /\ AgreeOnLive(Tokens(WithSession(array, t)), Top(Tokens(array) \cup { t }))
<1> DEFINE kept == Filtered(array, Live)
           s == [token |-> t, expiresAt |-> now + Lifetime]
           all == Append(kept, s)
           r == Trimmed(all)
<1>nat. now \in Nat /\ t \in Nat /\ Lifetime \in Nat
  BY AuthAssumption DEF Token
<1>1. s \in Session /\ s.token = t /\ s.expiresAt >= Expires(s.token)
  BY <1>nat, AuthAssumption DEF Session, Token, Expires
<1>2. kept \in Seq(Session) /\ Picks(kept, array, Len(array), Live)
  BY FilteredPicks
<1>3. WithSession(array, t) = r
  BY DEF WithSession
<1> HIDE DEF kept, s
<1>4. Tokens(kept) \subseteq Tokens(array) /\ Ascends(kept) /\ Lasts(kept)
  <2>1. \A j \in 1 .. Len(kept) : \E i \in 1 .. Len(array) : kept[j] = array[i]
    BY <1>2 DEF Picks
  <2>2. Tokens(kept) \subseteq Tokens(array)
    BY <2>1 DEF Tokens
  <2>3. Lasts(kept)
    BY <2>1 DEF Lasts
  <2> QED
    BY <1>2, <2>2, <2>3 DEF Picks
<1>5. /\ all \in Seq(Session) /\ Len(all) = Len(kept) + 1
      /\ Tokens(all) = Tokens(kept) \cup { t }
      /\ Ascends(all)
  BY <1>1, <1>2, <1>4, AppendedTokens
<1>6. \A i \in 1 .. Len(all) : all[i].expiresAt >= Expires(all[i].token)
  <2>1. /\ Len(kept) \in Nat /\ all[Len(kept) + 1] = s
        /\ \A i \in 1 .. Len(kept) : all[i] = kept[i]
    BY <1>1, <1>2, AppendProperties
  <2> HIDE DEF all
  <2> QED
    BY <1>1, <1>4, <1>5, <2>1 DEF Lasts
<1>7. AgreeOnLive(Tokens(all), Tokens(array) \cup { t })
  <2> SUFFICES ASSUME NEW u \in Token, now < Expires(u), u \in Tokens(array)
               PROVE  u \in Tokens(kept)
    BY <1>4, <1>5 DEF AgreeOnLive
  <2>1. PICK i \in 1 .. Len(array) : array[i].token = u
    BY DEF Tokens
  <2>2. array[i] \in Session /\ array[i].expiresAt \in Nat
    <3>1. array[i] \in Session
      BY ElementOfSeq
    <3> QED
      BY <3>1, AuthAssumption DEF Session
  <2>3. array[i].expiresAt >= Expires(u) /\ Expires(u) \in Nat
    BY <2>1, AuthAssumption DEF Lasts, Expires, Token
  <2>4. array[i] \in Live
    BY <1>nat, <2>2, <2>3 DEF Live
  <2>5. PICK j \in 1 .. Len(kept) : kept[j] = array[i]
    BY <1>2, <2>4 DEF Picks
  <2> QED
    BY <2>1, <2>5 DEF Tokens
<1> HIDE DEF all
<1>8. Tokens(all) \in SUBSET Token /\ Tokens(array) \cup { t } \in SUBSET Token
  BY <1>5, TokensType
<1>9. AgreeOnLive(Top(Tokens(all)), Top(Tokens(array) \cup { t }))
  BY <1>nat, <1>7, <1>8, TopAgrees
<1>10. AgreeOnLive(Tokens(r), Top(Tokens(all)))
  BY <1>5, TrimmedTop DEF AgreeOnLive, Top, IsTop
<1>11. Ascends(r)
  BY <1>5, TrimmedTokens
<1>12. Lasts(r)
  <2>1. \A i \in 1 .. Len(r) : r[i] = all[i + Excess(all)] /\ i + Excess(all) \in 1 .. Len(all)
    BY <1>5, TrimmedIs
  <2> HIDE DEF r
  <2> QED
    BY <1>6, <2>1 DEF Lasts
<1> QED
  BY <1>3, <1>9, <1>10, <1>11, <1>12 DEF AgreeOnLive

LEMMA InitPromise == Init => PromiseInv
<1> SUFFICES ASSUME Init PROVE PromiseInv
  OBVIOUS
<1>1. \A h \in Handler : handler[h].pc = "idle"
  BY SessionShapes, Zenon DEF Init
<1>2. refreshTokens = << >> /\ Len(refreshTokens) = 0 /\ Tokens(refreshTokens) = {}
  <2>1. refreshTokens = << >>
    BY DEF Init
  <2> QED
    BY <2>1, SessionShapes, EmptySeq, TokensType
<1>3. \A h \in Handler : Promises(handler[h])
  BY <1>1 DEF Promises, HasSigned, Renews
<1>4. \A t \in Token : root[t] = NoToken
  BY DEF Init
<1>5. promised = {}
  BY DEF Init
<1> QED
  BY <1>2, <1>3, <1>4, <1>5, InitRevocation DEF PromiseInv, Ascends, Lasts, AgreeOnLive

\* The others are idle and hold nothing.
LEMMA OthersPromise ==
  ASSUME ~ Overlap, RevocationInv, NEW h \in Handler,
         handler[h].pc # "idle" \/ Accepts(h),
         NEW pc, NEW op, NEW array, NEW old, NEW new, Moves(h, pc, op, array, old, new),
         Promises(handler[h])'
  PROVE  \A g \in Handler : Promises(handler[g])'
<1>1. \A g \in Handler \ { h } : handler'[g].pc = "idle"
  BY OnlyOneAtWork
<1>2. \A g \in Handler \ { h } : Promises(handler[g])'
  BY <1>1 DEF Promises, HasSigned, Renews
<1> QED
  BY <1>2

\* A new token is newer than all that are out.
LEMMA SignsPromise ==
  ASSUME ~ SameSecond, PromiseInv, NEW r \in given \cup { NoToken }, Signs(r)
  PROVE  /\ \A t \in given : t < now
         /\ \A t \in Token : root'[t] # NoToken => t <= now
<1>1. /\ now \in Token \ given
      /\ \A t \in given : t \in Token /\ root[t] # NoToken
      /\ \A t \in Token \ { now } : root'[t] = root[t]
  BY SignsRevocation DEF PromiseInv
<1>2. \A t \in Token : t \in Nat
  BY DEF Token
<1>3. \A t \in given : t <= now
  BY <1>1 DEF PromiseInv
<1> QED
  BY <1>1, <1>2, <1>3 DEF PromiseInv

\* A handler is about to store, with the clock where it was.
LEMMA ReadyToPersist ==
  ASSUME NEW h \in Handler, NEW op, NEW array, NEW old, NEW new, NEW kept,
         Moves(h, "persistSave", op, array, old, new), now' = now, given' = given,
         exists', new <= now, \A t \in given : t < new,
         Ascends(array), Lasts(array),
         kept = (promised' \ old) \cup { new }, AgreeOnLive(Tokens(array), Top(kept))
  PROVE  Promises(handler[h])'
<1>1. /\ handler'[h].pc = "persistSave" /\ handler'[h].array = array
      /\ handler'[h].old = old /\ handler'[h].new = new
  BY DEF Moves
<1>2. Ascends(handler[h].array)' /\ Lasts(handler[h].array)'
  BY <1>1 DEF Ascends, Lasts, Expires
<1>3. (promised' \ handler'[h].old) \cup { handler'[h].new } = kept
  BY <1>1
<1>4. AgreeOnLive(Tokens(handler[h].array),
                  Top((promised \ handler[h].old) \cup { handler[h].new }))'
  <2>1. Tokens(handler'[h].array) = Tokens(array)
    BY <1>1
  <2>2. Top((promised' \ handler'[h].old) \cup { handler'[h].new }) = Top(kept)
    BY <1>3
  <2> QED
    BY <2>1, <2>2 DEF AgreeOnLive, Expires
<1> QED
  BY <1>1, <1>2, <1>4 DEF Promises, HasSigned, Renews

LEMMA StepPromise ==
  ASSUME ~ Overlap, ~ SameSecond
  PROVE  PromiseInv /\ [Unfailing]_vars => PromiseInv'
<1> SUFFICES ASSUME PromiseInv, [Unfailing]_vars PROVE PromiseInv'
  OBVIOUS
<1>rev. RevocationInv /\ RevocationInv'
  BY StepRevocation DEF PromiseInv, Next
<1>bound. BoundInv /\ BoundInv'
  BY <1>rev DEF RevocationInv
<1>types. /\ refreshTokens \in Seq(Session) /\ Tokens(refreshTokens) \subseteq Token
          /\ given \subseteq Token /\ promised \subseteq given /\ promised \subseteq Token
          /\ Tokens(refreshTokens) \subseteq given
          /\ \A h \in Handler : handler[h].array \in Seq(Session)
          /\ now \in Token /\ now \in Nat
          /\ \A h \in Handler : Knows(handler[h])
  BY <1>rev, <1>bound, BoundTypes, TokensType DEF RevocationInv, Token
<1>inv. /\ \A t \in Token : root[t] # NoToken => t <= now
        /\ Ascends(refreshTokens) /\ Lasts(refreshTokens)
        /\ ~ exists => refreshTokens = << >> /\ promised = {}
        /\ (\A h \in Handler : handler[h].pc \notin { "reload", "persistSave" }) =>
             AgreeOnLive(Tokens(refreshTokens), promised)
        /\ \A h \in Handler : Promises(handler[h])
  BY DEF PromiseInv
<1>agree. ASSUME NEW h \in Handler, handler[h].pc # "idle" \/ Accepts(h),
                 handler[h].pc \notin { "reload", "persistSave" }
          PROVE  AgreeOnLive(Tokens(refreshTokens), promised)
  BY <1>agree, <1>inv, <1>rev DEF RevocationInv, Alone, Accepts
\* A handler moves on, and the stored sessions stay as they are.
<1>moved. ASSUME NEW h \in Handler, handler[h].pc # "idle" \/ Accepts(h),
                 handler[h].pc \notin { "reload", "persistSave" },
                 NEW pc, NEW op, NEW array, NEW old, NEW new,
                 Moves(h, pc, op, array, old, new), Promises(handler[h])', exists',
                 \A t \in Token : root'[t] # NoToken => t <= now,
                 UNCHANGED << refreshTokens, promised, now >>
          PROVE  PromiseInv'
  <2>1. \A g \in Handler : Promises(handler[g])'
    BY <1>moved, <1>rev, OthersPromise
  <2>2. AgreeOnLive(Tokens(refreshTokens), promised)'
    BY <1>moved, <1>agree DEF AgreeOnLive
  <2> QED
    BY <1>moved, <1>inv, <1>rev, <2>1, <2>2 DEF PromiseInv
<1>1. CASE UNCHANGED vars
  BY <1>1, <1>rev, <1>inv DEF vars, history, PromiseInv, Promises, AgreeOnLive
<1>2. ASSUME NEW h \in Handler, RegisterInsert(h) PROVE PromiseInv'
  <2> DEFINE array == WithSession(<< >>, now)
  <2>1. /\ Moves(h, "persistSave", "register", array, {}, now) /\ Accepts(h)
        /\ Signs(NoToken) /\ handler[h].pc = "idle"
        /\ exists' /\ UNCHANGED << refreshTokens, promised, now, given >>
        /\ promised = {}
    BY <1>2, <1>inv, <1>bound, RegisterMoves DEF RegisterInsert, Accepts
  <2>2. /\ \A t \in given : t < now
        /\ \A t \in Token : root'[t] # NoToken => t <= now
    BY <2>1, SignsPromise
  <2>3. /\ Ascends(array) /\ Lasts(array)
        /\ AgreeOnLive(Tokens(array), Top({ now }))
    <3>1. << >> \in Seq(Session) /\ Len(<< >>) = 0 /\ Tokens(<< >>) = {}
      BY SessionShapes, TokensType, EmptySeq
    <3> DEFINE none == << >>
    <3> HIDE DEF none
    <3>2. /\ none \in Seq(Session) /\ Ascends(none) /\ Lasts(none)
          /\ \A u \in Tokens(none) : u < now
          /\ Tokens(none) \cup { now } = { now }
      BY <3>1 DEF Ascends, Lasts, none
    <3>3. now <= now
      BY <1>types
    <3>4. /\ Ascends(WithSession(none, now)) /\ Lasts(WithSession(none, now))
          /\ AgreeOnLive(Tokens(WithSession(none, now)), Top(Tokens(none) \cup { now }))
      BY <1>types, <3>2, <3>3, WithSessionTop
    <3>5. WithSession(none, now) = array
      BY DEF none
    <3> HIDE DEF array
    <3> QED
      BY <3>2, <3>4, <3>5
  <2> HIDE DEF array
  <2>4. (promised' \ {}) \cup { now } = { now }
    BY <2>1
  <2>5. Promises(handler[h])'
    BY <1>types, <2>1, <2>2, <2>3, <2>4, ReadyToPersist
  <2> QED
    BY <1>moved, <2>1, <2>2, <2>5
<1>3. ASSUME NEW h \in Handler, LoginLoad(h) PROVE PromiseInv'
  <2>1. /\ Moves(h, "comparePassword", "login", refreshTokens, {}, NoToken) /\ Accepts(h)
        /\ handler[h].pc = "idle" /\ exists'
        /\ UNCHANGED << refreshTokens, promised, now, given, root >>
    BY <1>3, <1>bound, LoginMoves DEF LoginLoad, Accepts, history
  <2>2. Promises(handler[h])'
    BY <2>1 DEF Promises, HasSigned, Renews, Moves
  <2> QED
    BY <1>inv, <1>moved, <2>1, <2>2
<1>4. ASSUME NEW h \in Handler, ComparePassword(h) PROVE PromiseInv'
  <2>1. CASE Goes(h, Idle) /\ UNCHANGED history
    <3>1. /\ Moves(h, "idle", "none", << >>, {}, NoToken)
          /\ handler[h].pc = "comparePassword"
          /\ UNCHANGED << refreshTokens, promised, now, given, root, exists >>
      BY <1>4, <1>bound, <2>1, MovesToIdle DEF ComparePassword, history
    <3>2. Promises(handler[h])'
      BY <3>1 DEF Promises, HasSigned, Renews, Moves
    <3>3. exists'
      BY <1>inv, <3>1 DEF Promises
    <3> QED
      BY <1>inv, <1>moved, <3>1, <3>2, <3>3
  <2>2. CASE ~ (Goes(h, Idle) /\ UNCHANGED history)
    <3> DEFINE me == handler[h]
               array == WithSession(me.array, now)
    <3>1. /\ Moves(h, "persistSave", me.op, array, me.old, now) /\ Signs(NoToken)
          /\ me.pc = "comparePassword"
          /\ UNCHANGED << refreshTokens, promised, now, given, exists >>
      BY <1>4, <1>bound, <2>2, CompareMoves DEF ComparePassword
    <3>2. me.old = {} /\ me.array = refreshTokens
      BY <1>types, <3>1 DEF Knows
    <3>3. /\ \A t \in given : t < now
          /\ \A t \in Token : root'[t] # NoToken => t <= now
      BY <3>1, SignsPromise
    <3>4. /\ Ascends(array) /\ Lasts(array)
          /\ AgreeOnLive(Tokens(array), Top(Tokens(refreshTokens) \cup { now }))
      <4>0. \A u \in Tokens(refreshTokens) : u < now
        BY <1>types, <3>3, Zenon
      <4>1. now <= now /\ \A u \in Tokens(refreshTokens) : u < now
        BY <1>types, <4>0
      <4>2. /\ Ascends(WithSession(refreshTokens, now))
            /\ Lasts(WithSession(refreshTokens, now))
            /\ AgreeOnLive(Tokens(WithSession(refreshTokens, now)),
                           Top(Tokens(refreshTokens) \cup { now }))
        BY <1>types, <1>inv, <4>1, WithSessionTop
      <4> QED
        BY <3>2, <4>2
    <3> HIDE DEF array
    <3>5. AgreeOnLive(Tokens(refreshTokens) \cup { now }, promised \cup { now })
      BY <1>agree, <3>1 DEF AgreeOnLive
    <3>6. AgreeOnLive(Top(Tokens(refreshTokens) \cup { now }), Top(promised \cup { now }))
      BY <1>types, <3>5, TopAgrees
    <3>7. exists
      BY <1>inv, <3>1 DEF Promises
    <3>8. AgreeOnLive(Tokens(array), Top(promised \cup { now }))
      BY <3>4, <3>6 DEF AgreeOnLive
    <3>9. (promised' \ me.old) \cup { now } = promised \cup { now }
      BY <3>1, <3>2
    <3> HIDE DEF me
    <3>10. Promises(handler[h])'
      BY <1>types, <3>1, <3>3, <3>4, <3>7, <3>8, <3>9, ReadyToPersist
    <3> QED
      BY <1>moved, <3>1, <3>3, <3>7, <3>10 DEF me
  <2> QED
    BY <2>1, <2>2
<1>5. ASSUME NEW h \in Handler, NEW t \in given, RefreshLoad(h, t) PROVE PromiseInv'
  <2>1. /\ Moves(h, "revokeLoad", "refresh", << >>, { t }, now) /\ Accepts(h) /\ Signs(t)
        /\ handler[h].pc = "idle" /\ exists'
        /\ UNCHANGED << refreshTokens, promised, now, given >>
    BY <1>5, <1>bound, <1>types, RefreshMoves DEF RefreshLoad, Accepts, Accepted
  <2>2. /\ \A u \in given : u < now
        /\ \A u \in Token : root'[u] # NoToken => u <= now
    BY <2>1, SignsPromise
  <2>3. Promises(handler[h])'
    BY <1>types, <2>1, <2>2 DEF Promises, HasSigned, Renews, Moves
  <2> QED
    BY <1>moved, <2>1, <2>2, <2>3
<1>6. ASSUME NEW h \in Handler, RevokeLoad(h) PROVE PromiseInv'
  <2> DEFINE me == handler[h]
  <2>1. /\ Moves(h, "revokeSave", me.op, refreshTokens, me.old, me.new)
        /\ me.pc = "revokeLoad"
        /\ UNCHANGED << refreshTokens, promised, now, given, root, exists >>
    BY <1>6, <1>bound, RevokeLoadMoves DEF RevokeLoad, history
  <2>2. Promises(me)
    BY <1>inv
  <2>3. Promises(handler[h])' /\ exists'
    BY <2>1, <2>2 DEF Promises, HasSigned, Renews, Moves
  <2> QED
    BY <1>inv, <1>moved, <2>1, <2>3
\* A handler has stored, answers, and is idle again.
<1>stored. ASSUME NEW h \in Handler, handler[h].pc # "idle",
                  Moves(h, "idle", "none", << >>, {}, NoToken),
                  UNCHANGED << now, root, exists >>,
                  Ascends(refreshTokens'), Lasts(refreshTokens'),
                  AgreeOnLive(Tokens(refreshTokens'), promised')
           PROVE  PromiseInv'
  <2>1. Promises(handler[h])'
    BY <1>stored DEF Promises, HasSigned, Renews, Moves
  <2>2. \A g \in Handler : Promises(handler[g])'
    BY <1>stored, <1>rev, <2>1, OthersPromise
  <2>3. exists'
    BY <1>inv, <1>stored DEF Promises
  <2>4. AgreeOnLive(Tokens(refreshTokens), promised)'
    BY <1>stored DEF AgreeOnLive, Expires
  <2>5. Ascends(refreshTokens)' /\ Lasts(refreshTokens)'
    BY <1>stored DEF Ascends, Lasts, Expires
  <2> QED
    BY <1>stored, <1>inv, <1>rev, <2>2, <2>3, <2>4, <2>5 DEF PromiseInv
<1>7. ASSUME NEW h \in Handler, RevokeSave(h) PROVE PromiseInv'
  <2> DEFINE me == handler[h]
             kept == WithoutTokens(me.array, me.old)
  <2>1. /\ me.pc = "revokeSave" /\ me.array = refreshTokens
        /\ now' = now /\ given' = given /\ root' = root /\ exists' = exists
    BY <1>7, <1>types DEF RevokeSave, Knows
  <2>2. refreshTokens' = kept
    BY <1>7, <2>1 DEF RevokeSave
  <2>3. /\ kept \in Seq(Session) /\ Tokens(kept) = Tokens(refreshTokens) \ me.old
        /\ Ascends(kept)
        /\ \A j \in 1 .. Len(kept) : \E i \in 1 .. Len(refreshTokens) : kept[j] = refreshTokens[i]
    BY <1>types, <1>inv, <2>1, WithoutTokensIs
  <2> HIDE DEF kept
  <2>4. Lasts(kept)
    BY <1>inv, <2>3 DEF Lasts
  <2>5. AgreeOnLive(Tokens(refreshTokens'), promised \ me.old)
    BY <1>agree, <2>1, <2>2, <2>3 DEF AgreeOnLive
  <2>6. CASE me.op # "refresh"
    <3>1. Moves(h, "idle", "none", << >>, {}, NoToken)
      BY <1>7, <1>bound, <2>6, MovesToIdle DEF RevokeSave
    <3>2. promised' = promised \ me.old
      BY <1>7, <2>6 DEF RevokeSave
    <3> QED
      BY <1>stored, <2>1, <2>2, <2>3, <2>4, <2>5, <3>1, <3>2
  <2>7. CASE me.op = "refresh"
    <3>1. Moves(h, "reload", me.op, << >>, me.old, me.new)
      BY <1>7, <1>bound, <2>7, RevokeSaveMoves
    <3>2. promised' = promised
      BY <1>7, <2>7 DEF RevokeSave
    <3>3. me.new <= now /\ (\A t \in given : t < me.new) /\ exists
      BY <1>inv, <2>1, <2>7 DEF Promises, HasSigned, Renews
    <3>4. AgreeOnLive(Tokens(refreshTokens), promised \ handler[h].old)'
      BY <2>1, <2>5, <3>1, <3>2 DEF AgreeOnLive, Expires, Moves
    <3>5. Promises(handler[h])'
      BY <2>1, <3>1, <3>3, <3>4 DEF Promises, HasSigned, Renews, Moves
    <3>6. \A g \in Handler : Promises(handler[g])'
      BY <1>rev, <2>1, <3>1, <3>5, OthersPromise
    <3>7. Ascends(refreshTokens)' /\ Lasts(refreshTokens)'
      BY <2>2, <2>3, <2>4 DEF Ascends, Lasts, Expires
    <3>8. handler'[h].pc = "reload"
      BY <3>1 DEF Moves
    <3> QED
      BY <1>inv, <1>rev, <2>1, <3>3, <3>6, <3>7, <3>8 DEF PromiseInv
  <2> QED
    BY <2>6, <2>7
<1>8. ASSUME NEW h \in Handler, Reload(h) PROVE PromiseInv'
  <2> DEFINE me == handler[h]
             array == WithSession(refreshTokens, me.new)
             kept == (promised \ me.old) \cup { me.new }
  <2>1. me.pc = "reload" /\ me.new \in Token
    BY <1>8, <1>bound DEF Reload, BoundInv
  <2>2. /\ Moves(h, "persistSave", me.op, array, me.old, me.new)
        /\ UNCHANGED << exists, refreshTokens, now, given, promised, root >>
    BY <1>8, <1>bound, <2>1, ReloadMoves DEF Reload, history
  <2>3. /\ me.new <= now /\ (\A t \in given : t < me.new) /\ exists
        /\ AgreeOnLive(Tokens(refreshTokens), promised \ me.old)
    BY <1>inv, <2>1 DEF Promises, HasSigned
  <2>4. \A u \in Tokens(refreshTokens) : u < me.new
    BY <1>types, <2>3
  <2>5. /\ Ascends(array) /\ Lasts(array)
        /\ AgreeOnLive(Tokens(array), Top(Tokens(refreshTokens) \cup { me.new }))
    BY <1>types, <1>inv, <2>1, <2>3, <2>4, WithSessionTop
  <2> HIDE DEF array
  <2>6. AgreeOnLive(Tokens(refreshTokens) \cup { me.new }, kept)
    BY <2>3 DEF AgreeOnLive
  <2>7. AgreeOnLive(Top(Tokens(refreshTokens) \cup { me.new }), Top(kept))
    BY <1>types, <2>1, <2>6, TopAgrees
  <2>8. AgreeOnLive(Tokens(array), Top(kept))
    BY <2>5, <2>7 DEF AgreeOnLive
  <2>9. Promises(handler[h])'
    BY <2>2, <2>3, <2>5, <2>8, ReadyToPersist
  <2>10. \A g \in Handler : Promises(handler[g])'
    BY <1>rev, <2>1, <2>2, <2>9, OthersPromise
  <2>11. handler'[h].pc = "persistSave"
    BY <2>2 DEF Moves
  <2>12. Ascends(refreshTokens)' /\ Lasts(refreshTokens)'
    BY <1>inv, <2>2 DEF Ascends, Lasts, Expires
  <2> QED
    BY <1>inv, <1>rev, <2>2, <2>3, <2>10, <2>11, <2>12 DEF PromiseInv
<1>9. ASSUME NEW h \in Handler, PersistSave(h) PROVE PromiseInv'
  <2> DEFINE me == handler[h]
             kept == (promised \ me.old) \cup { me.new }
  <2>1. /\ me.pc = "persistSave" /\ me.new \in Token /\ refreshTokens' = me.array
        /\ promised' = Newest(kept) /\ UNCHANGED << now, root, exists >>
    BY <1>9, <1>bound DEF PersistSave, BoundInv
  <2>2. Moves(h, "idle", "none", << >>, {}, NoToken)
    BY <1>9, <1>bound, MovesToIdle DEF PersistSave
  <2>3. /\ Ascends(me.array) /\ Lasts(me.array)
        /\ AgreeOnLive(Tokens(me.array), Top(kept))
    BY <1>inv, <2>1 DEF Promises
  <2>4. AgreeOnLive(Newest(kept), Top(kept))
    BY <1>types, <2>1, NewestAgrees
  <2>5. AgreeOnLive(Tokens(refreshTokens'), promised')
    BY <2>1, <2>3, <2>4 DEF AgreeOnLive
  <2> HIDE DEF me
  <2> QED
    BY <1>stored, <2>1, <2>2, <2>3, <2>5 DEF me
<1>12. ASSUME NEW h \in Handler, ClearSave(h) PROVE PromiseInv'
  <2>1. handler[h].pc = "clearSave" /\ handler[h].array = refreshTokens
    BY <1>12, <1>types DEF ClearSave, Knows
  <2>2. Moves(h, "idle", "none", << >>, {}, NoToken) /\ UNCHANGED << now, root, exists >>
    BY <1>12, <1>bound, MovesToIdle DEF ClearSave
  <2>3. refreshTokens' = << >>
    BY <1>12, <2>1 DEF ClearSave
  <2>4. Tokens(refreshTokens') = {} /\ Len(refreshTokens') = 0
    BY <2>3, SessionShapes, TokensType, EmptySeq
  <2>5. promised' = {}
    BY <1>12, <1>inv, <2>1 DEF ClearSave, Promises
  <2>6. /\ Ascends(refreshTokens') /\ Lasts(refreshTokens')
        /\ AgreeOnLive(Tokens(refreshTokens'), promised')
    BY <2>4, <2>5 DEF Ascends, Lasts, AgreeOnLive
  <2> QED
    BY <1>stored, <2>1, <2>2, <2>6
<1>10. ASSUME NEW h \in Handler, NEW t \in given, Logout(h, t) PROVE PromiseInv'
  <2>1. /\ Moves(h, "revokeLoad", "logout", << >>, { t }, NoToken) /\ Accepts(h)
        /\ handler[h].pc = "idle" /\ exists'
        /\ UNCHANGED << refreshTokens, promised, now, given, root >>
    BY <1>10, <1>bound, <1>types, LogoutMoves DEF Logout, Accepts, history
  <2>2. Promises(handler[h])'
    BY <2>1 DEF Promises, HasSigned, Renews, Moves
  <2> QED
    BY <1>inv, <1>moved, <2>1, <2>2
<1>11. ASSUME NEW h \in Handler, LogoutAllLoad(h) PROVE PromiseInv'
  <2>1. /\ Moves(h, "clearSave", "logoutAll", refreshTokens, promised, NoToken) /\ Accepts(h)
        /\ handler[h].pc = "idle" /\ exists'
        /\ UNCHANGED << refreshTokens, promised, now, given, root >>
    BY <1>11, <1>bound, LogoutAllMoves DEF LogoutAllLoad, Accepts, history
  <2>2. Promises(handler[h])'
    BY <2>1 DEF Promises, HasSigned, Renews, Moves
  <2> QED
    BY <1>inv, <1>moved, <2>1, <2>2
<1>14. ASSUME NEW b \in BOOLEAN, SetActive(b) PROVE PromiseInv'
  BY <1>14, <1>rev, <1>inv DEF SetActive, history, PromiseInv, Promises, AgreeOnLive
<1>15. CASE Tick
  <2>1. /\ now' = now + 1
        /\ UNCHANGED << exists, refreshTokens, handler, given, promised, root >>
    BY <1>15 DEF Tick, history
  <2>2. \A t \in Token : t \in Nat /\ Expires(t) \in Nat
    BY AuthAssumption DEF Token, Expires
  <2>3. ASSUME NEW tokens, NEW others, AgreeOnLive(tokens, others)
        PROVE  \A t \in Token : now' < Expires(t) => (t \in tokens <=> t \in others)
    BY <1>types, <2>1, <2>2, <2>3 DEF AgreeOnLive
  <2>4. \A t \in Token : root'[t] # NoToken => t <= now'
    BY <1>inv, <1>types, <2>1, <2>2
  <2>5. ASSUME NEW h \in Handler PROVE Promises(handler[h])'
    <3>1. HasSigned(handler[h]) => handler[h].new \in Token
      BY <1>bound DEF BoundInv, HasSigned, Renews
    <3> DEFINE me == handler[h]
    <3>2. handler'[h] = me /\ Promises(me)
      BY <1>inv, <2>1
    <3>3. HasSigned(me) => me.new <= now' /\ (\A t \in given : t < me.new)
      <4>1. HasSigned(me) => me.new <= now /\ me.new \in Nat
        BY <2>2, <3>1, <3>2 DEF Promises
      <4>2. HasSigned(me) => me.new <= now'
        BY <1>types, <2>1, <4>1
      <4>3. HasSigned(me) => \A t \in given : t < me.new
        BY <3>2 DEF Promises
      <4> QED
        BY <4>2, <4>3
    <3>4. me.pc = "reload" => AgreeOnLive(Tokens(refreshTokens), promised \ me.old)'
      <4>1. me.pc = "reload" => AgreeOnLive(Tokens(refreshTokens), promised \ me.old)
        BY <3>2 DEF Promises
      <4>2. me.pc = "reload" =>
              \A t \in Token : now' < Expires(t) =>
                (t \in Tokens(refreshTokens) <=> t \in promised \ me.old)
        BY <2>3, <4>1
      <4>3. Tokens(refreshTokens') = Tokens(refreshTokens) /\ promised' = promised
        BY <2>1
      <4> QED
        BY <3>2, <4>2, <4>3 DEF AgreeOnLive, Expires
    <3>5. me.pc = "persistSave" =>
            AgreeOnLive(Tokens(me.array), Top((promised \ me.old) \cup { me.new }))'
      <4> DEFINE kept == (promised \ me.old) \cup { me.new }
      <4>1. me.pc = "persistSave" => AgreeOnLive(Tokens(me.array), Top(kept))
        BY <3>2 DEF Promises
      <4>2. me.pc = "persistSave" =>
              \A t \in Token : now' < Expires(t) => (t \in Tokens(me.array) <=> t \in Top(kept))
        BY <2>3, <4>1
      <4>3. Tokens(handler'[h].array) = Tokens(me.array)
        BY <3>2
      <4>4. Top((promised' \ handler'[h].old) \cup { handler'[h].new }) = Top(kept)
        BY <2>1, <3>2
      <4> QED
        BY <4>2, <4>3, <4>4 DEF AgreeOnLive, Expires
    <3> QED
      BY <2>1, <3>2, <3>3, <3>4, <3>5
      DEF Promises, HasSigned, Renews, Lasts, Ascends, Expires
  <2> QED
    BY <1>inv, <1>rev, <2>1, <2>3, <2>4, <2>5 DEF PromiseInv, AgreeOnLive
<1> QED
  BY <1>1, <1>2, <1>3, <1>4, <1>5, <1>6, <1>7, <1>8, <1>9, <1>10, <1>11, <1>12,
     <1>14, <1>15 DEF Unfailing, Step

LEMMA PromiseKept == PromiseInv => SessionsAsPromised
<1> SUFFICES ASSUME PromiseInv, \A h \in Handler : handler[h].pc = "idle",
                    NEW t \in Token, now < Expires(t)
             PROVE  IsValidSession(refreshTokens, t) <=> t \in promised
  BY BoundTypes DEF SessionsAsPromised, IsValidSession, PromiseInv, RevocationInv
<1>1. AgreeOnLive(Tokens(refreshTokens), promised) /\ Lasts(refreshTokens)
  BY DEF PromiseInv
<1>2. t \in Tokens(refreshTokens) <=> t \in promised
  BY <1>1 DEF AgreeOnLive
<1>3. refreshTokens \in Seq(Session) /\ now \in Nat
  BY BoundTypes DEF PromiseInv, RevocationInv, Token
<1>4. \A i \in 1 .. Len(refreshTokens) :
        refreshTokens[i].token = t => refreshTokens[i].expiresAt > now
  <2> SUFFICES ASSUME NEW i \in 1 .. Len(refreshTokens), refreshTokens[i].token = t
               PROVE  refreshTokens[i].expiresAt > now
    OBVIOUS
  <2>1. refreshTokens[i] \in Session
    BY <1>3, ElementOfSeq
  <2>2. refreshTokens[i].expiresAt \in Nat /\ Expires(t) \in Nat
    BY <2>1, AuthAssumption DEF Session, Expires, Token
  <2>3. refreshTokens[i].expiresAt >= Expires(t)
    BY <1>1 DEF Lasts
  <2> QED
    BY <1>3, <2>2, <2>3
<1> QED
  BY <1>2, <1>4 DEF IsValidSession, Tokens

\* One handler at a time, each second signing at most one token, and nothing
\* fails: no session is lost or kept too long. The tokens that would be
\* accepted are those that were given out, not given up, have not expired and
\* are among the newest MAX_REFRESH_SESSIONS (auth.service.ts:68-90).
THEOREM SessionsAlwaysAsPromised ==
  ASSUME ~ Overlap, ~ SameSecond, ~ Faults
  PROVE  Spec => []SessionsAsPromised
<1>1. PromiseInv /\ [Next]_vars => PromiseInv'
  BY StepPromise DEF Next, Abort
<1> QED
  BY <1>1, InitPromise, PromiseKept, PTL DEF Spec

\* The same in the run, whatever its other worlds do: they share the variables,
\* but a behaviour never crosses over.
THEOREM PromiseIsAlwaysKept ==
  ASSUME ~ Overlap, ~ SameSecond
  PROVE  WorldsSpec => []PromiseIsKept
<1> DEFINE I == world = "calm" => PromiseInv
<1>1. WorldsInit => I
  BY InitPromise DEF WorldsInit
<1>2. I /\ [WorldsNext]_<< vars, cacheVars, world >> => I'
  <2> SUFFICES ASSUME I, [WorldsNext]_<< vars, cacheVars, world >>, world' = "calm"
               PROVE  PromiseInv'
    OBVIOUS
  <2>1. world = "calm" /\ [Unfailing]_vars
    BY DEF WorldsNext
  <2> QED
    BY <2>1, StepPromise
<1>3. I => PromiseIsKept
  BY PromiseKept DEF PromiseIsKept
<1> QED
  BY <1>1, <1>2, <1>3, PTL DEF WorldsSpec

=============================================================================
