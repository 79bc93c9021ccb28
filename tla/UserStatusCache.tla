-------------------------- MODULE UserStatusCache --------------------------
(***************************************************************************)
(* Who may call the HTTP API: authenticate (auth.middleware.ts) asks       *)
(* resolveActiveUser (user-status-cache.ts), a cache of one process over   *)
(* the user's stored isActive; an admin's updateUserStatus changes the     *)
(* stored status and invalidates the entry of ITS process.  Entries of     *)
(* different users are independent, so the module has one user.            *)
(*                                                                         *)
(* A lookup that misses is three steps: it reads the clock and asks the    *)
(* database; the database answers; the answer is put into the cache.       *)
(***************************************************************************)
EXTENDS Naturals

CONSTANTS
  Instance,     \* processes behind the load balancer
  Caller,       \* slots for handlers in flight
  NoInstance,   \* null
  TTL,          \* CACHE_TTL_MS, in ticks
  CacheOverlap, \* may an update and a lookup be in flight together?
  ClockEnd      \* bound on the clock

ASSUME CacheAssumption ==
  /\ NoInstance \notin Instance
  /\ TTL \in Nat \ {0}
  /\ ClockEnd \in Nat
  /\ CacheOverlap \in BOOLEAN

Status == { "active", "inactive" }

VARIABLES
  status,       \* the stored isActive
  cache,        \* cache[i]: the entry in the Map of process i
  clock,        \* Date.now()
  caller,       \* caller[h]: what the handler in slot h holds
  lastSeen,     \* history: the last time at which each status was stored
  verdict       \* history: the last decision of authenticate

cacheVars == << status, cache, clock, caller, lastSeen, verdict >>

Entry == [ value : Status, expiresAt : Nat ]

\* Map.get of a key that is not there: an entry that has expired.
Missing == [ value |-> "inactive", expiresAt |-> 0 ]

CallerState ==
  [ pc    : { "idle", "find", "found", "update", "invalidate" },
    at    : Instance \cup { NoInstance },
    start : Nat,                          \* `now' in its code
    value : Status ]                      \* the status read, or to be stored

IdleCaller == [ pc |-> "idle", at |-> NoInstance, start |-> 0, value |-> "inactive" ]

CallerGoes(h, local) == caller' = [caller EXCEPT ![h] = local]

CacheAccepts(h) ==
  /\ caller[h].pc = "idle"
  /\ CacheOverlap \/ \A g \in Caller : caller[g].pc = "idle"

\* authenticate lets the call through, or answers 401.
Decide(value, start) ==
  verdict' = [value |-> value, start |-> start, at |-> clock,
              seen |-> lastSeen[value]]

\* Time 0 is "never": the clock starts a time to live later.
CacheInit ==
  /\ status = "active"
  /\ cache = [i \in Instance |-> Missing]
  /\ clock = TTL
  /\ caller = [h \in Caller |-> IdleCaller]
  /\ lastSeen = [s \in Status |-> IF s = status THEN TTL ELSE 0]
  /\ verdict = [value |-> "active", start |-> TTL, at |-> TTL, seen |-> TTL]

-----------------------------------------------------------------------------
Hit(i) == cache[i].expiresAt > clock

\* A fresh entry decides at once, without the database.
LookupHit(h, i) ==
  /\ CacheAccepts(h)
  /\ Hit(i)
  /\ Decide(cache[i].value, clock)
  /\ UNCHANGED << status, cache, clock, caller, lastSeen >>

LookupMiss(h, i) ==
  /\ CacheAccepts(h)
  /\ ~ Hit(i)
  /\ CallerGoes(h, [pc |-> "find", at |-> i, start |-> clock, value |-> "inactive"])
  /\ UNCHANGED << status, cache, clock, lastSeen, verdict >>

Find(h) ==
  /\ caller[h].pc = "find"
  /\ CallerGoes(h, [caller[h] EXCEPT !.pc = "found", !.value = status])
  /\ UNCHANGED << status, cache, clock, lastSeen, verdict >>

\* Mutated: the time to live is counted from the answer.
FilledEntry_FromAnswer(local) == [value |-> local.value, expiresAt |-> clock + TTL]

FilledEntry(local) == [value |-> local.value, expiresAt |-> local.start + TTL]

Fill(h) ==
  LET me == caller[h] IN
  /\ me.pc = "found"
  /\ cache' = [cache EXCEPT ![me.at] = FilledEntry(me)]
  /\ Decide(me.value, me.start)
  /\ CallerGoes(h, IdleCaller)
  /\ UNCHANGED << status, clock, lastSeen >>

\* The read fails: authenticate answers with an error and caches nothing.
FindFails(h) ==
  /\ caller[h].pc = "find"
  /\ CallerGoes(h, IdleCaller)
  /\ UNCHANGED << status, cache, clock, lastSeen, verdict >>

-----------------------------------------------------------------------------
(***************************************************************************)
(* updateUserStatus                                                        *)
(***************************************************************************)
UpdateStart(h, i, s) ==
  /\ CacheAccepts(h)
  /\ CallerGoes(h, [pc |-> "update", at |-> i, start |-> 0, value |-> s])
  /\ UNCHANGED << status, cache, clock, lastSeen, verdict >>

UpdateById(h) ==
  LET me == caller[h] IN
  /\ me.pc = "update"
  /\ status' = me.value
  /\ lastSeen' = [lastSeen EXCEPT ![status] = clock, ![me.value] = clock]
  /\ CallerGoes(h, [me EXCEPT !.pc = "invalidate"])
  /\ UNCHANGED << cache, clock, verdict >>

\* Mutated: the entry is left to expire.
Invalidate_NotAtAll(h) ==
  /\ caller[h].pc = "invalidate"
  /\ CallerGoes(h, IdleCaller)
  /\ UNCHANGED << status, cache, clock, lastSeen, verdict >>

Invalidate(h) ==
  /\ caller[h].pc = "invalidate"
  /\ cache' = [cache EXCEPT ![caller[h].at] = Missing]
  /\ CallerGoes(h, IdleCaller)
  /\ UNCHANGED << status, clock, lastSeen, verdict >>

\* A process restarts: its Map is empty again, its handlers are gone.
Restart(i) ==
  /\ cache' = [cache EXCEPT ![i] = Missing]
  /\ caller' = [h \in Caller |-> IF caller[h].at = i THEN IdleCaller ELSE caller[h]]
  /\ UNCHANGED << status, clock, lastSeen, verdict >>

ClockTick ==
  /\ clock < ClockEnd
  /\ clock' = clock + 1
  /\ lastSeen' = [lastSeen EXCEPT ![status] = clock + 1]
  /\ UNCHANGED << status, cache, caller, verdict >>

CacheNext ==
  \/ \E h \in Caller :
       \/ \E i \in Instance :
            \/ LookupHit(h, i)
            \/ LookupMiss(h, i)
            \/ \E s \in Status : UpdateStart(h, i, s)
       \/ Find(h) \/ Fill(h) \/ FindFails(h)
       \/ UpdateById(h) \/ Invalidate(h)
  \/ \E i \in Instance : Restart(i)
  \/ ClockTick

CacheSpec == CacheInit /\ [][CacheNext]_cacheVars

-----------------------------------------------------------------------------
(***************************************************************************)
(* Properties                                                              *)
(***************************************************************************)
\* Statuses, entries, times and what handlers hold have the shapes of
\* user-status-cache.ts.
CacheTypeOK ==
  /\ status \in Status
  /\ cache \in [Instance -> Entry]
  /\ clock \in Nat
  /\ caller \in [Caller -> CallerState]
  /\ lastSeen \in [Status -> Nat]
  /\ verdict \in [value : Status, start : Nat, at : Nat, seen : Nat]

\* A decision is never made on a status older than the time to live: the
\* user had the status it was made on after the call began, or less than TTL
\* before the decision, in every process, whatever lookups and updates are in
\* flight and however late the database answers (user-status-cache.ts:18-40
\* takes `now' before the read).
BoundedStaleness ==
  verdict.seen >= verdict.start \/ verdict.at < verdict.seen + TTL

\* With one process, and no lookup in flight while an admin changes the user,
\* a change shows at once: what the cache would answer is what is stored
\* (admin.service.ts:104-110).
CoherentWhenQuiet ==
  (\A h \in Caller : caller[h].pc = "idle") =>
    \A i \in Instance : Hit(i) => cache[i].value = status

=============================================================================
