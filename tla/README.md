# RoadGuard backend: a TLA+ verification project

This directory holds TLA+ models of the RoadGuard roadside-assistance backend
(`src/apps/api` and the packages it uses), the TLC configurations that check
them on small instances, and theorems about them that TLAPS proves for
instances of any size. `PROJECT.json` maps every definition to the lines it
models. Paths below are relative to `src/apps/api/src/` unless they start with
`src/` or `docs/` (which stands for `src/docs/`).

## 1. The system

One Node.js process (or several behind a load balancer) serves HTTP and
Socket.IO over MongoDB. Everything is an `async` function on one event loop:
between two `await`s a handler runs alone, at an `await` any other handler may
run. No transaction is used anywhere, documents carry no version key
(`src/packages/database/src/schemas/base.schema.ts:4-7`), and most writes are
*load a document, await other things, edit it, `save()`*. That, rather than
threads, is where the difficulty of this code is. The other directories of
`src/apps` are generated scaffolds without behaviour.

| Component | State it keeps | Operations | Interacts with | What is hard |
|---|---|---|---|---|
| Dispatch engine (`modules/breakdown-requests`) | `breakdownrequests` documents: status, assigned provider, times | `createRequest`, `updateStatus`, `assignProvider`, `cancelRequest` | writes `providers`; emits notifications and socket events | stale documents saved after several awaits; two documents written without a transaction |
| Provider profiles (`modules/providers`) | `providers` documents: availability, online, KYC, completed count, bank details | `onboardProvider`, `updateAvailability`, `updateKycStatus`, `updateLocation`, profile edits | read and written by dispatch; KYC by admins | KYC checked before an await; two writers of one document |
| Provider search | none (one query per preferred type) | `findNearbyWithDistance`, `findNearestEligibleProvider` | called by dispatch | providers change between the queries; ties, two radii, the limit of a query |
| Sessions (`modules/auth`) | `users.refreshTokens`, an array saved as a whole | register, login, refresh, logout, logout everywhere | users; access tokens | lost updates of the array, double rotation, session cap |
| Access control (`middlewares/`) | in-memory status cache with a 60 s TTL | `resolveActiveUser`, `invalidate` | admin's `updateUserStatus` | a lookup in flight fills the cache after its invalidation |
| Notifications (`modules/notifications`) | `notifications` documents, unread count | deliver, mark read, mark all read | called at the end of dispatch handlers, which do not wait; pushes to sockets | READ overwritten by DELIVERED; counts emitted out of order; one failed step and those after it |
| Presence (`realtime/`) | in-memory sessions, online providers, heartbeats | connect, disconnect, heartbeat, provider:online/offline, sweep | provider profiles | events after disconnect, several sockets of one user |
| Tracking and rooms (`realtime/`) | last write per provider; room membership | location update; join/leave | provider profiles; dispatch | throttle read before and set after an await; membership checked once |
| Socket rate limiter | fixed window counters | `check`, `clear` | all socket events, heartbeats too | the window boundary; a flooding client's heartbeats are dropped |
| Vehicles | `vehicles` documents, primary flag | create, update, soft delete | referenced by requests | one primary per owner over concurrent saves; a deleted vehicle in the unique index |
| Bank details | encrypted fields of a provider | encrypt, decrypt, migrate | profiles | the key is rolled out while the old processes serve; the migration runs beside edits |
| AI diagnosis | `aidiagnoses` documents | diagnose with fallback | external model | every way in which the model may fail; the order of the rules that stand in |
| Lists in pages (`src/packages/database`) | none | `findPaginated` | every list endpoint | a page and its total are two queries; documents come and go during a walk |
| Demo seed (`scripts/seed-demo-data.ts`) | the demo documents | seed, `--reset` | writes every collection | cut off and run again; accounts that are in use |
| Process lifecycle (`core/`) | server, connections, handlers at work | start, graceful shutdown, force exit | MongoDB connection retry | signal races timer; the server counts connections, not handlers |
| Configuration, logging, HTTP plumbing | none | validation, formatting | everything | nothing that changes state |

What makes the main components correct:

* **Dispatch.** Terminal requests stay terminal; statuses follow the table;
  a provider is BUSY exactly while one request has it; arrival, completion and
  cancellation times agree with the status; nobody works before verification;
  an accepted cancellation takes effect.
* **Sessions.** A revoked token is never accepted again; a token is rotated
  once; at most `MAX_REFRESH_SESSIONS` sessions; logout everywhere leaves none.
* **Status cache.** A blocked user is refused within the TTL.
* **Notifications.** READ is final; the last count a client sees is right.
* **Presence.** A user without sockets is not online.
* **Vehicles.** The primary vehicle is the one its owner chose; no two are.
* **Provider search.** The nearest provider that may serve gets the request.
* **Bank details.** After the migration nothing is stored in the clear, and
  everything can be read back.
* **AI diagnosis.** A customer gets a diagnosis without the model too, and a
  dangerous fault is never called harmless.
* **Demo seed.** A rerun after a cut-off completes the demo, and no document
  refers to one that is gone.

## 2. Plan

| Order | Modules | Question | Status |
|---|---|---|---|
| 1 | `StatusTransitions`, `RequestLifecycle`, `Dispatch`, `DispatchProperties`, `MCDispatch`, `MCDispatchRace`, `MCDispatchSerial` | which promises survive which concurrency | done |
| 2 | `DispatchProofs` | type invariant and recorded times for any size | done |
| 3 | `AuthSessions`, `MCAccess` | whole-array saves: what rotation and revocation guarantee | done |
| 4 | `UserStatusCache`, `MCAccess`, `AccessProofs` | staleness of the cache against its TTL | done |
| 5 | `Notifications`, `MCNotifications` | delivery against reading; counts | done |
| 6 | `Presence`, `Tracking`, `MCPresence`, `MCTracking` | socket events against awaits and sweeps; throttle | done |
| 7 | `ProcessLifecycle`, `MCOperations` | shutdown hooks against connections and the force timer | done |
| 8 | `Vehicles`, `MCRecords` | primary flag and unique registration over concurrent saves and soft deletion | done |
| 9 | `ProviderProfile`, `MCRecords` | onboarding, profile edits, and the migration of plaintext bank details running beside them | done |
| 10 | `ProviderSelection`, `MCRecords` | radius, service radius and distance against a reference definition, while providers change between the queries | done |
| 11 | `SocketEvents`, composed with `Presence` | what the window refuses, heartbeats included | done |
| 12 | `AiDiagnosis`, `PagedList`, `MCRecords`; `DemoSeed`, `MCOperations` | fallback rules and failures; walks over changing lists; reruns of a script that was cut off | done |
| 13 | `DispatchProofs`, continued | the refinement of `RequestLifecycle` without overlap; `NoServiceBeforeFirstVerification`, `AssignmentNeverWithdrawn`, `StatusIsAccountedFor`; serially, what providers' documents say of the requests | done |
| 14 | `PresenceProofs`, `TrackingProofs`, `RecordsProofs` | store, limiter, positions, vehicles, bank details for any size | done |
| 15 | `NotificationsProofs`, `OperationsProofs` | who is told of what; the order of a shutdown | done |
| 16 | `AccessProofs`, `RecordsProofs`, continued; `NaturalSets` | sessions, search, diagnosis and walks: what needs facts about sequences and induction over numbers | done |
| 17 | `OperationsProofs`, continued | the demo script: references, and what a run leaves behind | done |
| 18 | all proof modules | the runs' own specifications, worlds and parts included | done |

What is left: the endpoints of `admin.service.ts` and of registration beyond what
the guards of other modules use, and for the proofs what section 6 lists last.

Abstract specifications: `RequestLifecycle` states what a request's status
promises, and `Dispatch` is checked to implement it. `ProviderSelection` states
its reference as a definition (`EligibleAt`) over the providers as each query
saw them. Worth adding: for the status cache a register that is read with
bounded delay, for presence the set of open sockets.

## 3. How the code is modelled

* **An action is a piece of a handler from one await to the next.** A handler
  in flight occupies a slot of `Handler`; `pc` names the await it is suspended
  at, and the other fields of its record hold what its local variables hold.
  `Accept` starts a handler (the validation, the first read and its guards),
  `Continue` resolves its await. A failed guard is an HTTP error: an `Accept`
  action is then not enabled (nothing was written), a `Continue` action frees
  the slot.
* **`save()` writes the modified paths, whatever the database holds by then.**
  `SavedRequest(stored, loaded, edited)` and `SavedProvider` are the update that
  Mongoose issues: a field whose value differs from the loaded one is set,
  every other field keeps what is stored. There is no version key to refuse it.
* **Dates** are whether they have been recorded. Locations, issue types, prices
  and notes are left out. In `Dispatch`, *the nearest provider* is any eligible
  one or none, found in one step; `ProviderSelection` follows the search query
  by query and says which one it is.
* **Callers** are folded into roles: an operation of `Ops` is taken by anyone
  who may take it. Customer, provider and admin differ in the guards only.
* **Faults** (`Faults = TRUE`): at any await the handler may be gone (a crash,
  a lost connection, a rejected save); of the two saves of `Promise.all` one
  may be rejected while the other is still on its way.
* **Environment parameters.** `Overlap = FALSE` says that callers never have
  two calls in flight for one request; one slot in `Handler` says that calls
  are serial; `Ops` says which endpoints are in use. They are not in the code:
  they delimit the claims. The violations below show what happens outside.
* **Worlds.** An MC module may check several environments in one run: its
  `world` variable is chosen at the start and never changes. The configuration's
  constants are those of the strictest environment, which the MC module EXTENDS;
  a world in which more may happen is an instance of the same component with
  other environment parameters (`Race == INSTANCE ... WITH Overlap <- TRUE`) and
  its own bounds. A property that needs an environment says so
  (`world = "calm" => ...`).
  Components that share no state are checked in one run by the same means: a
  behaviour is about one of them, the others keep their initial state
  (`part` in `MCRecords`, `world` in `MCAccess` and `MCOperations`).
* **A property may be the conjunction of named parts**, one idea each, where
  one run checks them in the same environment: `StatusIsAccountedFor` is
  `CancellationDated` and `EngagedHasProvider`. The parts are stated and
  commented one by one.
* An insert or an update of one document is one atomic step, as MongoDB promises.
  `updateMany` is one step too, which it does not promise; in the world with
  overlapping calls it has one document to clear, so nothing is lost there.
* **History variables** are never read by an action's guard: `everVerified` in
  `Dispatch`; `given`, `revoked`, `promised`, `root` in `AuthSessions`;
  `lastSeen`, `verdict` in `UserStatusCache`; `silent` in `Presence`;
  `passed`, `tried`, `polite` in `SocketEvents`; `wasAssigned`, `sent` in
  `Tracking`; `chosen` and a call's `alone` in `Vehicles`; `confirmed` and the
  migration's `keyed` and `done` in `ProviderProfile`; `seen` in
  `ProviderSelection`; `begun`, `got`, `disturbed` in `PagedList`.
* `totalCompletedRequests` counts from the start of a behaviour.

## 4. Modules

* `StatusTransitions` - the table of `status-transitions.ts`, no variables.
* `RequestLifecycle` - the abstract specification: one status per request,
  changed along the table or by a dispatch of a waiting request.
* `Dispatch` - the handlers.

  | Action | Code |
  |---|---|
  | `CreateInsert`, `CreateSaveSearching`, `FindNearest` | `createRequest`, `findNearestEligibleProvider` |
  | `assignProviderToRequest`, `AssignSaveRequest`, `AssignSaveProvider` | `assignProviderToRequest`: guards, edits, the two saves of `Promise.all` in either order |
  | `UpdateStatusLoad`, `CompleteLoad`, `CompleteSave`, `SaveRequest` | `updateStatus`: the completion first credits and frees the provider |
  | `CancelLoad`, `ReleaseLoad`, `ReleaseSave`, `SaveRequest` | `cancelRequest`, `releaseProviderIfAssigned` |
  | `AssignLoad`, `AssignLoadProvider`, `ReleaseLoad`, `ReleaseSave` | `assignProvider` |
  | `AvailabilityLoad`, `KycLoad`, `SaveProvider` | `updateAvailability`, `updateKycStatus` |
  | `Abort`, `OneSaveFails` | faults |

* `DispatchProperties` - what is claimed of `Dispatch`.
* `MCDispatch`, `MCDispatchRace`, `MCDispatchSerial` - model values, symmetry,
  worlds.
* `DispatchProofs` - theorems about `Dispatch`. So do `AccessProofs`
  (`AuthSessions`, `UserStatusCache`), `NotificationsProofs`, `PresenceProofs`
  (`Presence`, `SocketEvents`), `TrackingProofs`, `OperationsProofs`
  (`ProcessLifecycle`, `DemoSeed`) and `RecordsProofs` (`Vehicles`, `ProviderProfile`,
  `ProviderSelection`, `AiDiagnosis`, `PagedList`) for theirs: section 6. Each
  EXTENDS the MC module of its run, whose specification it is about too.
* `NaturalSets` - induction over the natural numbers, for those modules.
* `AuthSessions` - the refresh-token sessions of one user. A token is the second
  it was signed in (the JWT holds nothing else that differs); the stored array
  is loaded, edited and saved as a whole.

  | Action | Code (`modules/auth/services/auth.service.ts`) |
  |---|---|
  | `RegisterInsert`, `LoginLoad`, `ComparePassword`, `PersistSave` | `register`, `login`, `persistRefreshToken` |
  | `RefreshLoad`, `RevokeLoad`, `RevokeSave`, `Reload`, `PersistSave` | `refreshAccessToken`, `revokeRefreshToken` |
  | `Logout`, `LogoutAllLoad`, `ClearSave` | `logout`, `logoutAll` |
  | `SetActive`, `Tick`, `Abort` | an admin, the clock, faults |

* `UserStatusCache` - the cached `isActive` of one user in every process:
  `LookupHit`, `LookupMiss`, `Find`, `Fill`, `FindFails` are
  `resolveActiveUser` and `authenticate`; `UpdateStart`, `UpdateById`,
  `Invalidate` are the admin's `updateUserStatus`; `Restart` empties a Map.
* `Notifications` - what follows a dispatch handler: `Fire` and `NextStage` are a
  method of `BreakdownNotificationsIntegration`, one stage per awaited send (all
  admins at once in one stage, after the query for them: `AdminsFound`,
  `AdminsQueryFails`); the lookup of a provider is part of the send that follows it,
  and so is its failure. `StoreNote`, `SaveDelivery`, `CountForSend`,
  `EmitForSend` are `send` and the orchestrator's `deliver`; `MarkAsRead`,
  `MarkAllAsRead`, `CountForReader`, `EmitForReader` the recipients' calls.
* `Presence` - the in-memory store of one provider's sockets: `Handshake`,
  `Connect`, `Disconnect`, `RecordHeartbeat`, `ProviderOnline` up to its await
  and `GoOnline` after it, `ProviderOffline`, and `Sweep`, one round of the
  heartbeat monitor.
* `Tracking` - the room of one request and its positions: `RequestJoin`, `Join`,
  `RequestLeave`; `LocationUpdate`, `Broadcast`, `Throttle`, `Save`, `Mark`
  follow `handleLocationUpdate`; `Assign` stands for the dispatch engine.
* `SocketEvents` - `Presence` behind the limiter. Every listener passes `check`
  first: `HeartbeatEvent`, `AvailabilityEvent`, `OtherEvent`, `HandshakeEvent`,
  `DisconnectEvent`, `SweepEvent` are the actions of `Presence` together with what
  they do to the windows (`check`, `clear`); `TickEvent` moves both clocks.
* `Vehicles` - the vehicles of one owner (`vehicle.service.ts`): `CreateVehicle`
  and `InsertVehicle`, `UpdateVehicle`, `EnsureRegistrationAvailable`,
  `UnsetPrimary` (the `updateMany` of both) and `SaveVehicle`, `DeleteVehicle`
  and `SoftDelete`; `WriteRejected` is the unique index.
* `ProviderProfile` - the bank details of providers: `OnboardProvider` and
  `InsertProfile`, `UpdateMyProfile`, `EditOtherFields` (every save that does not
  touch them) and `SaveProfile`; `DeployKey` and `RetireUnkeyed` roll out
  `FIELD_ENCRYPTION_KEY`; `MigrationLoad`, `MigrationSave`, `MigrationEnds`,
  `MigrationFails` are the script. The cipher is what it returns: a fresh text,
  which the schema's setter then converts to upper case where it says so.
* `ProviderSelection` - `Query` is one `findNearbyWithDistance` with the merge of
  its rows, `Choose` the sort and the guard; `EditGarage` is everything that a
  provider or another dispatch may do in between.
* `AiDiagnosis` - one call: `FindVehicle`, `ModelAnswers` or `ModelFails`
  (no key, an error status, an answer that does not parse or is refused by the
  schema), `Create`; `DeleteCar` is the customer. `Rules` is the fallback's table
  in its order.
* `PagedList` - `StartWalk`, `FindAnswered` and `CountAnswered` (the two queries
  of `findPaginated`), `PageDone`; `CreateRow` and `DeleteRow` are everyone else.
  A page is the set of the documents whose place in the order (`Place`) lies in it.
* `DemoSeed` - `Plan` is the script as a sequence of documents and reloads of the
  id maps; `SeedOne`, `LoadIds`, `SeedRejected`, `SeedEnds` walk through it,
  `StartReset` and `ClearNext` delete in the order of `clearDemoData`; `SeedCut`
  cuts a run off, `DeleteDemoVehicle` is a customer of the demo.
* `MCAccess`, `MCOperations`, `MCRecords` - worlds of components that share no
  state, for TLC.
* `ProcessLifecycle` - one process: `MongoConnects` ... `Listen` are bootstrap,
  `Signal`, `ServerClosed`, `ShutdownRealtime`, `DisconnectRedis`,
  `DisconnectMongo`, `ShutdownComplete`, `ForceExit` the graceful shutdown. A client
  that is connected (`requests`, `sockets`) and the work that is done for it
  (`handlers`) are two things: `RequestArrives` starts both, `RequestAnswered` ends
  both, `ClientLeaves` ends the first alone (the client aborts, or has its answer
  while notifications that nobody awaits go on), `SocketEvent` starts the work for an
  open socket and `HandlerEnds` ends work. Node's server and Socket.IO are external:
  how they count connections and what a second close does is modelled from how
  `realtime/index.ts` and `core/lifecycle.ts` use them.

Components that share documents are composed by the actions that write them:
`Dispatch` holds both the request and the provider handlers; in `Tracking` the
dispatch engine is the single action `Assign`, in `Presence` the KYC decisions
are `DecideKyc`, in `AuthSessions` an admin's update is `SetActive`, in
`ProviderSelection` the dispatcher and the providers are `EditGarage`. `SocketEvents`
EXTENDS `Presence` and conjoins its actions with the limiter's.

Definitions called `X_Something` and marked *Mutated* are plausible mistakes in
`X`; `PROJECT.json` pairs each with the property that notices it.

## 5. What the runs check

| Run | Instance | Shows |
|---|---|---|
| `dispatch_race` | 2 overlapping handlers, 1 request, 1 provider; worlds `faulty` (unverified at first, every operation but the admins' status endpoint, faults), `fair` (verified, KYC decisions, no faults, fair) | `TypeOK`; `MilestonesRecorded`, `NoServiceBeforeFirstVerification`, `StatusIsAccountedFor`, `AssignmentNeverWithdrawn` survive every race; fairly, `CreatedIsLeft` and `CancelIsFinal` |
| `dispatch_serial` | never two handlers on one request; worlds `several` (2 handlers, 2 requests, faults), `alone` (1 handler, every operation, faults), `calm` (1 handler, 3 requests, 2 providers, no faults) | `ImplementsLifecycle` in all of them; `ProviderAgrees` (`OnlineIsVerified` alone, `FinishedIsCounted` alone and calm); `CalmIsConsistent` |
| `terminal_reopened` | 2 overlapping handlers | *violated*: a cancellation stored after the insert is overwritten by `createRequest`'s own save of SEARCHING_PROVIDER |
| `double_booking` | 2 overlapping `createRequest` | *violated*: one provider gets two active requests |
| `access` | sessions (2 at most): worlds `race` (2 handlers, faults, same-second tokens), `cut` (serial, faults), `calm` (serial); status (TTL 2): worlds `instances` (2 processes, 2 handlers, restarts), `quiet` (1 process, serial) | `SessionsBounded` in all; `RevocationHolds` (`RevokedIsRefused`, `LoginIsOneSession`) serially, cut off anywhere; `PromiseIsKept` calmly; `BoundedStaleness`; `ChangeShowsAtOnce` quietly |
| `logout_undone` | 2 overlapping handlers | *violated*: a login brings back the sessions of a logout everywhere |
| `notifications` | 2 admins; worlds `race` (1 call of any kind, 1 reader, faults, at most one failed send before a crash), `quiet` (2 calls, 1 reader, serial) | `SendsAreWhole` (types, `SentIsDelivered`), `ToldUnlessFailed` (`StoppedOnlyByFailure`: a failed send to the customer or provider, or a failed query for the admins; `EveryoneTold`), `ReadStays`; `CountIsRight` quietly |
| `presence` | timeout 2; worlds `race`, `serial` (3 sockets), `limited` (1 socket, 2 events in 3 ticks) | `StoreIsConsistent` (types, `IndexesAgree`), `HeardIsKept`; fairly, `SilentAreDropped`; serially, `GoneMeansOffline`; limited, `WindowIsFair` (`TwoWindowsWorth`, `RefusedOnlyAtLimit`) and `PoliteIsKept` |
| `tracking` | 2 providers and the customer, interval 2; worlds `race` (2 handlers, failing saves), `serial` (7 ticks) | `OnlyTheEntitled` (types, `RoomWasEntitled`, `TrackedWasAssigned`); serially, `StoredKeepsUp` |
| `operations` | process: 3 requests, 2 sockets, 5 retries, worlds `sockets`, `plain`, `prompt`; script: world `seed` (cut off anywhere, run again, one reset, one customer who may delete a vehicle) | `ShutdownIsOrderly` (types; `ServedWithStores`: whoever is connected is served with the stores open, and so is all work until `server.close` calls back; `CleanExit`: code 0 only when nobody is connected and the stores are closed); fairly, `SignalEndsIt`; promptly, `PromptClosesFirst`; `ReferencesResolve`, `DemoIsWhole` (`SeededAsDispatched`, `CompleteRunIsWhole`, `ResetGetsThrough`) |
| `records` | parts `garage` (2 vehicles, 2 overlapping calls, faults), `keeper` (3 vehicles, serial, faults), `payout` (2 owners, calls beside the migration, faults), `orderly` (the same, kept apart), `search` (3 providers), `diagnosis`, `list` (4 documents) | `PrimaryIsTheChoice` (types, `ChoiceStands`), `DeletedStaysDeleted`; in keeper, `KeeperKeepsOrder` (`OnePrimary`, `RefusedForDeletedOnly`); `BankDetailsSafe` (types, `NothingInTheClear`, `AccountReadable`); in orderly, `ToldIsStored`; `NearestIsChosen` (`WinnerWasEligible`, `NobodyPassedOver`); `DiagnosisHolds` (`CriticalComesFirst`, `OnlyBlankFails`); `WalkIsFaithful` (`WalkSeesAll`, `NothingTwice`) |
| `ifsc_lost` | one call after another | *violated*: an encrypted IFSC code cannot be read again |

**Bounds.** Two handlers in flight are the least that race, and every
violation found needs only two. One request suffices for properties of one
document; two or three are used where a provider is shared. `MaxCompleted`
bounds the completions a provider may start, so that each run sees a second job
of the same provider where the property is about jobs. Users do not affect one
another in sessions, status cache, presence, vehicles, so those modules have one
user. A cap of 2 sessions is exceeded by a third login; a TTL, timeout or
interval of 2 ticks has a tick inside, at and after its end, and the clocks run
for more than two of them (less in the racing worlds, where the bound is named in
the MC module). Two admins are the least that can fail independently. A limit of
2 events in 3 ticks lets a burst straddle the end of a window and leaves room for
a heartbeat in time. Racing vehicles are two (`TwoVehicles`), the least that can
both be primary; three when calls are serial, so that a deleted vehicle, its
replacement and another exist together. Racing calls on profiles are of one owner
(`OneOwner`); the migration still walks over two. Three providers at distances 1 to
3 with a search radius of 2, service radii of 1 and 3, a limit of 2 and one edit
between the queries (`MaxEdits`) give ties, each radius excluding alone, a crowded
query and a stale row; providers may be busy from the start. Two issue types stand
for the table: both with two preferred types and with one. Seven words reach every
rule of the fallback and their overlaps. A list of 4 with pages of at most 2
(`MAX_LIMIT`) has a second page that shifts; `Limits` holds one below, one at and
one above what is allowed. One reset (`MaxResets`) is preceded and followed by runs
that were cut off; one customer deletes a vehicle, since customers' documents do
not depend on each other.
**Symmetry** permutes handler slots, requests, admins, registration numbers and
details, and only for values that no world distinguishes and in runs without
liveness. `CHECK_DEADLOCK FALSE`: when every request is terminal and no profile is
edited, when the clock has reached its bound and no token is left, when a search, a
diagnosis or a walk is over, or when the process has exited, the system may really
stop.

**Fairness.** `MCDispatchRace` (`RaceSpec`) asks weak fairness of `Continue(h)` for
each slot in the world `fair`: the driver resolves or rejects every await and the
event loop runs every continuation. Nothing is asked of callers. That world is
without faults, since a process that dies owes nothing to the requests it was
serving. `MCPresence` asks it of `Sweep`, which `setInterval` repeats, in the world
`race`; `MCOperations` of the process's own steps and of its timer, and nothing of
clients: requests and sockets may hang for ever, and nobody has to run the script.

## 6. What is proved

Every safety property of the passing runs, and the action properties and the
refinement with them, is stated by a theorem that `PROJECT.json` lists, 57 in all.
Liveness is not (see the end of this section).

A property that is claimed of one world of a run is proved of the run's own
specification (`WorldsSpec`, `SerialSpec`, `PartsSpec`), for constants of any size,
under the hypothesis that the configuration of that run meets. What the other
worlds do is no obstacle: they write the same variables, but a behaviour never
crosses over, so `world = "..." => Inv` is inductive because `Inv` is for the
component. The theorems about the component itself are listed too, since they
do not depend on how a run is put together:

| Theorem about a run | Rests on |
|---|---|
| `ProviderAlwaysAgrees`, `CalmIsAlwaysConsistent` | the lemmas of `OnlineAlwaysVerified`, `CompletionsAlwaysCounted`, `CalmAlwaysConsistent` |
| `RevocationAlwaysHolds`, `PromiseIsAlwaysKept`, `ChangeAlwaysShowsAtOnce` | those of `RevokedAlwaysRefused`, `LoginAlwaysOneSession`; `SessionsAlwaysAsPromised`; `CoherentAlwaysWhenQuiet` |
| `CountIsAlwaysRight`, `GoneMeansAlwaysOffline`, `StoredAlwaysKeepsUp`, `PromptAlwaysClosesFirst` | those of `CountAlwaysRight`, `GoneAlwaysOffline`, `StoredAlwaysRecent`, `AlwaysClosesBeforeExit` |
| `KeeperAlwaysKeepsOrder`, `ToldAlwaysStored` | those of `NeverTwoPrimary`, `OnlyDeletedRefuse`; `ConfirmedAlwaysStored` |
| `DemoOfTheRun` | `ReferencesAlwaysResolve`, `DemoIsAlwaysWhole` |

A theorem without hypotheses holds under any interleaving, with faults where the
component has them. The hypotheses of the others fix an environment, each one that
of a world in a passing run; what the others lose without theirs is in section 7:

| Hypothesis | Meaning | Theorems |
|---|---|---|
| `Apart` of `DispatchProofs` | no two handlers on one request, or one slot | `LifecycleImplemented`, `TerminalStaysFinal` (`terminal_reopened` shows the contrary without it) |
| `OneHandler`; or `"kyc"` and `"availability"` not both in `Ops` | serial handlers; or nobody to race | `OnlineAlwaysVerified`; `CompletionsAlwaysCounted`, `ProviderAlwaysAgrees`, `CalmIsAlwaysConsistent` take the first |
| `Calm` | serial, no faults, profiles are left alone | `CalmAlwaysConsistent` |
| `~ Overlap`, `~ SameSecond`, (`~ Faults`) of `AuthSessions` | serial, tokens that differ | `RevokedAlwaysRefused`, `LoginAlwaysOneSession`, `RevocationAlwaysHolds` (cut off anywhere; `logout_undone` without the first), `SessionsAlwaysAsPromised` (nothing fails), `PromiseIsAlwaysKept` (of the world in which nothing fails) |
| one `Instance`, `~ CacheOverlap` | one process, serial | `CoherentAlwaysWhenQuiet`, `ChangeAlwaysShowsAtOnce` |
| `~ Overlap`, `~ Faults` | serial, nothing fails | `CountAlwaysRight`, `CountIsAlwaysRight` |
| `~ Overlap` | serial | `GoneAlwaysOffline`, `GoneMeansAlwaysOffline`; `StoredAlwaysRecent`, `StoredAlwaysKeepsUp` |
| `~ VehicleOverlap` | serial, cut off anywhere | `NeverTwoPrimary`, `OnlyDeletedRefuse`, `KeeperAlwaysKeepsOrder` |
| `Apart` of `ProviderProfile` | an owner's calls and the migration do not overlap | `ConfirmedAlwaysStored`, `ToldAlwaysStored` |
| `~ SocketEnabled`, `~ Faults`, `~ Slow` | no Socket.IO, no connection is held for too long | `AlwaysClosesBeforeExit`, `PromptAlwaysClosesFirst` |

The assumptions on constants are the `...Assumption` of each module, all evaluated
by TLC in the runs.

**The argument** is the same everywhere: hardly any property is inductive, since it
speaks of documents and a handler in flight may still write what it read earlier;
the invariant adds what each handler's locals may be at each `pc`. One lemma per
action says that the action keeps it. TLC checked the invariants on the worlds of
the runs before they were proved.

`DispatchProofs`:

* `TypeInv` (`TypeCorrect`): a handler that is about to save a provider names one.
* `AccountInv` (`MilestonesAlwaysRecorded`, `StatusAlwaysAccountedFor`, `AssignmentIsKept`):
  a save mixes fields of three documents, so the invariant says of the copies of every
  handler that they account for their status and came from a document that has only
  gained times since; the lemma `SavedAccounted` is about `SavedRequest`.
* `ReviewInv` (`NoServiceWithoutReview`): of a provider whom nobody verified, no
  document and no copy in a slot says that he is verified, online, assigned or credited.
* `SerialInv` (`LifecycleImplemented`, `TerminalStaysFinal`): slots hold different
  requests, the status a slot loaded is the stored one, and the status it will store
  is an edge away. Each step of `Dispatch` is then a step of `RequestLifecycle` or
  leaves the statuses alone (`StepIsLifecycle`).
* `OnlineInv` (`OnlineAlwaysVerified`): what a pending save of a profile says of KYC
  and online status, with one disjunct for each way in which nobody races it.
* `AloneInv`, `CountInv` (`CompletionsAlwaysCounted`): the one handler holds the stored
  documents; the finished jobs of a provider are finitely many and at most his count, and
  fewer while a handler has credited a completion that it has not saved yet.
* `CalmInv` (`CalmAlwaysConsistent`): the books of every provider, at every `pc`, with
  what the handler has still to enter.

`AccessProofs`:

* `CacheInv` (`StalenessBounded`, `CacheTypeCorrect`): an entry's status was stored less
  than a TTL before it expires, what a lookup in flight read was stored after it began.
  `CoherentInv` (`CoherentAlwaysWhenQuiet`): unless an invalidation is due, every live
  entry holds the stored status.
* `BoundInv` (`SessionsAlwaysBounded`): every loaded array is within the cap too, and
  filtering one does not lengthen it.
* `RevocationInv` (`RevokedAlwaysRefused`, `LoginAlwaysOneSession`): stored tokens were
  given out and not given up, no two descend from one login, and what a handler will
  store (`Knows`) holds nothing that it was asked to remove.
* `PromiseInv` (`SessionsAlwaysAsPromised`): the array ascends in time, so that the
  last ones are the newest; what is stored and what is promised agree on the live
  tokens, but for the one that is being stored.

`NotificationsProofs`: `CallInv` (types: a call's sends are within its stages, and it asks
for the admins only where they are told), `SendInv` (`SendsAlwaysDelivered`,
`ReadAlwaysStays`, `AlwaysToldUnlessFailed`: the sends of past stages are over, those of
later ones, and of a stage whose query is not answered, not begun), `CountInv` (`CountAlwaysRight`: a recipient whose
count on screen is old has a count or a push under way, and what is about to be pushed
is right).

`PresenceProofs`: `StoreIsConsistent` is inductive as it stands; `AgeInv` (`HeardAlwaysKept`)
adds that a session's age is its client's silence; `PresenceInv` (`GoneAlwaysOffline`);
`LimiterInv` (`WindowAlwaysFair`) says, with sums over the last ticks defined by recursion,
how much of what passed lies in the current window and how much before it;
`PoliteInv` (`PoliteAlwaysKept`) joins the two clocks.

`TrackingProofs`: `EntitledInv` (`OnlyTheEntitledAlways`: a join that was allowed and a
position on its way belong to someone who was entitled when the request was read),
`RecentInv` (`StoredAlwaysRecent`).

`OperationsProofs`:

* `OrderInv` (`ShutdownAlwaysOrderly`): what each phase of the process says of server,
  connections and stores; of handlers only that none works before the server listens,
  since those of clients that are gone outlast every later phase. `PromptInv` (`AlwaysClosesBeforeExit`).
* `RefInv` (`ReferencesAlwaysResolve`): a document that exists has all it needs, the ids
  that the script holds in memory are those stored, and a reset has deleted what refers
  to a collection before it comes to that collection (`ClearOK`).
* `WholeInv` (`DemoIsAlwaysWhole`): while a run walks through the plan, whatever it has
  passed exists (a request may be missing only if a vehicle is deleted), the ids that
  the next documents need have been loaded, and after a reset no vehicle that has still
  to be inserted has a deleted one in its place.
* The provers do not evaluate `Plan`, so its 51 places are given by a formula (`PlanIs`),
  and lemmas say where each document is, what it needs and that this comes earlier
  (`Dependencies`).

`RecordsProofs`:

* `VehicleInv` (`VehicleTypeCorrect`, `DeletedAlwaysStayDeleted`): a create is the only call that
  knows of its vehicle, and what an update found is never absent again. `ChoiceInv`
  (`ChoiceAlwaysStands`): a call that nothing overlapped finds the others cleared when
  it writes. `AloneInv` (`NeverTwoPrimary`, `OnlyDeletedRefuse`): also, no two documents have
  one registration, and what the check let through is still free among the listed.
* `BankInv` (`BankDetailsAlwaysSafe`): what the migration is about to write may be old, but
  account numbers in the clear come from processes without the key, of which none is
  left when the migration that counts starts; what it found sealed is still sealed, and
  what it found in the clear it has yet to seal. `ToldInv` (`ConfirmedAlwaysStored`): what a
  call or the migration holds of an owner is what is stored.
* `DiagnosisInv` (`DiagnosisAlwaysHolds`): a diagnosis by rules is what the table gives for
  the words of its message, through every rule in its order.
* `SearchInv` (`NearestAlwaysChosen`): every row of the merge is of a provider whom some
  query caught at that distance, nobody caught is missing, and rows of earlier queries come
  first, so that among equals the sort keeps the preferred type (`Merged` is a recursive
  function: the lemmas about it are by induction over the length of the rows).
* `PagedInv` (`WalkAlwaysFaithful`): unless something was deleted or torn, what the walk has
  not seen lies ahead of it; unless something was created, what it has seen lies behind.
  Creating a document moves the places of all others by one, deleting one those of the
  older.

**Induction over numbers and data.** The library states induction of operators, which
the provers cannot instantiate. `NaturalSets` states it of sets (`Induction`,
`InductionTo`), from the library's theorem about well-founded relations; each proof
by induction defines the set of numbers for which its claim holds. The recursive
functions of the models (`Filtered`, `Merged`, sums and counts) are unfolded by one lemma each.

**Left to TLC.** Liveness under fairness and `ENABLED`, which TLAPS does not reach:
`CreatedIsLeft`, `CancelIsFinal`, `SilentAreDropped`, `SignalEndsIt`. The fairness in
`WorldsSpec` is not used by the theorems about it: they are about safety. The tables
of `DemoSeed` are the script's own and have one size; what its theorems generalise are
the resets, the vehicles that may be deleted, and whether runs are cut off.
`ImplementsLifecycle` with overlapping handlers has no theorem because it is false there.

## 7. Findings

With a run that shows them:

1. A cancellation stored after `createRequest` inserted the request is overwritten
   by its next save, of SEARCHING_PROVIDER, which asks nothing of the stored status
   (`breakdown.service.ts:224-225`, against `docs/phases/STEP-08-breakdown-requests.md:27`):
   a terminal request is open again. The saves of `updateStatus` (line 360) and of the
   assignment (line 184) ask nothing of it either; the run's trace is `createRequest`'s.
2. Two searches before either save assign one provider twice
   (`breakdown.service.ts:184`, against `STEP-08:22-23`).
3. A login or a refresh saves the array of sessions it loaded: a logout
   everywhere stored meanwhile is undone (`auth.service.ts:88`, against
   `auth.controller.ts:52`, 'All sessions revoked').
4. The schema upper-cases IFSC codes when they are set, cipher texts too, so that
   an encrypted one can never be read (`provider.schema.ts:58`, against
   `docs/MIGRATION-P1-SECURITY.md:80`).

Met while modelling, and the reason why a property names an environment:

* A provider goes online on a KYC that is revoked between the check and the save
  (`provider.service.ts:158`, against `kyc.util.ts:9`): `ProviderAgrees` is
  claimed for serial calls only.
* `assignProvider` takes the edge CREATED to PROVIDER_ASSIGNED, which the table
  does not have (`breakdown.service.ts:385`, against `STEP-08:27`);
  `RequestLifecycle` allows it.
* An admin's CANCELLED through the status endpoint neither releases the provider
  nor sets `cancelledAt`, and an admin's PROVIDER_ASSIGNED may name nobody:
  `StatusIsAccountedFor` excludes that endpoint.
* Two refresh tokens signed for one user within a second are the same token
  (`token.util.ts:24`): exchanged and at once stored again. `RevocationHolds`
  excludes it (`SameSecond`).
* A delivery saved after the notification was read stores DELIVERED over READ;
  `readAt`, which counts and lists also ask for, stays (`ReadStays`). Unread
  counts of overlapping calls may be pushed in the wrong order (`CountIsRight`
  is claimed for quiet calls only).
* The query for the admins is awaited outside `Promise.allSettled`: if it is rejected,
  an emergency's assigned provider and customer never hear of the assignment, although
  no send failed (`breakdown-notifications.integration.ts:189-192`).
  `StoppedOnlyByFailure` names it as the one other reason to stop. A process that dies
  leaves the rest of a call unsent and its document PENDING, for good.
* Connecting puts a provider online whatever its KYC (`in-memory.presence.ts:19`,
  against `docs/MIGRATION-P1-SECURITY.md:30`), and a provider:online that is
  overtaken by its socket's disconnect leaves the provider online
  (`GoneMeansOffline` is claimed for the serial world only).
* Room membership is decided when a socket joins and never again: the former
  provider of a request stays in its room (`request-room.service.ts:16`, against
  `docs/phases/STEP-09-realtime-sockets.md:12`). `RoomWasEntitled` is what holds.
* With Socket.IO enabled the shutdown never closes MongoDB: its hooks wait for
  the WebSockets that only they would close, and closing the HTTP server a
  second time rejects (`core/lifecycle.ts:28`, against
  `src/ARCHITECTURE.md:1078-1079`). `PromptClosesFirst` is claimed without it.
* The shutdown waits for connections, not for handlers (`core/lifecycle.ts:28`, against
  'drain in-flight → close DB/Kafka/Redis → exit' in `src/ARCHITECTURE.md:1078-1079`):
  a handler whose client has aborted, and the notifications of an answered request
  (`breakdown.service.ts:62-66`), lose their database or are cut off, and the exit
  code is 0. `ServedWithStores` and `CleanExit` speak of clients that are connected.
* A socket is accepted on its access token alone and never checked again
  (`socket-auth.middleware.ts:20`): a user who is deactivated keeps the sockets
  that are open.
* The unique index keeps the registration of a deleted vehicle
  (`vehicle.schema.ts:57`): its owner can never register it again, and a create or
  an update that tries has by then cleared the primary flag of the others
  (`RefusedForDeletedOnly`; `ChoiceStands` is silent once a choice has begun).
* Two choices of a primary vehicle that overlap leave two or none
  (`vehicle.service.ts:49`): `OnePrimary` is claimed for serial calls only.
* `restore` looks for its document through the hook that hides deleted ones
  (`base.repository.ts:61`, `soft-delete.plugin.ts:13`): it never finds one. Nothing
  calls it.
* A list's total counts deleted documents (`base.repository.ts:37`), so that a walk
  may end in empty pages; documents with equal `createdAt` have no order among
  pages, which the model leaves out.
* The history of diagnoses asks for the sort '-createdAt', which
  `normalizePagination` takes for a field of that name
  (`ai-diagnosis.repository.ts:17`, `pagination.util.ts`).
* The limit of the search applies before the providers' own radii
  (`provider.repository.ts:71-82`): a crowd of providers with short radii hides one
  that could serve. `NearestIsChosen` says when (`Uncrowded`).
* The rules that stand in for the model know nothing of 'trapped', which the prompt
  calls critical (`openai-diagnosis.service.ts:25`, `66-72`), and look for words
  inside words. The request to the model has no timeout
  (`openai-diagnosis.service.ts:207`).
* A rerun of the demo script fails once a demo vehicle has been deleted
  (`seed-demo-data.ts:789`, against `docs/SEED-DEMO-DATA.md:104`, 'idempotent');
  `--reset` helps (`ResetGetsThrough`). It gives providers who are AVAILABLE active
  requests, one of them two (`BR-003`, `BR-007`), and `--reset` leaves the requests of
  real customers that name a demo provider.

## 8. Not modelled

Left out for good:

* The wiring of the Socket.IO server, configuration and its validation, health
  checks, logging, validators, mappers, controllers and formatting: no state of
  their own. What a validator lets through is in the guards of the actions.
* Users' names, addresses and preferences, each written by one save, and the
  admin's analytics and lists: reads, but for paging (`PagedList`).
* The gateways' emissions other than positions, deliveries and counts: they
  forward what they are given.
* The directories of `src/apps` other than `api`, and most of `src/packages`: files
  of a few lines that `src/tools/scripts/scaffold-structure.mjs` generated, with
  placeholders and without behaviour. They are most of the repository's source
  files, which is why the map, dense over `src/apps/api`, covers a small share of
  the lines of the repository. Of `seed-demo-data.ts` the tables are modelled
  down to keys and references; of the tools, nothing.
* Rejected writes of a diagnosis: `AiDiagnosis` fails in the model and in the lookup of
  the vehicle only.
* Hashing, signing, the cipher, geometry on the sphere and the language model: each
  is what its callers see of it.
