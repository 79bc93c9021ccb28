------------------------------ MODULE Dispatch ------------------------------
(***************************************************************************)
(* The dispatch engine: the HTTP handlers of breakdown.service.ts and the  *)
(* handlers of provider.service.ts that write the same documents.          *)
(*                                                                         *)
(* A handler is an async function.  Between two awaits it runs alone (one  *)
(* event loop); at each await any other handler, of this process or of     *)
(* another instance, may run.  So each action below is one piece of a      *)
(* handler from an await to the next: it reads one document, or its pending*)
(* save reaches the database.  What a handler holds across an await is the *)
(* document it loaded, in its `handler' record.                            *)
(*                                                                         *)
(* Documents have no version key (packages/database base.schema.ts:4-7) and*)
(* Mongoose's save() writes the fields whose value differs from the loaded *)
(* one, whatever the database holds by then: SavedRequest, SavedProvider.  *)
(*                                                                         *)
(* Data that no property distinguishes is left out: locations, issue types,*)
(* distances and prices; "the nearest provider" is any eligible one, or    *)
(* none (radius).  A Date is whether it has been recorded.                 *)
(***************************************************************************)
EXTENDS StatusTransitions, Naturals, FiniteSets

CONSTANTS
  Request,          \* identities of breakdown requests
  Provider,         \* providers with a profile
  Handler,          \* slots for handlers in flight: the degree of concurrency
  NoRequest,        \* null
  NoProvider,       \* null
  SeededProvider,   \* providers that are VERIFIED, ONLINE, AVAILABLE at start
  Ops,              \* the operations that callers use
  KycInput,         \* the KYC decisions that admins take
  Overlap,          \* may two handlers work on one request at the same time?
  Faults,           \* may a write, a connection or the process fail?
  MaxCompleted      \* bound: no new completion for a provider with this many

AvailabilityStatus == { "AVAILABLE", "BUSY", "OFFLINE" }
OnlineStatus       == { "ONLINE", "OFFLINE" }
KycStatus          == { "PENDING", "VERIFIED", "REJECTED" }

PROVIDER_PROGRESS_STATUSES ==
  { "ON_THE_WAY", "ARRIVED", "IN_PROGRESS", "COMPLETED" }

OpName ==
  { "create", "providerStatus", "adminStatus", "assign", "cancel",
    "availability", "kyc" }

ASSUME DispatchAssumption ==
  /\ NoRequest \notin Request
  /\ NoProvider \notin Provider
  /\ SeededProvider \subseteq Provider
  /\ Ops \subseteq OpName
  /\ KycInput \subseteq KycStatus
  /\ Overlap \in BOOLEAN
  /\ Faults \in BOOLEAN
  /\ MaxCompleted \in Nat

VARIABLES
  requests,         \* the breakdownrequests collection
  providers,        \* the providers collection
  handler,          \* handler[h]: what the function in slot h holds
  everVerified      \* history: providers whose stored KYC has been VERIFIED

vars == << requests, providers, handler, everVerified >>

-----------------------------------------------------------------------------
(***************************************************************************)
(* Documents                                                               *)
(***************************************************************************)
RequestDoc ==
  [ status             : BreakdownStatus \cup { "ABSENT" },
    assignedProviderId : Provider \cup { NoProvider },
    assignedAt         : BOOLEAN,
    arrivedAt          : BOOLEAN,
    completedAt        : BOOLEAN,
    cancelledAt        : BOOLEAN ]

ProviderDoc ==
  [ availabilityStatus     : AvailabilityStatus,
    onlineStatus           : OnlineStatus,
    kycStatus              : KycStatus,
    totalCompletedRequests : Nat ]

\* No document with this id.
AbsentRequest ==
  [ status             |-> "ABSENT",
    assignedProviderId |-> NoProvider,
    assignedAt         |-> FALSE,
    arrivedAt          |-> FALSE,
    completedAt        |-> FALSE,
    cancelledAt        |-> FALSE ]

NewRequest == [AbsentRequest EXCEPT !.status = "CREATED"]

\* onboardProvider's document.
OnboardedProvider ==
  [ availabilityStatus     |-> "OFFLINE",
    onlineStatus           |-> "OFFLINE",
    kycStatus              |-> "PENDING",
    totalCompletedRequests |-> 0 ]

\* A provider of the demo seed.
ReadyProvider ==
  [ availabilityStatus     |-> "AVAILABLE",
    onlineStatus           |-> "ONLINE",
    kycStatus              |-> "VERIFIED",
    totalCompletedRequests |-> 0 ]

\* save(): the fields changed since loading, over what is stored now.
Written(stored, loaded, edited) == IF edited # loaded THEN edited ELSE stored

\* Mutated: the whole document is put back.
SavedRequest_WholeDocument(stored, loaded, edited) == edited

SavedRequest(stored, loaded, edited) ==
  [ status |->
      Written(stored.status, loaded.status, edited.status),
    assignedProviderId |->
      Written(stored.assignedProviderId, loaded.assignedProviderId,
              edited.assignedProviderId),
    assignedAt |->
      Written(stored.assignedAt, loaded.assignedAt, edited.assignedAt),
    arrivedAt |->
      Written(stored.arrivedAt, loaded.arrivedAt, edited.arrivedAt),
    completedAt |->
      Written(stored.completedAt, loaded.completedAt, edited.completedAt),
    cancelledAt |->
      Written(stored.cancelledAt, loaded.cancelledAt, edited.cancelledAt) ]

SavedProvider(stored, loaded, edited) ==
  [ availabilityStatus |->
      Written(stored.availabilityStatus, loaded.availabilityStatus,
              edited.availabilityStatus),
    onlineStatus |->
      Written(stored.onlineStatus, loaded.onlineStatus, edited.onlineStatus),
    kycStatus |->
      Written(stored.kycStatus, loaded.kycStatus, edited.kycStatus),
    totalCompletedRequests |->
      Written(stored.totalCompletedRequests, loaded.totalCompletedRequests,
              edited.totalCompletedRequests) ]

-----------------------------------------------------------------------------
(***************************************************************************)
(* Handlers.  `pc' names the await at which the handler is suspended.      *)
(***************************************************************************)
PC ==
  { "idle", "saveSearching", "findNearest", "loadProvider", "releaseLoad",
    "releaseSave", "assignSaveBoth", "assignSaveRequest",
    "assignSaveProvider", "completeLoad", "completeSave", "saveRequest",
    "saveProvider" }

HandlerOp == { "none", "create", "status", "assign", "cancel", "profile" }

HandlerState ==
  [ pc    : PC,
    op    : HandlerOp,
    req   : Request \cup { NoRequest },     \* id of the request at work
    rload : RequestDoc,                     \* the request as loaded
    rdoc  : RequestDoc,                     \* ... and as edited in memory
    prov  : Provider \cup { NoProvider },   \* id of the provider in pdoc
    pload : ProviderDoc,
    pdoc  : ProviderDoc ]

Idle ==
  [ pc |-> "idle", op |-> "none",
    req |-> NoRequest, rload |-> AbsentRequest, rdoc |-> AbsentRequest,
    prov |-> NoProvider, pload |-> OnboardedProvider,
    pdoc |-> OnboardedProvider ]

Goes(h, local) == handler' = [handler EXCEPT ![h] = local]

\* Slot h is free, and callers start work on r.
Accepts(h, r) ==
  /\ handler[h].pc = "idle"
  /\ Overlap \/ \A g \in Handler : handler[g].req # r

StoreRequest(h) ==
  LET me == handler[h] IN
  requests' = [requests EXCEPT ![me.req] = SavedRequest(@, me.rload, me.rdoc)]

StoreProvider(h) ==
  LET me == handler[h] IN
  providers' = [providers EXCEPT ![me.prov] = SavedProvider(@, me.pload, me.pdoc)]

-----------------------------------------------------------------------------
(***************************************************************************)
(* Initial state: nothing requested, providers onboarded or seeded.        *)
(***************************************************************************)
Init ==
  /\ requests = [r \in Request |-> AbsentRequest]
  /\ providers = [p \in Provider |->
                    IF p \in SeededProvider THEN ReadyProvider
                                            ELSE OnboardedProvider]
  /\ handler = [h \in Handler |-> Idle]
  /\ everVerified = SeededProvider

-----------------------------------------------------------------------------
(***************************************************************************)
(* assignProviderToRequest: the guards, on the provider as the handler     *)
(* loaded it, then the edits of both documents and the start of two        *)
(* parallel saves.  A failed guard is an HTTP error: the handler ends.     *)
(***************************************************************************)
mayBeAssigned(doc) ==
  /\ doc.availabilityStatus = "AVAILABLE"
  /\ doc.onlineStatus = "ONLINE"
  /\ doc.kycStatus = "VERIFIED"

\* Mutated: the request is marked, and nobody is named.
assignProviderToRequest_NamesNobody(me, p, doc) ==
  IF mayBeAssigned(doc)
    THEN [me EXCEPT !.pc = "assignSaveBoth",
                    !.rdoc = [@ EXCEPT !.assignedAt = TRUE,
                                       !.status = "PROVIDER_ASSIGNED"],
                    !.prov = p,
                    !.pload = doc,
                    !.pdoc = [doc EXCEPT !.availabilityStatus = "BUSY"]]
    ELSE Idle

assignProviderToRequest(me, p, doc) ==
  IF mayBeAssigned(doc)
    THEN [me EXCEPT !.pc = "assignSaveBoth",
                    !.rdoc = [@ EXCEPT !.assignedProviderId = p,
                                       !.assignedAt = TRUE,
                                       !.status = "PROVIDER_ASSIGNED"],
                    !.prov = p,
                    !.pload = doc,
                    !.pdoc = [doc EXCEPT !.availabilityStatus = "BUSY"]]
    ELSE Idle

\* The two saves of Promise.all, in either order.
AssignSaveRequest(h) ==
  /\ handler[h].pc \in { "assignSaveBoth", "assignSaveRequest" }
  /\ StoreRequest(h)
  /\ Goes(h, IF handler[h].pc = "assignSaveBoth"
               THEN [handler[h] EXCEPT !.pc = "assignSaveProvider"]
               ELSE Idle)
  /\ UNCHANGED << providers, everVerified >>

AssignSaveProvider(h) ==
  /\ handler[h].pc \in { "assignSaveBoth", "assignSaveProvider" }
  /\ StoreProvider(h)
  /\ Goes(h, IF handler[h].pc = "assignSaveBoth"
               THEN [handler[h] EXCEPT !.pc = "assignSaveRequest"]
               ELSE Idle)
  /\ UNCHANGED << requests, everVerified >>

-----------------------------------------------------------------------------
(***************************************************************************)
(* createRequest: insert as CREATED, save as SEARCHING_PROVIDER, search,   *)
(* assign.  The vehicle check before the insert changes nothing.           *)
(***************************************************************************)
CreateInsert(h, r) ==
  /\ "create" \in Ops
  /\ Accepts(h, r)
  /\ requests[r] = AbsentRequest
  /\ requests' = [requests EXCEPT ![r] = NewRequest]
  /\ Goes(h, [Idle EXCEPT !.pc = "saveSearching",
                          !.op = "create",
                          !.req = r,
                          !.rload = NewRequest,
                          !.rdoc = [NewRequest EXCEPT
                                      !.status = "SEARCHING_PROVIDER"]])
  /\ UNCHANGED << providers, everVerified >>

\* Mutated: the second save of createRequest is forgotten.
CreateSaveSearching_NotSaved(h) ==
  /\ handler[h].pc = "saveSearching"
  /\ Goes(h, [handler[h] EXCEPT !.pc = "findNearest",
                                !.rload = handler[h].rdoc])
  /\ UNCHANGED << requests, providers, everVerified >>

CreateSaveSearching(h) ==
  /\ handler[h].pc = "saveSearching"
  /\ StoreRequest(h)
  /\ Goes(h, [handler[h] EXCEPT !.pc = "findNearest",
                                !.rload = handler[h].rdoc])
  /\ UNCHANGED << providers, everVerified >>

\* findNearbyWithDistance's filter, as findNearestEligibleProvider calls it.
EligibleProviders ==
  { p \in Provider : /\ providers[p].availabilityStatus = "AVAILABLE"
                     /\ providers[p].onlineStatus = "ONLINE"
                     /\ providers[p].kycStatus = "VERIFIED" }

\* The queries only read: of the two that some issues take, the step stands for
\* the one that found p, or for the last (ProviderSelection has both).
FindNearest(h) ==
  /\ handler[h].pc = "findNearest"
  /\ \/ Goes(h, Idle)                                    \* none in range
     \/ \E p \in EligibleProviders :
          Goes(h, assignProviderToRequest(handler[h], p, providers[p]))
  /\ UNCHANGED << requests, providers, everVerified >>

-----------------------------------------------------------------------------
(***************************************************************************)
(* updateStatus by the assigned provider or by an admin.  A completion     *)
(* first books the job on the provider, then saves the request.            *)
(***************************************************************************)
MayUpdateStatus(doc, to) ==
  \/ /\ "providerStatus" \in Ops
     /\ doc.assignedProviderId \in Provider
     /\ to \in PROVIDER_PROGRESS_STATUSES
  \/ "adminStatus" \in Ops

BelowBound(doc) ==
  doc.assignedProviderId \in Provider =>
    providers[doc.assignedProviderId].totalCompletedRequests < MaxCompleted

\* Mutated: arrivedAt is written with every status.
StatusEdit_ResetsArrival(doc, to) ==
  [doc EXCEPT !.status = to,
              !.arrivedAt = (to = "ARRIVED"),
              !.completedAt = @ \/ to = "COMPLETED"]

StatusEdit(doc, to) ==
  [doc EXCEPT !.status = to,
              !.arrivedAt = @ \/ to = "ARRIVED",
              !.completedAt = @ \/ to = "COMPLETED"]

UpdateStatusLoad(h, r, to) ==
  LET doc == requests[r] IN
  /\ Accepts(h, r)
  /\ doc.status # "ABSENT"
  /\ ~ isTerminalStatus(doc.status)
  /\ MayUpdateStatus(doc, to)
  /\ canTransition(doc.status, to)
  /\ to = "COMPLETED" => BelowBound(doc)
  /\ Goes(h, [Idle EXCEPT
        !.pc = IF to = "COMPLETED" /\ doc.assignedProviderId # NoProvider
                 THEN "completeLoad" ELSE "saveRequest",
        !.op = "status",
        !.req = r,
        !.rload = doc,
        !.rdoc = StatusEdit(doc, to)])
  /\ UNCHANGED << requests, providers, everVerified >>

\* Mutated: the provider is not set free.
JobDone_StaysBusy(doc) == [doc EXCEPT !.totalCompletedRequests = @ + 1]

JobDone(doc) ==
  [doc EXCEPT !.totalCompletedRequests = @ + 1,
              !.availabilityStatus = "AVAILABLE"]

CompleteLoad(h) ==
  LET p   == handler[h].rdoc.assignedProviderId
      doc == providers[p]
  IN
  /\ handler[h].pc = "completeLoad"
  /\ Goes(h, [handler[h] EXCEPT
        !.pc = "completeSave",
        !.prov = p,
        !.pload = doc,
        !.pdoc = JobDone(doc)])
  /\ UNCHANGED << requests, providers, everVerified >>

CompleteSave(h) ==
  /\ handler[h].pc = "completeSave"
  /\ StoreProvider(h)
  /\ Goes(h, [handler[h] EXCEPT !.pc = "saveRequest",
                                !.prov = NoProvider,
                                !.pload = OnboardedProvider,
                                !.pdoc = OnboardedProvider])
  /\ UNCHANGED << requests, everVerified >>

\* The last write of updateStatus and of cancelRequest.
SaveRequest(h) ==
  /\ handler[h].pc = "saveRequest"
  /\ StoreRequest(h)
  /\ Goes(h, Idle)
  /\ UNCHANGED << providers, everVerified >>

-----------------------------------------------------------------------------
(***************************************************************************)
(* cancelRequest by the owner or an admin: release the provider, then save.*)
(***************************************************************************)
\* Mutated: a status the schema does not have.
Cancelling_Misspelt(me) ==
  [me EXCEPT !.pc = "saveRequest",
             !.rdoc = [@ EXCEPT !.status = "CANCELED", !.cancelledAt = TRUE]]

Cancelling(me) ==
  [me EXCEPT !.pc = "saveRequest",
             !.rdoc = [@ EXCEPT !.status = "CANCELLED", !.cancelledAt = TRUE]]

CancelLoad(h, r) ==
  LET doc == requests[r]
      me  == [Idle EXCEPT !.pc = "releaseLoad", !.op = "cancel", !.req = r,
                          !.rload = doc, !.rdoc = doc]
  IN
  /\ "cancel" \in Ops
  /\ Accepts(h, r)
  /\ doc.status # "ABSENT"
  /\ ~ isTerminalStatus(doc.status)
  /\ canTransition(doc.status, "CANCELLED")
  /\ Goes(h, IF doc.assignedProviderId = NoProvider THEN Cancelling(me) ELSE me)
  /\ UNCHANGED << requests, providers, everVerified >>

-----------------------------------------------------------------------------
(***************************************************************************)
(* assignProvider, by an admin, while the request waits for a provider.    *)
(***************************************************************************)
\* Mutated: assertNotTerminal alone.
AwaitsProvider_NotTerminal(doc) ==
  doc.status # "ABSENT" /\ ~ isTerminalStatus(doc.status)

AwaitsProvider(doc) == doc.status \in { "SEARCHING_PROVIDER", "CREATED" }

AssignLoad(h, r, p) ==
  /\ "assign" \in Ops
  /\ Accepts(h, r)
  /\ AwaitsProvider(requests[r])
  /\ Goes(h, [Idle EXCEPT !.pc = "loadProvider", !.op = "assign", !.req = r,
                          !.rload = requests[r], !.rdoc = requests[r],
                          !.prov = p])
  /\ UNCHANGED << requests, providers, everVerified >>

AssignLoadProvider(h) ==
  LET me  == handler[h]
      doc == providers[me.prov]
  IN
  /\ me.pc = "loadProvider"
  /\ Goes(h, IF me.rdoc.assignedProviderId = NoProvider
               THEN assignProviderToRequest(me, me.prov, doc)
               ELSE [me EXCEPT !.pc = "releaseLoad",
                               !.pload = doc, !.pdoc = doc])
  /\ UNCHANGED << requests, providers, everVerified >>

(***************************************************************************)
(* releaseProviderIfAssigned, inside cancelRequest and assignProvider.  It *)
(* sets AVAILABLE whatever the provider is doing; the save writes nothing  *)
(* when the provider it loaded was AVAILABLE already.                      *)
(***************************************************************************)
AfterRelease(me) ==
  IF me.op = "assign" THEN assignProviderToRequest(me, me.prov, me.pload)
                      ELSE Cancelling(me)

\* Mutated: returns at once when there is nothing to release.
ReleaseLoad_ReturnsEarly(h) ==
  LET me  == handler[h]
      old == providers[me.rdoc.assignedProviderId]
  IN
  /\ me.pc = "releaseLoad"
  /\ Goes(h, IF old.availabilityStatus = "AVAILABLE"
               THEN Idle
               ELSE [me EXCEPT !.pc = "releaseSave"])
  /\ UNCHANGED << requests, providers, everVerified >>

ReleaseLoad(h) ==
  LET me  == handler[h]
      old == providers[me.rdoc.assignedProviderId]
  IN
  /\ me.pc = "releaseLoad"
  /\ Goes(h, IF old.availabilityStatus = "AVAILABLE"
               THEN AfterRelease(me)
               ELSE [me EXCEPT !.pc = "releaseSave"])
  /\ UNCHANGED << requests, providers, everVerified >>

ReleaseSave(h) ==
  LET me == handler[h] IN
  /\ me.pc = "releaseSave"
  /\ providers' = [providers EXCEPT
       ![me.rdoc.assignedProviderId].availabilityStatus = "AVAILABLE"]
  /\ Goes(h, AfterRelease(me))
  /\ UNCHANGED << requests, everVerified >>

-----------------------------------------------------------------------------
(***************************************************************************)
(* provider.service.ts: the provider's own updateAvailability and the      *)
(* admin's updateKycStatus.                                                *)
(***************************************************************************)
ProfileEdit(h, p, edited) ==
  Goes(h, [Idle EXCEPT !.pc = "saveProvider", !.op = "profile", !.prov = p,
                       !.pload = providers[p], !.pdoc = edited])

\* Mutated: only a change of availability is looked at.
goingOnline_ByAvailability(doc, availability, online) ==
  availability \notin { "UNSET", "OFFLINE" } /\ doc.onlineStatus = "ONLINE"

goingOnline(doc, availability, online) ==
  \/ online = "ONLINE"
  \/ availability \notin { "UNSET", "OFFLINE" } /\ doc.onlineStatus = "ONLINE"

\* An input field may be left out of the body, not both of them.
AvailabilityLoad(h, p, availability, online) ==
  LET doc == providers[p]
      newOnline == IF online = "UNSET" THEN doc.onlineStatus ELSE online
      chosen == IF availability = "UNSET" THEN doc.availabilityStatus
                                          ELSE availability
  IN
  /\ "availability" \in Ops
  /\ handler[h].pc = "idle"
  /\ << availability, online >> # << "UNSET", "UNSET" >>
  /\ goingOnline(doc, availability, online) => doc.kycStatus = "VERIFIED"
  /\ ProfileEdit(h, p, [doc EXCEPT
        !.onlineStatus = newOnline,
        !.availabilityStatus =
          IF newOnline = "ONLINE" /\ chosen = "OFFLINE" THEN "AVAILABLE"
                                                        ELSE chosen])
  /\ UNCHANGED << requests, providers, everVerified >>

\* Mutated: a revoked provider stays on line.
KycEdit_StaysOnline(doc, kyc) ==
  IF kyc = "VERIFIED"
    THEN [doc EXCEPT !.kycStatus = kyc]
    ELSE [doc EXCEPT !.kycStatus = kyc, !.availabilityStatus = "OFFLINE"]

KycEdit(doc, kyc) ==
  IF kyc = "VERIFIED"
    THEN [doc EXCEPT !.kycStatus = kyc]
    ELSE [doc EXCEPT !.kycStatus = kyc,
                     !.onlineStatus = "OFFLINE",
                     !.availabilityStatus = "OFFLINE"]

KycLoad(h, p, kyc) ==
  /\ "kyc" \in Ops
  /\ handler[h].pc = "idle"
  /\ ProfileEdit(h, p, KycEdit(providers[p], kyc))
  /\ UNCHANGED << requests, providers, everVerified >>

SaveProvider(h) ==
  LET p == handler[h].prov IN
  /\ handler[h].pc = "saveProvider"
  /\ StoreProvider(h)
  /\ everVerified' = IF providers'[p].kycStatus = "VERIFIED"
                       THEN everVerified \cup { p } ELSE everVerified
  /\ Goes(h, Idle)
  /\ UNCHANGED requests

-----------------------------------------------------------------------------
(***************************************************************************)
(* Faults.  The process dies, the connection drops or a save is rejected:  *)
(* what the handler had left to do never happens.  When one of two         *)
(* parallel saves is rejected, the other one is on its way all the same.   *)
(***************************************************************************)
Abort(h) ==
  /\ Faults
  /\ handler[h].pc # "idle"
  /\ Goes(h, Idle)
  /\ UNCHANGED << requests, providers, everVerified >>

OneSaveFails(h) ==
  /\ Faults
  /\ handler[h].pc = "assignSaveBoth"
  /\ \E left \in { "assignSaveRequest", "assignSaveProvider" } :
       Goes(h, [handler[h] EXCEPT !.pc = left])
  /\ UNCHANGED << requests, providers, everVerified >>

-----------------------------------------------------------------------------
\* A caller's request arrives.
Accept(h) ==
  \/ \E r \in Request :
       \/ CreateInsert(h, r)
       \/ CancelLoad(h, r)
       \/ \E to \in BreakdownStatus : UpdateStatusLoad(h, r, to)
       \/ \E p \in Provider : AssignLoad(h, r, p)
  \/ \E p \in Provider :
       \/ \E a \in AvailabilityStatus \cup { "UNSET" },
             o \in OnlineStatus \cup { "UNSET" } : AvailabilityLoad(h, p, a, o)
       \/ \E k \in KycInput : KycLoad(h, p, k)

\* An await of the handler in slot h is resolved.
Continue(h) ==
  \/ CreateSaveSearching(h)
  \/ FindNearest(h)
  \/ AssignLoadProvider(h)
  \/ ReleaseLoad(h)
  \/ ReleaseSave(h)
  \/ AssignSaveRequest(h)
  \/ AssignSaveProvider(h)
  \/ CompleteLoad(h)
  \/ CompleteSave(h)
  \/ SaveRequest(h)
  \/ SaveProvider(h)

Next ==
  \E h \in Handler : Accept(h) \/ Continue(h) \/ Abort(h) \/ OneSaveFails(h)

Spec == Init /\ [][Next]_vars

=============================================================================
