------------------------- MODULE DispatchProperties -------------------------
(***************************************************************************)
(* What is claimed of Dispatch.  The claims come in three groups, by how   *)
(* much concurrency they survive: any interleaving and any fault; no two   *)
(* handlers on the same request; one handler at a time.                    *)
(***************************************************************************)
EXTENDS Dispatch

\* Every stored document and every handler's locals have the shape the
\* schemas give them.
TypeOK ==
  /\ requests \in [Request -> RequestDoc]
  /\ providers \in [Provider -> ProviderDoc]
  /\ handler \in [Handler -> HandlerState]
  /\ everVerified \subseteq Provider

ActiveJobs(p) ==
  { r \in Request : /\ requests[r].assignedProviderId = p
                    /\ requests[r].status \in EngagedStatus }

CompletedJobs(p) ==
  { r \in Request : /\ requests[r].assignedProviderId = p
                    /\ requests[r].status = "COMPLETED" }

\* A document's arrival and completion times account for its status.
Milestones(doc) ==
  /\ doc.status \in { "ARRIVED", "IN_PROGRESS", "COMPLETED" } => doc.arrivedAt
  /\ doc.status = "COMPLETED" => doc.completedAt
  /\ doc.completedAt => doc.arrivedAt

Quiescent == \A h \in Handler : handler[h].pc = "idle"

-----------------------------------------------------------------------------
(***************************************************************************)
(* Any interleaving, any fault.                                            *)
(***************************************************************************)

\* A request's timestamps account for its status, however handlers overlap
\* and whichever of their writes is lost: nothing is under repair whose
\* provider has not arrived, nothing is COMPLETED without both times, and a
\* completion time is never there without an arrival time.  (updateStatus sets
\* them next to the status, breakdown.service.ts:340-347, but saves a document
\* loaded several awaits before.)
MilestonesRecorded == \A r \in Request : Milestones(requests[r])

\* CANCELLED is dated too, as long as admins cancel by the cancel endpoint:
\* the status endpoint accepts CANCELLED and leaves cancelledAt null.
CancellationDated ==
  "adminStatus" \notin Ops =>
    \A r \in Request : requests[r].status = "CANCELLED" => requests[r].cancelledAt

\* A request that some provider is said to be working on, or to have
\* finished, names that provider, as long as admins dispatch by the assign
\* endpoint: the status endpoint lets an admin write PROVIDER_ASSIGNED with
\* nobody assigned (breakdown.service.ts:327-336).
EngagedHasProvider ==
  "adminStatus" \notin Ops =>
    \A r \in Request :
      requests[r].status \in EngagedStatus \cup { "COMPLETED" } =>
        requests[r].assignedProviderId # NoProvider

\* What a status says has really happened, however handlers overlap and
\* whichever of their writes is lost: both of the above (updateStatus and
\* cancelRequest set the fields that go with a status on the document they
\* save, breakdown.service.ts:338-347, 383-391, 444-447).
StatusIsAccountedFor == CancellationDated /\ EngagedHasProvider

\* Once a request has named a provider it always names one, and the
\* assignment is dated: no stale save takes an assignment back
\* (createRequest's second save runs while an admin may already have assigned,
\* breakdown.service.ts:224-225).
AssignmentNeverWithdrawn ==
  [][\A r \in Request :
       requests[r].assignedProviderId # NoProvider =>
         /\ requests'[r].assignedProviderId # NoProvider
         /\ requests'[r].assignedAt]_vars

\* Until an admin's VERIFIED has been stored for the first time, a provider
\* is never online, never named by a request and never credited with a job,
\* however the handlers that read the KYC status are delayed
\* (docs/MIGRATION-P1-SECURITY.md:30).
NoServiceBeforeFirstVerification ==
  \A p \in Provider \ everVerified :
    /\ providers[p].onlineStatus = "OFFLINE"
    /\ providers[p].totalCompletedRequests = 0
    /\ \A r \in Request : requests[r].assignedProviderId # p

\* A request leaves CREATED, the status that no query of the dispatcher
\* looks for, if no write is lost (breakdown.service.ts:224-225).
CreatedIsTransient ==
  \A r \in Request : requests[r].status = "CREATED"
                       ~> requests[r].status # "CREATED"

\* A cancellation that has passed its checks takes effect, if no write is
\* lost, whatever else happens to the request and to its provider meanwhile
\* (cancelRequest releases the provider first, breakdown.service.ts:442-447).
CancelTakesEffect ==
  \A r \in Request :
    (\E h \in Handler : handler[h].op = "cancel" /\ handler[h].req = r)
      ~> requests[r].status = "CANCELLED"

-----------------------------------------------------------------------------
(***************************************************************************)
(* No two handlers on the same request (Overlap = FALSE), any fault.       *)
(***************************************************************************)
Lifecycle ==
  INSTANCE RequestLifecycle WITH status <- [r \in Request |-> requests[r].status]

\* The stored statuses behave as RequestLifecycle says: one edge of the table
\* at a time, dispatch only of a waiting request, terminal for ever
\* (status-transitions.ts, breakdown.service.ts:88-92, 331-336, 383-391).
ImplementsLifecycle == Lifecycle!Spec

\* The same promise for terminal statuses alone.
TerminalIsFinal ==
  [][\A r \in Request :
       isTerminalStatus(requests[r].status) =>
         requests'[r].status = requests[r].status]_vars

-----------------------------------------------------------------------------
(***************************************************************************)
(* One handler at a time.                                                  *)
(***************************************************************************)

\* Who is online is verified: revoking the KYC also takes the provider off
\* line, and going on line asks for the KYC (kyc.util.ts:6-13,
\* provider.service.ts:133-151, 191-196).
OnlineImpliesVerified ==
  \A p \in Provider :
    providers[p].onlineStatus = "ONLINE" => providers[p].kycStatus = "VERIFIED"

\* A finished job is never missing from the provider's count, even when a
\* handler dies between its two saves: the count is saved first
\* (breakdown.service.ts:349-360).  It may be counted twice.
CompletionsCounted ==
  \A p \in Provider :
    Cardinality(CompletedJobs(p)) <= providers[p].totalCompletedRequests

\* A provider works on one request at a time (docs/phases/STEP-08:22-23: the
\* search is for AVAILABLE providers, and the one assigned becomes BUSY).
OneActiveJob == \A p \in Provider : Cardinality(ActiveJobs(p)) <= 1

\* Between two calls, a provider is BUSY exactly when one request has it at
\* work, otherwise AVAILABLE for the next, and credited with exactly the jobs
\* it finished: no call leaks a provider or books it twice.  (Without faults,
\* and while providers do not edit their own availability.)
DispatchConsistent ==
  Quiescent =>
    \A p \in SeededProvider :
      /\ providers[p].availabilityStatus =
           IF ActiveJobs(p) = {} THEN "AVAILABLE" ELSE "BUSY"
      /\ Cardinality(ActiveJobs(p)) <= 1
      /\ providers[p].totalCompletedRequests = Cardinality(CompletedJobs(p))

=============================================================================
