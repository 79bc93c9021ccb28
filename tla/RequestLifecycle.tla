------------------------- MODULE RequestLifecycle --------------------------
(***************************************************************************)
(* What the breakdown-request engine promises about ONE field: the status  *)
(* that clients poll and are notified of.  A request appears as CREATED,   *)
(* moves along the transition table one edge at a time, may be dispatched  *)
(* straight from CREATED or SEARCHING_PROVIDER, and stays in a terminal    *)
(* status for ever.  Nothing is said of handlers, documents or providers:  *)
(* Dispatch.tla has those, and is shown to implement this module when no   *)
(* two handlers work on the same request at once.                          *)
(***************************************************************************)
EXTENDS StatusTransitions

CONSTANT Request    \* the identities of breakdown requests

VARIABLE status     \* status[r]: the stored status, "ABSENT" before creation

Init == status = [r \in Request |-> "ABSENT"]

\* createRequest inserts the document (breakdown.service.ts:209-222).
Create(r) ==
  /\ status[r] = "ABSENT"
  /\ status' = [status EXCEPT ![r] = "CREATED"]

\* A change that the table allows: the second save of createRequest,
\* updateStatus and cancelRequest.
Advance(r) ==
  \E s \in BreakdownStatus :
    /\ status[r] # "ABSENT"
    /\ canTransition(status[r], s)
    /\ status' = [status EXCEPT ![r] = s]

\* assignProvider does not consult the table: its own guard accepts CREATED
\* as well as SEARCHING_PROVIDER (breakdown.service.ts:383-391).
Dispatched(r) ==
  /\ status[r] \in { "CREATED", "SEARCHING_PROVIDER" }
  /\ status' = [status EXCEPT ![r] = "PROVIDER_ASSIGNED"]

Next == \E r \in Request : Create(r) \/ Advance(r) \/ Dispatched(r)

Spec == Init /\ [][Next]_status

-----------------------------------------------------------------------------

TypeOK == status \in [Request -> BreakdownStatus \cup { "ABSENT" }]

\* Once COMPLETED or CANCELLED, always that: no step re-opens a request
\* (assertNotTerminal, breakdown.service.ts:88-92).
TerminalIsFinal ==
  [][\A r \in Request : isTerminalStatus(status[r]) => status'[r] = status[r]]_status

=============================================================================
