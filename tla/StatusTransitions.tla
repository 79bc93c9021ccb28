------------------------- MODULE StatusTransitions -------------------------
(***************************************************************************)
(* The status alphabet of a breakdown request and the table that the HTTP  *)
(* handlers consult before they change a status                            *)
(* (modules/breakdown-requests/utils/status-transitions.ts and             *)
(* constants/breakdown.enums.ts).  No variables: a pure table.             *)
(***************************************************************************)

BreakdownStatus ==
  { "CREATED", "SEARCHING_PROVIDER", "PROVIDER_ASSIGNED", "ON_THE_WAY",
    "ARRIVED", "IN_PROGRESS", "COMPLETED", "CANCELLED" }

ALLOWED_TRANSITIONS ==
  [ CREATED            |-> { "SEARCHING_PROVIDER", "CANCELLED" },
    SEARCHING_PROVIDER |-> { "PROVIDER_ASSIGNED", "CANCELLED" },
    PROVIDER_ASSIGNED  |-> { "ON_THE_WAY", "CANCELLED" },
    ON_THE_WAY         |-> { "ARRIVED", "CANCELLED" },
    ARRIVED            |-> { "IN_PROGRESS", "CANCELLED" },
    IN_PROGRESS        |-> { "COMPLETED", "CANCELLED" },
    COMPLETED          |-> {},
    CANCELLED          |-> {} ]

canTransition(from, to) == to \in ALLOWED_TRANSITIONS[from]

isTerminalStatus(status) == status \in { "COMPLETED", "CANCELLED" }

(***************************************************************************)
(* The statuses of a request that a provider is working on.                *)
(***************************************************************************)
EngagedStatus ==
  { "PROVIDER_ASSIGNED", "ON_THE_WAY", "ARRIVED", "IN_PROGRESS" }

=============================================================================
