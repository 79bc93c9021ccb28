----------------------------- MODULE MCDispatch -----------------------------
(***************************************************************************)
(* Model values and symmetry for TLC's runs of Dispatch.  Requests,        *)
(* providers of the same seed status and handler slots are interchangeable.*)
(***************************************************************************)
EXTENDS DispatchProperties, TLC

CONSTANTS h1, h2, r1, r2, r3, p1, p2

TwoHandlers == { h1, h2 }
OneRequest  == { r1 }
TwoRequests == { r1, r2 }
ThreeRequests == { r1, r2, r3 }
OneProvider == { p1 }
TwoProviders == { p1, p2 }
NoSeed      == {}

AllOps == OpName

\* Admins use the assign and cancel endpoints, never the status endpoint.
NoAdminStatus == OpName \ { "adminStatus" }

\* The dispatcher alone: nobody edits a provider's profile.
DispatchOps == { "create", "providerStatus", "assign", "cancel" }

\* The dispatcher, while admins review providers.
DispatchKycOps == DispatchOps \cup { "kyc" }

\* The dispatcher, with admins on the status endpoint as well.
RequestOps == DispatchOps \cup { "adminStatus" }

\* The dispatcher's automatic path only.
CreateOps == { "create" }

\* One decision each way; PENDING and REJECTED are handled alike.
Decisions == { "VERIFIED", "REJECTED" }

Symmetry == Permutations(Handler) \cup Permutations(Request)

=============================================================================
