----------------------------- MODULE MCRecords -----------------------------
(***************************************************************************)
(* The parts that keep records of their own: vehicles, bank details, the   *)
(* search for a provider, diagnoses, lists in pages.  They have no state   *)
(* in common, so TLC takes them one at a time: a behaviour is about one    *)
(* part, and the others stay as they are initially.                        *)
(*                                                                         *)
(* Vehicles.  `keeper': one call at a time, over three.  `garage': handlers*)
(* of two calls overlap, over two vehicles.  Bank details.  `orderly':     *)
(* calls and the migration are kept apart.  `payout': they overlap.  The   *)
(* configuration asks for the former of each.                              *)
(***************************************************************************)
EXTENDS Vehicles, ProviderProfile, ProviderSelection, AiDiagnosis, PagedList

CONSTANTS x1, x2, d1, d2

Symmetry == Permutations({ x1, x2 }) \cup Permutations({ d1, d2 })

-----------------------------------------------------------------------------
VARIABLE part

partsVars ==
  << part, vehicleVars, profileVars, selectionVars, diagnosisVars, pagedVars >>

Overlapping == INSTANCE Vehicles WITH VehicleOverlap <- TRUE
Payout      == INSTANCE ProviderProfile WITH Apart <- FALSE

\* One start of the three parts that have several.
FirstSearch == SelectionInit /\ garages = [p \in Candidate |-> Busy]
                             /\ preferred = << "MECHANIC" >>
BlankCall   == DiagnosisInit /\ car = "none" /\ ask.message.blank /\ ~ ask.hasKey
EmptyList   == PagedInit /\ rows = << >>

PartsInit ==
  /\ part \in { "garage", "keeper", "payout", "orderly", "search", "diagnosis", "list" }
  /\ VehicleInit /\ ProfileInit
  /\ \/ /\ part \in { "garage", "keeper", "payout", "orderly" }
        /\ FirstSearch /\ BlankCall /\ EmptyList
     \/ part = "search"    /\ SelectionInit /\ BlankCall     /\ EmptyList
     \/ part = "diagnosis" /\ FirstSearch   /\ DiagnosisInit /\ EmptyList
     \/ part = "list"      /\ FirstSearch   /\ BlankCall     /\ PagedInit

\* Bound of `payout': calls overlap when they are of one owner (no call
\* touches the profile of another).
OneOwner ==
  \A c, d \in ProfileCall :
    (profileCalls'[c].pc # "idle" /\ profileCalls'[d].pc # "idle") =>
       profileCalls'[c].own = profileCalls'[d].own

\* Bound of `garage'.
TwoVehicles ==
  Cardinality({ v \in Vehicle : vehicles'[v].state # "absent"
                                \/ \E c \in VehicleCall : calls'[c].veh = v }) <= 2

PartsNext ==
  /\ UNCHANGED part
  /\ \/ /\ \/ part = "garage" /\ Overlapping!VehicleNext /\ TwoVehicles
           \/ part = "keeper" /\ VehicleNext
        /\ UNCHANGED << profileVars, selectionVars, diagnosisVars, pagedVars >>
     \/ /\ \/ part = "payout" /\ Payout!ProfileNext /\ OneOwner
           \/ part = "orderly" /\ ProfileNext
        /\ UNCHANGED << vehicleVars, selectionVars, diagnosisVars, pagedVars >>
     \/ /\ part = "search" /\ SelectionNext
        /\ UNCHANGED << vehicleVars, profileVars, diagnosisVars, pagedVars >>
     \/ /\ part = "diagnosis" /\ DiagnosisNext
        /\ UNCHANGED << vehicleVars, profileVars, selectionVars, pagedVars >>
     \/ /\ part = "list" /\ PagedNext
        /\ UNCHANGED << vehicleVars, profileVars, selectionVars, diagnosisVars >>

PartsSpec == PartsInit /\ [][PartsNext]_partsVars

-----------------------------------------------------------------------------
\* Calls one at a time, cut off anywhere: never two primary vehicles in the
\* list, and only a deleted vehicle makes the unique index refuse what
\* ensureRegistrationAvailable let through (createVehicle, updateVehicle).
KeeperKeepsOrder == part = "keeper" => OnePrimary /\ RefusedForDeletedOnly

\* An owner's calls and the migration kept apart: what is stored is what the
\* owner was last told is stored (updateMyProfile, migratePlaintextBankDetails).
ToldIsStored == part = "orderly" => ConfirmedIsStored

=============================================================================
