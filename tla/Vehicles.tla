------------------------------ MODULE Vehicles ------------------------------
(***************************************************************************)
(* The vehicles of one owner (modules/vehicles/services/vehicle.service.ts)*)
(* No operation touches two owners.  createVehicle, updateVehicle and      *)
(* deleteVehicle are handlers of several awaits each: check the            *)
(* registration, clear the primary flag of the others, then write.         *)
(*                                                                         *)
(* A vehicle is deleted by marking it (softDelete): finds no longer see it *)
(* (soft-delete.plugin.ts), but it stays in the collection, in its unique  *)
(* index, and within reach of updateMany.                                  *)
(***************************************************************************)
EXTENDS Naturals, FiniteSets

CONSTANTS
  Vehicle,        \* identities of vehicles, created or not
  Plate,          \* registration numbers
  VehicleCall,    \* slots for handlers in flight
  NoVehicle,      \* null
  NoPlate,        \* undefined
  VehicleOverlap, \* may two handlers of this owner be in flight?
  VehicleFaults   \* may a handler be cut off at an await?

ASSUME VehicleAssumption ==
  /\ NoVehicle \notin Vehicle /\ "unsure" \notin Vehicle
  /\ NoPlate \notin Plate
  /\ { VehicleOverlap, VehicleFaults } \subseteq BOOLEAN

VARIABLES
  vehicles,       \* the vehicles collection
  calls,          \* calls[c]: what the handler in slot c holds
  chosen          \* history: the vehicle that the owner's last undisturbed
                  \* choice made primary, NoVehicle, or "unsure"

vehicleVars == << vehicles, calls, chosen >>

VehicleDoc ==
  [ state   : { "absent", "kept", "deleted" },
    plate   : Plate \cup { NoPlate },
    primary : BOOLEAN ]

AbsentVehicle == [ state |-> "absent", plate |-> NoPlate, primary |-> FALSE ]

CallState ==
  [ pc      : { "idle", "check", "clear", "insert", "save", "delete" },
    op      : { "none", "create", "update", "delete" },
    veh     : Vehicle \cup { NoVehicle },
    loaded  : VehicleDoc,                     \* as it was found
    plate   : Plate \cup { NoPlate },         \* input.registrationNumber
    primary : { "set", "unset", "keep" },     \* input.isPrimaryVehicle
    alone   : BOOLEAN ]                       \* history: no other in flight

IdleCall ==
  [ pc |-> "idle", op |-> "none", veh |-> NoVehicle, loaded |-> AbsentVehicle,
    plate |-> NoPlate, primary |-> "keep", alone |-> FALSE ]

VehicleInit ==
  /\ vehicles = [v \in Vehicle |-> AbsentVehicle]
  /\ calls = [c \in VehicleCall |-> IdleCall]
  /\ chosen = NoVehicle

-----------------------------------------------------------------------------
CallGoes(c, local) == calls' = [calls EXCEPT ![c] = local]

\* What findOne can see.
Kept == { v \in Vehicle : vehicles[v].state = "kept" }

ListedPrimaries == { v \in Kept : vehicles[v].primary }

\* Mutated: only an update looks.
PlateInUse_OnUpdate(plate, excluded) ==
  excluded # NoVehicle /\ \E v \in Kept \ { excluded } : vehicles[v].plate = plate

\* findByOwnerAndRegistration
PlateInUse(plate, excluded) ==
  \E v \in Kept \ { excluded } : vehicles[v].plate = plate

\* The unique index on (ownerId, registrationNumber).
IndexRejects(v, plate) ==
  \E u \in Vehicle \ { v } :
    vehicles[u].state # "absent" /\ vehicles[u].plate = plate

\* A handler starts; those in flight are no longer alone.
CallAccepted(c, local) ==
  /\ calls[c].pc = "idle"
  /\ VehicleOverlap \/ \A d \in VehicleCall : calls[d].pc = "idle"
  /\ calls' = [d \in VehicleCall |->
                 IF d = c
                 THEN [local EXCEPT !.alone = \A e \in VehicleCall \ {c} :
                                                 calls[e].pc = "idle"]
                 ELSE [calls[d] EXCEPT !.alone = FALSE]]

\* The owner's choice, once a write of c has given v this flag.
ChoiceAfter(c, v, primary) ==
  CASE primary = "keep"                       -> chosen
    [] primary # "keep" /\ ~ calls[c].alone   -> "unsure"
    [] primary = "set" /\ calls[c].alone      -> v
    [] OTHER -> IF chosen = v THEN NoVehicle ELSE chosen

AfterCheck(op, primary) ==
  IF primary = "set" THEN "clear" ELSE IF op = "create" THEN "insert" ELSE "save"

-----------------------------------------------------------------------------
(***************************************************************************)
(* createVehicle                                                           *)
(***************************************************************************)
CreateVehicle(c, v, plate, primary) ==
  /\ vehicles[v].state = "absent"
  /\ \A d \in VehicleCall : calls[d].veh # v
  /\ primary # "keep"                        \* it defaults to false
  /\ ~ PlateInUse(plate, NoVehicle)
  /\ CallAccepted(c, [ IdleCall EXCEPT !.pc = AfterCheck("create", primary),
                         !.op = "create", !.veh = v, !.plate = plate,
                         !.primary = primary ])
  /\ UNCHANGED << vehicles, chosen >>

InsertVehicle(c) ==
  LET me == calls[c] IN
  /\ me.pc = "insert"
  /\ ~ IndexRejects(me.veh, me.plate)
  /\ vehicles' = [vehicles EXCEPT ![me.veh] =
                    [state |-> "kept", plate |-> me.plate,
                     primary |-> me.primary = "set"]]
  /\ chosen' = ChoiceAfter(c, me.veh, me.primary)
  /\ CallGoes(c, IdleCall)

-----------------------------------------------------------------------------
(***************************************************************************)
(* updateVehicle.  Only the registration and the flag matter here; another *)
(* field is an update that keeps both.                                     *)
(***************************************************************************)
UpdateVehicle(c, v, plate, primary) ==
  /\ v \in Kept
  /\ CallAccepted(c, [ IdleCall EXCEPT
                         !.pc = IF plate # NoPlate THEN "check"
                                ELSE AfterCheck("update", primary),
                         !.op = "update", !.veh = v, !.loaded = vehicles[v],
                         !.plate = plate, !.primary = primary ])
  /\ UNCHANGED << vehicles, chosen >>

EnsureRegistrationAvailable(c) ==
  LET me == calls[c] IN
  /\ me.pc = "check"
  /\ CallGoes(c, IF PlateInUse(me.plate, me.veh) THEN IdleCall
                 ELSE [me EXCEPT !.pc = AfterCheck("update", me.primary)])
  /\ UNCHANGED << vehicles, chosen >>

\* Mutated: the others keep their flag.
Cleared_None(c, v) == FALSE

\* unsetPrimaryForOwner: an updateMany, which no /^find/ hook narrows, so it
\* reaches deleted vehicles too.
Cleared(c, v) == v # calls[c].veh

UnsetPrimary(c) ==
  LET me == calls[c] IN
  /\ me.pc = "clear"
  /\ vehicles' = [v \in Vehicle |->
                    IF Cleared(c, v) THEN [vehicles[v] EXCEPT !.primary = FALSE]
                                     ELSE vehicles[v]]
  /\ chosen' = "unsure"
  /\ CallGoes(c, [me EXCEPT !.pc = IF me.op = "create" THEN "insert" ELSE "save"])

\* Mutated: the whole document is replaced by the one in memory.
SavedVehicle_Whole(stored, me) ==
  [ me.loaded EXCEPT
      !.plate = IF me.plate = NoPlate THEN @ ELSE me.plate,
      !.primary = IF me.primary = "keep" THEN @ ELSE me.primary = "set" ]

\* What save() writes: the fields whose value differs from the one found.
SavedVehicle(stored, me) ==
  LET plate == IF me.plate = NoPlate THEN me.loaded.plate ELSE me.plate
      primary == IF me.primary = "keep" THEN me.loaded.primary
                                        ELSE me.primary = "set"
  IN [ stored EXCEPT
         !.plate = IF plate = me.loaded.plate THEN @ ELSE plate,
         !.primary = IF primary = me.loaded.primary THEN @ ELSE primary ]

SaveVehicle(c) ==
  LET me == calls[c]
      doc == SavedVehicle(vehicles[me.veh], me) IN
  /\ me.pc = "save"
  /\ ~ IndexRejects(me.veh, doc.plate)
  /\ vehicles' = [vehicles EXCEPT ![me.veh] = doc]
  /\ chosen' = ChoiceAfter(c, me.veh, me.primary)
  /\ CallGoes(c, IdleCall)

\* The unique index refuses the write (E11000): nothing is written, what the
\* handler did before stays.
WriteRejected(c) ==
  LET me == calls[c] IN
  /\ \/ me.pc = "insert" /\ IndexRejects(me.veh, me.plate)
     \/ me.pc = "save" /\ IndexRejects(me.veh,
                            SavedVehicle(vehicles[me.veh], me).plate)
  /\ CallGoes(c, IdleCall)
  /\ UNCHANGED << vehicles, chosen >>

-----------------------------------------------------------------------------
(***************************************************************************)
(* deleteVehicle                                                           *)
(***************************************************************************)
DeleteVehicle(c, v) ==
  /\ v \in Kept
  /\ CallAccepted(c, [ IdleCall EXCEPT !.pc = "delete", !.op = "delete",
                         !.veh = v, !.loaded = vehicles[v] ])
  /\ UNCHANGED << vehicles, chosen >>

\* softDelete: findByIdAndUpdate sees no deleted vehicle.
SoftDelete(c) ==
  LET v == calls[c].veh IN
  /\ calls[c].pc = "delete"
  /\ IF v \in Kept
     THEN /\ vehicles' = [vehicles EXCEPT ![v].state = "deleted"]
          /\ chosen' = IF chosen = v THEN NoVehicle ELSE chosen
     ELSE UNCHANGED << vehicles, chosen >>
  /\ CallGoes(c, IdleCall)

-----------------------------------------------------------------------------
\* The process or its connection is gone before the next await is resolved.
AbandonCall(c) ==
  /\ VehicleFaults
  /\ calls[c].pc # "idle"
  /\ CallGoes(c, IdleCall)
  /\ UNCHANGED << vehicles, chosen >>

VehicleNext ==
  \E c \in VehicleCall :
    \/ \E v \in Vehicle, p \in Plate, f \in { "set", "unset" } :
         CreateVehicle(c, v, p, f)
    \/ \E v \in Vehicle, p \in Plate \cup { NoPlate },
          f \in { "set", "unset", "keep" } : UpdateVehicle(c, v, p, f)
    \/ \E v \in Vehicle : DeleteVehicle(c, v)
    \/ InsertVehicle(c) \/ EnsureRegistrationAvailable(c) \/ UnsetPrimary(c)
    \/ SaveVehicle(c) \/ WriteRejected(c) \/ SoftDelete(c) \/ AbandonCall(c)

VehicleSpec == VehicleInit /\ [][VehicleNext]_vehicleVars

-----------------------------------------------------------------------------
(***************************************************************************)
(* Properties                                                              *)
(***************************************************************************)
\* Documents, locals and the history have the shape that vehicle.schema.ts
\* and the handlers of vehicle.service.ts give them; what is stored has a
\* registration number.
VehicleTypeOK ==
  /\ vehicles \in [Vehicle -> VehicleDoc]
  /\ \A v \in Vehicle : vehicles[v].state = "absent" <=> vehicles[v].plate = NoPlate
  /\ calls \in [VehicleCall -> CallState]
  /\ chosen \in Vehicle \cup { NoVehicle, "unsure" }

\* The owner's choice stands: once a call that nothing overlapped has made a
\* vehicle primary, it is the only primary vehicle in the list, until another
\* call to choose begins to write; whatever races, failures and deletions went
\* before or go on meanwhile (vehicle.service.ts:49-53, 102-127).
ChoiceStands ==
  chosen # "unsure" =>
    ListedPrimaries = IF chosen = NoVehicle THEN {} ELSE { chosen }

\* The primary vehicle is the one that the owner chose, in a list of whole
\* documents: both of the above (handlePrimaryVehicle,
\* vehicle.service.ts:37-44).
PrimaryIsTheChoice == VehicleTypeOK /\ ChoiceStands

\* A deleted vehicle never comes back, even when an update that found it
\* before the deletion is saved after it (vehicle.service.ts:96-127).
DeletedStaysDeleted ==
  [][\A v \in Vehicle :
       vehicles[v].state = "deleted" => vehicles'[v].state = "deleted"]_vehicleVars

\* Calls one at a time, cut off anywhere: never two primary vehicles in the
\* list, because the others are cleared before one is written
\* (vehicle.service.ts:49-51, 102-104).
OnePrimary == Cardinality(ListedPrimaries) <= 1

\* Calls one at a time: the index refuses what the check has let through only
\* on account of a deleted vehicle, whose registration it still holds
\* (vehicle.schema.ts:57, soft-delete.plugin.ts:13-19).
RefusedForDeletedOnly ==
  \A c \in VehicleCall :
    LET me == calls[c]
        plate == IF me.pc = "insert" THEN me.plate
                 ELSE SavedVehicle(vehicles[me.veh], me).plate
    IN (me.pc \in { "insert", "save" } /\ IndexRejects(me.veh, plate)) =>
         \E u \in Vehicle : vehicles[u].state = "deleted" /\ vehicles[u].plate = plate

=============================================================================
