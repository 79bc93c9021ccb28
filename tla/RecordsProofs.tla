--------------------------- MODULE RecordsProofs ---------------------------
(***************************************************************************)
(* Theorems about the parts that keep records of their own, for every      *)
(* choice of their constants: the vehicles of an owner (Vehicles), bank    *)
(* details (ProviderProfile), diagnoses (AiDiagnosis), the search for a    *)
(* provider (ProviderSelection) and lists in pages (PagedList).            *)
(***************************************************************************)
EXTENDS MCRecords, FiniteSetTheorems, SequenceTheorems, NaturalSets, TLAPS

-----------------------------------------------------------------------------
(***************************************************************************)
(* The vehicles of one owner, for any numbers of vehicles, registrations   *)
(* and calls in flight: documents keep their shape, and a deleted one never*)
(* comes back.                                                             *)
(***************************************************************************)
\* What a call in flight holds.  A create is the only one that knows of its
\* vehicle, which is not there yet; an update and a delete found theirs, with
\* a registration number, and a document never goes away again.
Creates(c) ==
  LET me == calls[c] IN
  /\ me.veh \in Vehicle /\ me.plate \in Plate /\ me.primary # "keep"
  /\ vehicles[me.veh].state = "absent"
  /\ \A d \in VehicleCall \ { c } : calls[d].veh # me.veh

Found(c) ==
  LET me == calls[c] IN
  /\ me.veh \in Vehicle /\ vehicles[me.veh].state # "absent"
  /\ me.loaded.plate # NoPlate

VehicleInv ==
  /\ VehicleTypeOK
  /\ \A c \in VehicleCall :
       LET me == calls[c] IN
       /\ me.pc # "idle" =>
            \/ me.op = "create" /\ me.pc \in { "clear", "insert" } /\ Creates(c)
            \/ me.op = "update" /\ me.pc \in { "check", "clear", "save" } /\ Found(c)
            \/ me.op = "delete" /\ me.pc = "delete" /\ Found(c)
       /\ me.pc = "check" => me.plate \in Plate

LEMMA VehicleShapes ==
  /\ IdleCall \in CallState /\ IdleCall.pc = "idle" /\ IdleCall.veh \notin Vehicle
  /\ AbsentVehicle \in VehicleDoc
BY VehicleAssumption DEF IdleCall, CallState, AbsentVehicle, VehicleDoc

LEMMA InitVehicle == VehicleInit => VehicleInv
<1> SUFFICES ASSUME VehicleInit PROVE VehicleInv
  OBVIOUS
<1>1. VehicleTypeOK
  BY VehicleShapes DEF VehicleInit, VehicleTypeOK, AbsentVehicle
<1> QED
  BY <1>1, VehicleShapes DEF VehicleInit, VehicleInv

\* A call comes to its end, and vehicles only gain or change documents.
LEMMA CallEnds ==
  ASSUME VehicleInv, NEW c \in VehicleCall, CallGoes(c, IdleCall),
         vehicles' \in [Vehicle -> VehicleDoc],
         chosen' \in Vehicle \cup { NoVehicle, "unsure" },
         \A v \in Vehicle : vehicles'[v].state = "absent" <=> vehicles'[v].plate = NoPlate,
         \A v \in Vehicle : vehicles[v].state # "absent" => vehicles'[v].state # "absent",
         \A v \in Vehicle \ { calls[c].veh } : vehicles'[v].state = vehicles[v].state,
         calls[c].op # "create" =>
           \A v \in Vehicle : vehicles[v].state = "absent" => vehicles'[v].state = "absent"
  PROVE  VehicleInv'
<1>1. calls' = [calls EXCEPT ![c] = IdleCall] /\ calls \in [VehicleCall -> CallState]
  BY DEF CallGoes, VehicleInv, VehicleTypeOK
<1>2. VehicleTypeOK'
  BY <1>1, VehicleShapes DEF VehicleTypeOK
<1>3. ASSUME NEW d \in VehicleCall, d # c, calls[d].op = "create", Creates(d)
      PROVE  Creates(d)'
  BY <1>1, <1>3, VehicleShapes DEF Creates, CallGoes
<1>4. ASSUME NEW d \in VehicleCall, d # c, Found(d) PROVE Found(d)'
  BY <1>1, <1>4 DEF Found
<1>5. calls'[c] = IdleCall /\ \A d \in VehicleCall \ { c } : calls'[d] = calls[d]
  BY <1>1
<1> QED
  BY <1>2, <1>3, <1>4, <1>5, VehicleShapes DEF VehicleInv

\* A call goes on with the vehicle it has, and no document changes its state
\* or its registration.
LEMMA CallGoesOn ==
  ASSUME VehicleInv, NEW c \in VehicleCall, NEW pc,
         CallGoes(c, [calls[c] EXCEPT !.pc = pc]),
         calls[c].pc # "idle",
         \/ calls[c].op = "create" /\ pc = "insert"
         \/ calls[c].op = "update" /\ pc \in { "clear", "save" },
         vehicles' \in [Vehicle -> VehicleDoc],
         chosen' \in Vehicle \cup { NoVehicle, "unsure" },
         \A v \in Vehicle : /\ vehicles'[v].state = vehicles[v].state
                            /\ vehicles'[v].plate = vehicles[v].plate
  PROVE  VehicleInv'
<1> DEFINE local == [calls[c] EXCEPT !.pc = pc]
<1>1. calls' = [calls EXCEPT ![c] = local] /\ calls \in [VehicleCall -> CallState]
  BY DEF CallGoes, VehicleInv, VehicleTypeOK
<1>2. /\ local \in CallState /\ local.pc = pc /\ local.op = calls[c].op
      /\ local.veh = calls[c].veh /\ local.plate = calls[c].plate
      /\ local.loaded = calls[c].loaded /\ local.primary = calls[c].primary
  BY <1>1 DEF CallState
<1> HIDE DEF local
<1>3. VehicleTypeOK'
  BY <1>1, <1>2 DEF VehicleInv, VehicleTypeOK
<1>4. \A d \in VehicleCall : /\ calls'[d].veh = calls[d].veh
                             /\ calls'[d].plate = calls[d].plate
                             /\ calls'[d].primary = calls[d].primary
                             /\ calls'[d].loaded = calls[d].loaded
                             /\ calls'[d].op = calls[d].op
  BY <1>1, <1>2
<1>5. \A d \in VehicleCall : (Creates(d) => Creates(d)') /\ (Found(d) => Found(d)')
  BY <1>4 DEF Creates, Found
<1>6. calls'[c] = local /\ \A d \in VehicleCall \ { c } : calls'[d] = calls[d]
  BY <1>1
<1> QED
  BY <1>2, <1>3, <1>5, <1>6 DEF VehicleInv

\* A call begins; those in flight only lose their `alone'.
LEMMA CallBegins ==
  ASSUME VehicleInv, NEW c \in VehicleCall, NEW local \in CallState,
         CallAccepted(c, local), UNCHANGED << vehicles, chosen >>,
         local.veh \in Vehicle,
         \/ /\ local.op = "create" /\ local.pc \in { "clear", "insert" }
            /\ local.plate \in Plate /\ local.primary # "keep"
            /\ vehicles[local.veh].state = "absent"
            /\ \A d \in VehicleCall : calls[d].veh # local.veh
         \/ /\ \/ local.op = "update" /\ local.pc \in { "check", "clear", "save" }
               \/ local.op = "delete" /\ local.pc = "delete"
            /\ vehicles[local.veh].state # "absent" /\ local.loaded.plate # NoPlate
            /\ local.pc = "check" => local.plate \in Plate
  PROVE  VehicleInv'
<1>1. calls \in [VehicleCall -> CallState]
  BY DEF VehicleInv, VehicleTypeOK
<1> DEFINE free == \A e \in VehicleCall \ {c} : calls[e].pc = "idle"
           mine == [local EXCEPT !.alone = free]
<1>2. free \in BOOLEAN
  OBVIOUS
<1> HIDE DEF free
<1>3. /\ mine \in CallState /\ mine.pc = local.pc /\ mine.op = local.op
      /\ mine.veh = local.veh /\ mine.plate = local.plate
      /\ mine.loaded = local.loaded /\ mine.primary = local.primary
  BY <1>2 DEF CallState
<1>4. calls' = [d \in VehicleCall |-> IF d = c THEN mine
                                      ELSE [calls[d] EXCEPT !.alone = FALSE]]
  BY DEF CallAccepted, free
<1> HIDE DEF mine
<1>5. \A d \in VehicleCall \ { c } :
        /\ calls'[d] \in CallState /\ calls'[d].veh = calls[d].veh
        /\ calls'[d].plate = calls[d].plate /\ calls'[d].primary = calls[d].primary
        /\ calls'[d].loaded = calls[d].loaded /\ calls'[d].op = calls[d].op
        /\ calls'[d].pc = calls[d].pc
  <2> TAKE d \in VehicleCall \ { c }
  <2>1. calls'[d] = [calls[d] EXCEPT !.alone = FALSE] /\ calls[d] \in CallState
    BY <1>1, <1>4
  <2> QED
    BY <2>1 DEF CallState
<1>6. calls'[c] = mine
  BY <1>4
<1>7. calls' \in [VehicleCall -> CallState]
  BY <1>3, <1>4, <1>5
<1>8. VehicleTypeOK'
  BY <1>7 DEF VehicleInv, VehicleTypeOK
<1>9. ASSUME NEW d \in VehicleCall, d # c, Creates(d) PROVE Creates(d)'
  <2>1. local.veh # calls[d].veh
    BY <1>9 DEF Creates
  <2> QED
    BY <1>3, <1>5, <1>6, <1>9, <2>1 DEF Creates
<1>10. ASSUME NEW d \in VehicleCall, d # c, Found(d) PROVE Found(d)'
  BY <1>5, <1>10 DEF Found
<1>11. ASSUME NEW d \in VehicleCall, d # c
       PROVE  LET me == calls[d] IN
              (/\ me.pc # "idle" =>
                    \/ me.op = "create" /\ me.pc \in { "clear", "insert" } /\ Creates(d)
                    \/ me.op = "update" /\ me.pc \in { "check", "clear", "save" } /\ Found(d)
                    \/ me.op = "delete" /\ me.pc = "delete" /\ Found(d)
               /\ me.pc = "check" => me.plate \in Plate)'
  BY <1>5, <1>9, <1>10, <1>11 DEF VehicleInv
<1>12. local.op = "create" => Creates(c)'
  BY <1>3, <1>5, <1>6 DEF Creates
<1>13. local.op # "create" => Found(c)'
  BY <1>3, <1>6 DEF Found
<1> QED
  BY <1>3, <1>6, <1>8, <1>11, <1>12, <1>13 DEF VehicleInv

LEMMA ChoiceType ==
  ASSUME VehicleTypeOK, NEW c \in VehicleCall, NEW v \in Vehicle, NEW primary
  PROVE  ChoiceAfter(c, v, primary) \in Vehicle \cup { NoVehicle, "unsure" }
BY DEF ChoiceAfter, VehicleTypeOK

\* What save() leaves behind is a document in the same state.
LEMMA SavedType ==
  ASSUME NEW saved \in VehicleDoc, NEW me \in CallState
  PROVE  LET doc == SavedVehicle(saved, me) IN
         /\ doc \in VehicleDoc /\ doc.state = saved.state
         /\ doc.plate \in { saved.plate, me.plate, me.loaded.plate }
         /\ doc.plate = NoPlate => NoPlate \in { saved.plate, me.loaded.plate }
<1> DEFINE plate == IF me.plate = NoPlate THEN me.loaded.plate ELSE me.plate
           primary == IF me.primary = "keep" THEN me.loaded.primary
                                             ELSE me.primary = "set"
           newPlate == IF plate = me.loaded.plate THEN saved.plate ELSE plate
           newPrimary == IF primary = me.loaded.primary THEN saved.primary ELSE primary
<1>1. me.loaded \in VehicleDoc /\ me.plate \in Plate \cup { NoPlate }
  BY DEF CallState
<1>2. plate \in Plate \cup { NoPlate } /\ primary \in BOOLEAN
  BY <1>1 DEF VehicleDoc
<1>3. newPlate \in Plate \cup { NoPlate } /\ newPrimary \in BOOLEAN
  BY <1>2 DEF VehicleDoc
<1>4. SavedVehicle(saved, me) = [saved EXCEPT !.plate = newPlate, !.primary = newPrimary]
  BY DEF SavedVehicle, VehicleDoc
<1>5. newPlate \in { saved.plate, me.plate, me.loaded.plate }
      /\ (newPlate = NoPlate => NoPlate \in { saved.plate, me.loaded.plate })
  OBVIOUS
<1> HIDE DEF newPlate, newPrimary
<1> QED
  BY <1>3, <1>4, <1>5 DEF VehicleDoc

\* Every step keeps the invariant, and no step takes a deletion back.
Undeleted == \E v \in Vehicle : vehicles[v].state = "deleted" /\ vehicles'[v].state # "deleted"

LEMMA StepVehicle == VehicleInv /\ [VehicleNext]_vehicleVars => VehicleInv' /\ ~ Undeleted
<1> SUFFICES ASSUME VehicleInv, [VehicleNext]_vehicleVars PROVE VehicleInv' /\ ~ Undeleted
  OBVIOUS
<1> USE VehicleAssumption, VehicleShapes
<1>type. VehicleTypeOK
  BY DEF VehicleInv
<1>1. ASSUME UNCHANGED vehicleVars PROVE VehicleInv' /\ ~ Undeleted
  BY <1>1 DEF vehicleVars, VehicleInv, VehicleTypeOK, Creates, Found, Undeleted
<1>2. ASSUME NEW c \in VehicleCall, NEW v \in Vehicle, NEW plate \in Plate,
             NEW primary \in { "set", "unset" }, CreateVehicle(c, v, plate, primary)
      PROVE  VehicleInv' /\ ~ Undeleted
  <2> DEFINE local == [ IdleCall EXCEPT !.pc = AfterCheck("create", primary),
                          !.op = "create", !.veh = v, !.plate = plate,
                          !.primary = primary ]
  <2>1. AfterCheck("create", primary) \in { "clear", "insert" }
    BY DEF AfterCheck
  <2>2. /\ local \in CallState /\ local.pc \in { "clear", "insert" }
        /\ local.op = "create" /\ local.veh = v /\ local.plate = plate
        /\ local.primary = primary
    BY <2>1 DEF IdleCall, CallState
  <2>3. CallAccepted(c, local)
    BY <1>2 DEF CreateVehicle
  <2> HIDE DEF local
  <2>4. VehicleInv'
    BY <1>2, <2>2, <2>3, CallBegins DEF CreateVehicle
  <2> QED
    BY <1>2, <2>4 DEF CreateVehicle, Undeleted
<1>3. ASSUME NEW c \in VehicleCall, NEW v \in Vehicle, NEW plate \in Plate \cup { NoPlate },
             NEW primary \in { "set", "unset", "keep" }, UpdateVehicle(c, v, plate, primary)
      PROVE  VehicleInv' /\ ~ Undeleted
  <2> DEFINE pc == IF plate # NoPlate THEN "check" ELSE AfterCheck("update", primary)
             local == [ IdleCall EXCEPT !.pc = pc,
                          !.op = "update", !.veh = v, !.loaded = vehicles[v],
                          !.plate = plate, !.primary = primary ]
  <2>1. pc \in { "check", "clear", "save" } /\ (pc = "check" => plate \in Plate)
    BY DEF AfterCheck
  <2>2. /\ vehicles[v] \in VehicleDoc /\ vehicles[v].state = "kept"
        /\ vehicles[v].plate # NoPlate
    BY <1>3, <1>type DEF UpdateVehicle, Kept, VehicleTypeOK
  <2>3. CallAccepted(c, local)
    BY <1>3 DEF UpdateVehicle
  <2> HIDE DEF pc
  <2>4. /\ local \in CallState /\ local.pc = pc /\ local.op = "update"
        /\ local.veh = v /\ local.plate = plate /\ local.loaded = vehicles[v]
    BY <2>1, <2>2 DEF IdleCall, CallState
  <2> HIDE DEF local
  <2>5. VehicleInv'
    BY <1>3, <2>1, <2>2, <2>3, <2>4, CallBegins DEF UpdateVehicle
  <2> QED
    BY <1>3, <2>5 DEF UpdateVehicle, Undeleted
<1>4. ASSUME NEW c \in VehicleCall, NEW v \in Vehicle, DeleteVehicle(c, v)
      PROVE  VehicleInv' /\ ~ Undeleted
  <2> DEFINE local == [ IdleCall EXCEPT !.pc = "delete", !.op = "delete",
                          !.veh = v, !.loaded = vehicles[v] ]
  <2>1. /\ vehicles[v] \in VehicleDoc /\ vehicles[v].state = "kept"
        /\ vehicles[v].plate # NoPlate
    BY <1>4, <1>type DEF DeleteVehicle, Kept, VehicleTypeOK
  <2>2. CallAccepted(c, local)
    BY <1>4 DEF DeleteVehicle
  <2>3. /\ local \in CallState /\ local.pc = "delete" /\ local.op = "delete"
        /\ local.veh = v /\ local.loaded = vehicles[v]
    BY <2>1 DEF IdleCall, CallState
  <2> HIDE DEF local
  <2>4. VehicleInv'
    BY <1>4, <2>1, <2>2, <2>3, CallBegins DEF DeleteVehicle
  <2> QED
    BY <1>4, <2>4 DEF DeleteVehicle, Undeleted
<1>5. ASSUME NEW c \in VehicleCall, InsertVehicle(c) PROVE VehicleInv' /\ ~ Undeleted
  <2> DEFINE me == calls[c]
             doc == [state |-> "kept", plate |-> me.plate, primary |-> me.primary = "set"]
  <2>1. me.pc = "insert" /\ me.op = "create" /\ Creates(c)
    BY <1>5 DEF InsertVehicle, VehicleInv
  <2>2. /\ me.veh \in Vehicle /\ me.plate \in Plate /\ me.plate # NoPlate
        /\ vehicles[me.veh].state = "absent"
    BY <2>1 DEF Creates
  <2>3. doc \in VehicleDoc /\ doc.state = "kept" /\ doc.plate # NoPlate
    BY <2>2 DEF VehicleDoc
  <2>4. vehicles' = [vehicles EXCEPT ![me.veh] = doc]
    BY <1>5 DEF InsertVehicle
  <2>5. chosen' \in Vehicle \cup { NoVehicle, "unsure" }
    BY <1>5, <1>type, <2>2, ChoiceType DEF InsertVehicle
  <2> HIDE DEF doc
  <2>6. vehicles' \in [Vehicle -> VehicleDoc] /\ ~ Undeleted
    BY <1>type, <2>2, <2>3, <2>4 DEF VehicleTypeOK, Undeleted
  <2>7. /\ \A v \in Vehicle : vehicles'[v].state = "absent" <=> vehicles'[v].plate = NoPlate
        /\ \A v \in Vehicle : vehicles[v].state # "absent" => vehicles'[v].state # "absent"
        /\ \A v \in Vehicle \ { me.veh } : vehicles'[v].state = vehicles[v].state
    BY <1>type, <2>2, <2>3, <2>4 DEF VehicleTypeOK
  <2>8. CallGoes(c, IdleCall)
    BY <1>5 DEF InsertVehicle
  <2> HIDE DEF me
  <2> QED
    BY <2>1, <2>5, <2>6, <2>7, <2>8, CallEnds DEF me
<1>6. ASSUME NEW c \in VehicleCall, EnsureRegistrationAvailable(c)
      PROVE  VehicleInv' /\ ~ Undeleted
  <2>1. calls[c].pc = "check" /\ calls[c].op = "update" /\ UNCHANGED << vehicles, chosen >>
    BY <1>6 DEF EnsureRegistrationAvailable, VehicleInv
  <2>2. CASE PlateInUse(calls[c].plate, calls[c].veh)
    <3>1. CallGoes(c, IdleCall)
      BY <1>6, <2>2 DEF EnsureRegistrationAvailable
    <3> QED
      BY <1>type, <2>1, <3>1, CallEnds DEF VehicleTypeOK, Undeleted
  <2>3. CASE ~ PlateInUse(calls[c].plate, calls[c].veh)
    <3> DEFINE pc == AfterCheck("update", calls[c].primary)
    <3>1. pc \in { "clear", "save" }
      BY DEF AfterCheck
    <3>2. CallGoes(c, [calls[c] EXCEPT !.pc = pc])
      BY <1>6, <2>3 DEF EnsureRegistrationAvailable
    <3> HIDE DEF pc
    <3> QED
      BY <1>type, <2>1, <3>1, <3>2, CallGoesOn DEF VehicleTypeOK, Undeleted
  <2> QED
    BY <2>2, <2>3
<1>7. ASSUME NEW c \in VehicleCall, UnsetPrimary(c) PROVE VehicleInv' /\ ~ Undeleted
  <2> DEFINE pc == IF calls[c].op = "create" THEN "insert" ELSE "save"
  <2>1. calls[c].pc = "clear" /\ calls[c].op \in { "create", "update" }
    BY <1>7 DEF UnsetPrimary, VehicleInv
  <2>2. \/ calls[c].op = "create" /\ pc = "insert"
        \/ calls[c].op = "update" /\ pc = "save"
    BY <2>1
  <2>3. CallGoes(c, [calls[c] EXCEPT !.pc = pc]) /\ chosen' = "unsure"
    BY <1>7 DEF UnsetPrimary
  <2> HIDE DEF pc
  <2>4. vehicles' = [v \in Vehicle |-> IF Cleared(c, v)
                                       THEN [vehicles[v] EXCEPT !.primary = FALSE]
                                       ELSE vehicles[v]]
    BY <1>7 DEF UnsetPrimary
  <2>5. \A v \in Vehicle :
          /\ vehicles'[v] \in VehicleDoc
          /\ vehicles'[v].state = vehicles[v].state /\ vehicles'[v].plate = vehicles[v].plate
    BY <1>type, <2>4 DEF VehicleTypeOK, VehicleDoc
  <2>6. vehicles' \in [Vehicle -> VehicleDoc]
    BY <2>4, <2>5
  <2>7. VehicleInv'
    BY <2>1, <2>2, <2>3, <2>5, <2>6, CallGoesOn
  <2> QED
    BY <2>5, <2>7 DEF Undeleted
<1>8. ASSUME NEW c \in VehicleCall, SaveVehicle(c) PROVE VehicleInv' /\ ~ Undeleted
  <2> DEFINE me == calls[c]
             doc == SavedVehicle(vehicles[me.veh], me)
  <2>1. me \in CallState /\ me.pc = "save" /\ me.op = "update" /\ Found(c)
    BY <1>8, <1>type DEF SaveVehicle, VehicleInv, VehicleTypeOK
  <2>2. /\ me.veh \in Vehicle /\ vehicles[me.veh] \in VehicleDoc
        /\ vehicles[me.veh].state # "absent" /\ vehicles[me.veh].plate # NoPlate
        /\ me.loaded.plate # NoPlate
    BY <1>type, <2>1 DEF Found, VehicleTypeOK
  <2>3. /\ doc \in VehicleDoc /\ doc.state = vehicles[me.veh].state
        /\ doc.plate # NoPlate
    BY <2>1, <2>2, SavedType
  <2>4. vehicles' = [vehicles EXCEPT ![me.veh] = doc] /\ CallGoes(c, IdleCall)
    BY <1>8 DEF SaveVehicle
  <2>5. chosen' \in Vehicle \cup { NoVehicle, "unsure" }
    BY <1>8, <1>type, <2>2, ChoiceType DEF SaveVehicle
  <2> HIDE DEF doc
  <2>6. vehicles' \in [Vehicle -> VehicleDoc]
    BY <1>type, <2>2, <2>3, <2>4 DEF VehicleTypeOK
  <2>7. \A v \in Vehicle :
          /\ vehicles'[v].state = vehicles[v].state
          /\ vehicles'[v].state = "absent" <=> vehicles'[v].plate = NoPlate
    BY <1>type, <2>2, <2>3, <2>4 DEF VehicleTypeOK
  <2>8. VehicleInv'
    BY <2>4, <2>5, <2>6, <2>7, CallEnds
  <2> QED
    BY <2>7, <2>8 DEF Undeleted
<1>9. ASSUME NEW c \in VehicleCall, WriteRejected(c) \/ AbandonCall(c)
      PROVE  VehicleInv' /\ ~ Undeleted
  <2>1. CallGoes(c, IdleCall) /\ UNCHANGED << vehicles, chosen >>
    BY <1>9 DEF WriteRejected, AbandonCall
  <2> QED
    BY <1>type, <2>1, CallEnds DEF VehicleTypeOK, Undeleted
<1>10. ASSUME NEW c \in VehicleCall, SoftDelete(c) PROVE VehicleInv' /\ ~ Undeleted
  <2> DEFINE v == calls[c].veh
  <2>1. calls[c].op = "delete" /\ v \in Vehicle /\ CallGoes(c, IdleCall)
    BY <1>10 DEF SoftDelete, VehicleInv, Found
  <2>2. CASE v \in Kept
    <3>1. vehicles' = [vehicles EXCEPT ![v].state = "deleted"]
      BY <1>10, <2>2 DEF SoftDelete
    <3>2. vehicles' \in [Vehicle -> VehicleDoc]
      BY <1>type, <2>1, <3>1 DEF VehicleTypeOK, VehicleDoc
    <3>3. /\ \A u \in Vehicle : vehicles'[u].plate = vehicles[u].plate
          /\ \A u \in Vehicle \ { v } : vehicles'[u].state = vehicles[u].state
          /\ vehicles'[v].state = "deleted" /\ vehicles[v].state = "kept"
      BY <1>type, <2>1, <2>2, <3>1 DEF VehicleTypeOK, VehicleDoc, Kept
    <3>4. chosen' \in Vehicle \cup { NoVehicle, "unsure" }
      BY <1>10, <1>type, <2>2 DEF SoftDelete, VehicleTypeOK
    <3>5. VehicleInv'
      BY <1>type, <2>1, <3>2, <3>3, <3>4, CallEnds DEF VehicleTypeOK
    <3> QED
      BY <3>3, <3>5 DEF Undeleted
  <2>3. CASE v \notin Kept
    <3>1. UNCHANGED << vehicles, chosen >>
      BY <1>10, <2>3 DEF SoftDelete
    <3> QED
      BY <1>type, <2>1, <3>1, CallEnds DEF VehicleTypeOK, Undeleted
  <2> QED
    BY <2>2, <2>3
<1> QED
  BY <1>1, <1>2, <1>3, <1>4, <1>5, <1>6, <1>7, <1>8, <1>9, <1>10 DEF VehicleNext

\* Documents and handlers keep their shape, and what is stored always has a
\* registration number, however calls overlap (vehicle.schema.ts,
\* vehicle.service.ts).
THEOREM VehicleTypeCorrect == VehicleSpec => []VehicleTypeOK
<1>1. VehicleInv => VehicleTypeOK
  BY DEF VehicleInv
<1> QED
  BY <1>1, InitVehicle, StepVehicle, PTL DEF VehicleSpec

\* No save of an update that found a vehicle before it was deleted, and no
\* insert, brings a deleted vehicle back (vehicle.service.ts:96-127).
THEOREM DeletedAlwaysStayDeleted == VehicleSpec => DeletedStaysDeleted
<1>1. VehicleInv /\ [VehicleNext]_vehicleVars =>
        [\A v \in Vehicle :
           vehicles[v].state = "deleted" => vehicles'[v].state = "deleted"]_vehicleVars
  BY StepVehicle DEF Undeleted
<1> QED
  BY <1>1, InitVehicle, StepVehicle, PTL DEF VehicleSpec, DeletedStaysDeleted

-----------------------------------------------------------------------------
(***************************************************************************)
(* The owner's choice of a primary vehicle, however calls overlap.  A call *)
(* that nothing has overlapped still finds its vehicle as it loaded it and,*)
(* once it has cleared the others, no other primary one.                   *)
(***************************************************************************)
Undisturbed(c) ==
  LET me == calls[c] IN
  me.pc # "idle" /\ me.alone =>
    /\ \A d \in VehicleCall \ { c } : calls[d].pc = "idle"
    /\ me.op = "update" => vehicles[me.veh] = me.loaded /\ me.loaded.state = "kept"
    /\ me.primary = "set" /\ me.pc \in { "insert", "save" } =>
         \A v \in Vehicle \ { me.veh } : ~ vehicles[v].primary

ChoiceInv ==
  /\ VehicleInv
  /\ ChoiceStands
  /\ \A c \in VehicleCall : Undisturbed(c)

LEMMA ChoiceTypes ==
  ASSUME VehicleInv
  PROVE  /\ vehicles \in [Vehicle -> VehicleDoc] /\ calls \in [VehicleCall -> CallState]
         /\ \A c \in VehicleCall : calls[c] \in CallState
         /\ \A v \in Vehicle : vehicles[v] \in VehicleDoc
BY DEF VehicleInv, VehicleTypeOK

LEMMA InitChoice == VehicleInit => ChoiceInv
<1> SUFFICES ASSUME VehicleInit PROVE ChoiceInv
  OBVIOUS
<1>1. VehicleInv
  BY InitVehicle
<1>2. ListedPrimaries = {} /\ chosen = NoVehicle
  BY DEF VehicleInit, ListedPrimaries, Kept, AbsentVehicle
<1>3. \A c \in VehicleCall : calls[c].pc = "idle"
  BY DEF VehicleInit, IdleCall
<1> QED
  BY <1>1, <1>2, <1>3 DEF ChoiceInv, ChoiceStands, Undisturbed

\* While c is in flight, nobody else is alone.
LEMMA AloneIsOne ==
  ASSUME ChoiceInv, NEW c \in VehicleCall, calls[c].pc # "idle",
         NEW d \in VehicleCall, d # c
  PROVE  calls[d].pc = "idle" \/ ~ calls[d].alone
BY DEF ChoiceInv, Undisturbed

LEMMA EndsUndisturbed ==
  ASSUME ChoiceInv, NEW c \in VehicleCall, calls[c].pc # "idle", CallGoes(c, IdleCall)
  PROVE  \A d \in VehicleCall : Undisturbed(d)'
<1>1. /\ calls'[c].pc = "idle"
      /\ \A d \in VehicleCall \ { c } : calls'[d] = calls[d]
  BY ChoiceTypes, VehicleShapes DEF ChoiceInv, CallGoes
<1> QED
  BY <1>1, AloneIsOne DEF Undisturbed

LEMMA BeginsUndisturbed ==
  ASSUME ChoiceInv, NEW c \in VehicleCall, NEW local \in CallState, CallAccepted(c, local),
         UNCHANGED vehicles,
         local.op = "update" =>
           vehicles[local.veh] = local.loaded /\ local.loaded.state = "kept",
         local.primary = "set" => local.pc \notin { "insert", "save" }
  PROVE  \A d \in VehicleCall : Undisturbed(d)'
<1> DEFINE free == \A e \in VehicleCall \ {c} : calls[e].pc = "idle"
           mine == [local EXCEPT !.alone = free]
<1>1. /\ mine.pc = local.pc /\ mine.op = local.op /\ mine.veh = local.veh
      /\ mine.loaded = local.loaded /\ mine.primary = local.primary
      /\ mine.alone <=> free
  BY DEF CallState
<1>2. calls'[c] = mine
  BY DEF CallAccepted
<1>3. \A d \in VehicleCall \ { c } : calls'[d] = [calls[d] EXCEPT !.alone = FALSE]
  BY DEF CallAccepted
<1>4. \A d \in VehicleCall \ { c } : calls'[d].alone = FALSE /\ calls'[d].pc = calls[d].pc
  BY <1>3, ChoiceTypes DEF ChoiceInv, CallState
<1> HIDE DEF mine
<1>5. Undisturbed(c)'
  BY <1>1, <1>2, <1>4 DEF Undisturbed
<1> QED
  BY <1>4, <1>5 DEF Undisturbed

\* Only the vehicle that is written can enter or leave the list, or change
\* its place in it.
LEMMA OneWritten ==
  ASSUME VehicleInv, NEW v \in Vehicle, NEW doc \in VehicleDoc,
         vehicles' = [vehicles EXCEPT ![v] = doc]
  PROVE  ListedPrimaries' = IF doc.state = "kept" /\ doc.primary
                            THEN ListedPrimaries \cup { v }
                            ELSE ListedPrimaries \ { v }
<1>1. /\ vehicles'[v] = doc /\ \A u \in Vehicle : u # v => vehicles'[u] = vehicles[u]
  BY ChoiceTypes
<1> QED
  BY <1>1 DEF ListedPrimaries, Kept

\* A write that gives v the flag that the owner asked for, or none.
LEMMA ChoiceWritten ==
  ASSUME ChoiceInv, NEW c \in VehicleCall, calls[c].pc \in { "insert", "save" },
         NEW v \in Vehicle, v = calls[c].veh, NEW doc \in VehicleDoc,
         vehicles' = [vehicles EXCEPT ![v] = doc],
         chosen' = ChoiceAfter(c, v, calls[c].primary),
         calls[c].primary = "unset" /\ calls[c].alone => ~ (doc.state = "kept" /\ doc.primary),
         calls[c].primary = "set" /\ calls[c].alone => doc.state = "kept" /\ doc.primary,
         calls[c].primary = "keep" =>
           (doc.state = "kept" /\ doc.primary <=> v \in ListedPrimaries)
  PROVE  ChoiceStands'
<1> SUFFICES ASSUME chosen' # "unsure"
             PROVE  ListedPrimaries' = IF chosen' = NoVehicle THEN {} ELSE { chosen' }
  BY DEF ChoiceStands
<1> DEFINE primary == calls[c].primary
<1>1. ListedPrimaries' = IF doc.state = "kept" /\ doc.primary
                         THEN ListedPrimaries \cup { v } ELSE ListedPrimaries \ { v }
  BY OneWritten DEF ChoiceInv
<1>2. primary \in { "set", "unset", "keep" } /\ v # NoVehicle
  BY ChoiceTypes, VehicleAssumption DEF ChoiceInv, CallState
<1>3. primary # "keep" => calls[c].alone
  BY DEF ChoiceAfter
<1>4. CASE primary = "set"
  <2>1. chosen' = v
    BY <1>3, <1>4 DEF ChoiceAfter
  <2>2. ListedPrimaries \subseteq { v }
    BY <1>3, <1>4 DEF ChoiceInv, Undisturbed, ListedPrimaries, Kept
  <2> QED
    BY <1>1, <1>2, <1>3, <1>4, <2>1, <2>2
<1>5. CASE primary = "unset"
  <2>1. chosen' = IF chosen = v THEN NoVehicle ELSE chosen
    BY <1>3, <1>5 DEF ChoiceAfter
  <2>2. chosen # "unsure"
    BY <2>1, VehicleAssumption
  <2>3. ListedPrimaries = IF chosen = NoVehicle THEN {} ELSE { chosen }
    BY <2>2 DEF ChoiceInv, ChoiceStands
  <2> QED
    BY <1>1, <1>2, <1>3, <1>5, <2>1, <2>3
<1>6. CASE primary = "keep"
  <2>1. chosen' = chosen
    BY <1>6 DEF ChoiceAfter
  <2>2. ListedPrimaries' = ListedPrimaries
    BY <1>1, <1>6
  <2> QED
    BY <2>1, <2>2 DEF ChoiceInv, ChoiceStands
<1> QED
  BY <1>2, <1>4, <1>5, <1>6

LEMMA StepChoice == ChoiceInv /\ [VehicleNext]_vehicleVars => ChoiceInv'
<1> SUFFICES ASSUME ChoiceInv, [VehicleNext]_vehicleVars PROVE ChoiceInv'
  OBVIOUS
<1>inv. VehicleInv /\ VehicleInv' /\ ChoiceStands
  BY StepVehicle DEF ChoiceInv
<1>type. /\ vehicles \in [Vehicle -> VehicleDoc] /\ calls \in [VehicleCall -> CallState]
         /\ \A c \in VehicleCall : calls[c] \in CallState
         /\ \A v \in Vehicle : vehicles[v] \in VehicleDoc
  BY <1>inv, ChoiceTypes
<1>1. ASSUME UNCHANGED << vehicles, chosen >>, \A c \in VehicleCall : Undisturbed(c)'
      PROVE  ChoiceInv'
  BY <1>1, <1>inv DEF ChoiceInv, ChoiceStands, ListedPrimaries, Kept
<1>2. CASE UNCHANGED vehicleVars
  BY <1>1, <1>2 DEF vehicleVars, ChoiceInv, Undisturbed
<1>3. ASSUME NEW c \in VehicleCall, NEW v \in Vehicle, NEW plate \in Plate,
             NEW primary \in { "set", "unset" }, CreateVehicle(c, v, plate, primary)
      PROVE  ChoiceInv'
  <2> DEFINE local == [ IdleCall EXCEPT !.pc = AfterCheck("create", primary),
                          !.op = "create", !.veh = v, !.plate = plate,
                          !.primary = primary ]
  <2>1. AfterCheck("create", primary) = IF primary = "set" THEN "clear" ELSE "insert"
    BY DEF AfterCheck
  <2>2. /\ local \in CallState /\ local.op = "create" /\ local.primary = primary
        /\ local.pc = IF primary = "set" THEN "clear" ELSE "insert"
    BY <2>1, VehicleShapes DEF IdleCall, CallState
  <2>3. CallAccepted(c, local) /\ UNCHANGED << vehicles, chosen >>
    BY <1>3 DEF CreateVehicle
  <2> HIDE DEF local
  <2> QED
    BY <1>1, <2>2, <2>3, BeginsUndisturbed
<1>4. ASSUME NEW c \in VehicleCall, NEW v \in Vehicle, NEW plate \in Plate \cup { NoPlate },
             NEW primary \in { "set", "unset", "keep" }, UpdateVehicle(c, v, plate, primary)
      PROVE  ChoiceInv'
  <2> DEFINE pc == IF plate # NoPlate THEN "check" ELSE AfterCheck("update", primary)
             local == [ IdleCall EXCEPT !.pc = pc,
                          !.op = "update", !.veh = v, !.loaded = vehicles[v],
                          !.plate = plate, !.primary = primary ]
  <2>1. pc \in { "check", "clear", "save" } /\ (primary = "set" => pc # "save")
    BY DEF AfterCheck
  <2>2. vehicles[v].state = "kept"
    BY <1>4 DEF UpdateVehicle, Kept
  <2>3. CallAccepted(c, local) /\ UNCHANGED << vehicles, chosen >>
    BY <1>4 DEF UpdateVehicle
  <2> HIDE DEF pc
  <2>4. /\ local \in CallState /\ local.pc = pc /\ local.veh = v
        /\ local.loaded = vehicles[v] /\ local.primary = primary
    BY <1>type, <2>1, VehicleShapes DEF IdleCall, CallState
  <2> HIDE DEF local
  <2> QED
    BY <1>1, <2>1, <2>2, <2>3, <2>4, BeginsUndisturbed
<1>5. ASSUME NEW c \in VehicleCall, NEW v \in Vehicle, DeleteVehicle(c, v) PROVE ChoiceInv'
  <2> DEFINE local == [ IdleCall EXCEPT !.pc = "delete", !.op = "delete",
                          !.veh = v, !.loaded = vehicles[v] ]
  <2>1. CallAccepted(c, local) /\ UNCHANGED << vehicles, chosen >>
    BY <1>5 DEF DeleteVehicle
  <2>2. local \in CallState /\ local.pc = "delete" /\ local.op = "delete"
    BY <1>type, VehicleShapes DEF IdleCall, CallState
  <2> HIDE DEF local
  <2> QED
    BY <1>1, <2>1, <2>2, BeginsUndisturbed
<1>6. ASSUME NEW c \in VehicleCall, InsertVehicle(c) PROVE ChoiceInv'
  <2> DEFINE me == calls[c]
             doc == [state |-> "kept", plate |-> me.plate, primary |-> me.primary = "set"]
  <2>1. me.pc = "insert" /\ Creates(c) /\ CallGoes(c, IdleCall)
    BY <1>6, <1>inv DEF InsertVehicle, VehicleInv
  <2>2. me.veh \in Vehicle /\ me.plate \in Plate /\ me.primary \in { "set", "unset" }
    BY <1>type, <2>1 DEF Creates, CallState
  <2>3. doc \in VehicleDoc /\ doc.state = "kept" /\ (doc.primary <=> me.primary = "set")
    BY <2>2 DEF VehicleDoc
  <2>4. /\ vehicles' = [vehicles EXCEPT ![me.veh] = doc]
        /\ chosen' = ChoiceAfter(c, me.veh, me.primary)
    BY <1>6 DEF InsertVehicle
  <2> HIDE DEF doc
  <2>5. ChoiceStands'
    BY <2>1, <2>2, <2>3, <2>4, ChoiceWritten
  <2> QED
    BY <1>inv, <2>1, <2>5, EndsUndisturbed DEF ChoiceInv
<1>7. ASSUME NEW c \in VehicleCall, SaveVehicle(c) PROVE ChoiceInv'
  <2> DEFINE me == calls[c]
             old == vehicles[me.veh]
             doc == SavedVehicle(old, me)
  <2>1. me.pc = "save" /\ me.op = "update" /\ Found(c) /\ CallGoes(c, IdleCall)
    BY <1>7, <1>inv DEF SaveVehicle, VehicleInv
  <2>2. me.veh \in Vehicle /\ me \in CallState /\ old \in VehicleDoc
    BY <1>type, <2>1 DEF Found
  <2>3. doc \in VehicleDoc /\ doc.state = old.state
    BY <2>2, SavedType
  <2>4. /\ vehicles' = [vehicles EXCEPT ![me.veh] = doc]
        /\ chosen' = ChoiceAfter(c, me.veh, me.primary)
    BY <1>7 DEF SaveVehicle
  <2>5. me.alone => old = me.loaded /\ old.state = "kept"
    BY <2>1 DEF ChoiceInv, Undisturbed
  <2>6. doc.primary = IF (IF me.primary = "keep" THEN me.loaded.primary
                          ELSE me.primary = "set") = me.loaded.primary
                      THEN old.primary
                      ELSE IF me.primary = "keep" THEN me.loaded.primary ELSE me.primary = "set"
    BY <2>2 DEF SavedVehicle, VehicleDoc
  <2>7. old.primary \in BOOLEAN /\ me.loaded.primary \in BOOLEAN
        /\ me.primary \in { "set", "unset", "keep" }
    BY <2>2 DEF VehicleDoc, CallState
  <2> HIDE DEF doc
  <2>8. /\ me.alone /\ me.primary = "set" => doc.primary
        /\ me.alone /\ me.primary = "unset" => ~ doc.primary
        /\ me.primary = "keep" => doc.primary = old.primary
    BY <2>5, <2>6, <2>7
  <2>9. me.primary = "keep" =>
          (doc.state = "kept" /\ doc.primary <=> me.veh \in ListedPrimaries)
    BY <2>2, <2>3, <2>8 DEF ListedPrimaries, Kept
  <2>10. ChoiceStands'
    BY <2>1, <2>2, <2>3, <2>4, <2>5, <2>8, <2>9, ChoiceWritten
  <2> QED
    BY <1>inv, <2>1, <2>10, EndsUndisturbed DEF ChoiceInv
<1>8. ASSUME NEW c \in VehicleCall, EnsureRegistrationAvailable(c) PROVE ChoiceInv'
  <2>1. /\ calls[c].pc = "check" /\ calls[c].op = "update"
        /\ UNCHANGED << vehicles, chosen >>
    BY <1>8, <1>inv DEF EnsureRegistrationAvailable, VehicleInv
  <2>2. CASE CallGoes(c, IdleCall)
    BY <1>1, <2>1, <2>2, EndsUndisturbed
  <2>3. CASE CallGoes(c, [calls[c] EXCEPT !.pc = AfterCheck("update", calls[c].primary)])
    <3>1. /\ calls'[c] = [calls[c] EXCEPT !.pc = AfterCheck("update", calls[c].primary)]
          /\ \A d \in VehicleCall \ { c } : calls'[d] = calls[d]
      BY <1>type, <2>3 DEF CallGoes
    <3>2. /\ calls'[c].op = "update" /\ calls'[c].alone = calls[c].alone
          /\ calls'[c].veh = calls[c].veh /\ calls'[c].loaded = calls[c].loaded
          /\ calls'[c].primary = calls[c].primary
          /\ calls[c].primary = "set" => calls'[c].pc = "clear"
      BY <1>type, <2>1, <3>1 DEF CallState, AfterCheck
    <3>3. Undisturbed(c)'
      BY <2>1, <3>1, <3>2 DEF ChoiceInv, Undisturbed
    <3>4. \A d \in VehicleCall \ { c } : Undisturbed(d)'
      BY <2>1, <3>1, AloneIsOne DEF Undisturbed
    <3> QED
      BY <1>1, <2>1, <3>3, <3>4
  <2> QED
    BY <1>8, <2>2, <2>3 DEF EnsureRegistrationAvailable
<1>9. ASSUME NEW c \in VehicleCall, UnsetPrimary(c) PROVE ChoiceInv'
  <2> DEFINE pc == IF calls[c].op = "create" THEN "insert" ELSE "save"
  <2>1. /\ calls[c].pc = "clear" /\ chosen' = "unsure"
        /\ vehicles' = [v \in Vehicle |-> IF v # calls[c].veh
                                          THEN [vehicles[v] EXCEPT !.primary = FALSE]
                                          ELSE vehicles[v]]
        /\ calls' = [calls EXCEPT ![c] = [calls[c] EXCEPT !.pc = pc]]
    BY <1>9 DEF UnsetPrimary, Cleared, CallGoes
  <2>2. /\ calls'[c].op = calls[c].op /\ calls'[c].alone = calls[c].alone
        /\ calls'[c].veh = calls[c].veh /\ calls'[c].loaded = calls[c].loaded
        /\ \A d \in VehicleCall \ { c } : calls'[d] = calls[d]
    BY <1>type, <2>1 DEF CallState
  <2>3. calls[c].veh \in Vehicle => vehicles'[calls[c].veh] = vehicles[calls[c].veh]
    BY <2>1
  <2>4. \A v \in Vehicle \ { calls[c].veh } : ~ vehicles'[v].primary
    BY <1>type, <2>1 DEF VehicleDoc
  <2>5. calls[c].veh \in Vehicle
    BY <1>inv, <2>1 DEF VehicleInv, Creates, Found
  <2>6. Undisturbed(c)'
    BY <2>1, <2>2, <2>3, <2>4, <2>5 DEF ChoiceInv, Undisturbed
  <2>7. \A d \in VehicleCall \ { c } : Undisturbed(d)'
    BY <2>1, <2>2, AloneIsOne DEF Undisturbed
  <2> QED
    BY <1>inv, <2>1, <2>6, <2>7 DEF ChoiceInv, ChoiceStands
<1>10. ASSUME NEW c \in VehicleCall, WriteRejected(c) \/ AbandonCall(c) PROVE ChoiceInv'
  <2>1. calls[c].pc # "idle" /\ CallGoes(c, IdleCall) /\ UNCHANGED << vehicles, chosen >>
    BY <1>10 DEF WriteRejected, AbandonCall
  <2> QED
    BY <1>1, <2>1, EndsUndisturbed
<1>11. ASSUME NEW c \in VehicleCall, SoftDelete(c) PROVE ChoiceInv'
  <2> DEFINE v == calls[c].veh
  <2>1. calls[c].pc = "delete" /\ v \in Vehicle /\ CallGoes(c, IdleCall)
    BY <1>11, <1>inv DEF SoftDelete, VehicleInv, Found
  <2>2. \A d \in VehicleCall : Undisturbed(d)'
    BY <2>1, EndsUndisturbed
  <2>3. CASE v \in Kept
    <3> DEFINE doc == [vehicles[v] EXCEPT !.state = "deleted"]
    <3>1. /\ vehicles' = [vehicles EXCEPT ![v] = doc]
          /\ chosen' = IF chosen = v THEN NoVehicle ELSE chosen
      BY <1>11, <2>3 DEF SoftDelete
    <3>2. doc \in VehicleDoc /\ doc.state = "deleted"
      BY <1>type, <2>1 DEF VehicleDoc
    <3> HIDE DEF doc
    <3>3. ListedPrimaries' = ListedPrimaries \ { v }
      BY <1>inv, <2>1, <3>1, <3>2, OneWritten
    <3>4. ChoiceStands'
      BY <1>inv, <2>1, <3>1, <3>3, VehicleAssumption DEF ChoiceStands
    <3> QED
      BY <1>inv, <2>2, <3>4 DEF ChoiceInv
  <2>4. CASE v \notin Kept
    BY <1>1, <1>11, <2>2, <2>4 DEF SoftDelete
  <2> QED
    BY <2>3, <2>4
<1> QED
  BY <1>2, <1>3, <1>4, <1>5, <1>6, <1>7, <1>8, <1>9, <1>10, <1>11 DEF VehicleNext

\* Whatever races, failures and deletions there are: once a call that nothing
\* overlapped has made a vehicle primary, it is the only primary one in the
\* list until another call to choose writes (vehicle.service.ts:49-53, 102-127).
THEOREM ChoiceAlwaysStands == VehicleSpec => []ChoiceStands
<1>1. ChoiceInv => ChoiceStands
  BY DEF ChoiceInv
<1> QED
  BY <1>1, InitChoice, StepChoice, PTL DEF VehicleSpec

\* The primary vehicle is the one that the owner chose, in a list of whole
\* documents: both of the above.
THEOREM PrimaryAlwaysTheChoice == VehicleSpec => []PrimaryIsTheChoice
BY VehicleTypeCorrect, ChoiceAlwaysStands, PTL DEF PrimaryIsTheChoice

-----------------------------------------------------------------------------
(***************************************************************************)
(* The vehicles when an owner's calls come one at a time, though any may be*)
(* cut off: what a call has checked still holds when it writes.            *)
(***************************************************************************)
OneByOne == \A c \in VehicleCall : calls[c].pc # "idle" => calls[c].alone

AtMostOne == \A u, v \in ListedPrimaries : u = v

\* The unique index.
PlatesUnique ==
  \A u, v \in Vehicle :
    u # v /\ vehicles[u].state # "absent" /\ vehicles[v].state # "absent" =>
      vehicles[u].plate # vehicles[v].plate

\* A registration that was looked up is still free.
Checked(c) ==
  LET me == calls[c] IN
  (\/ me.pc # "idle" /\ me.op = "create"
   \/ me.pc \in { "clear", "save" } /\ me.plate # NoPlate) =>
     ~ PlateInUse(me.plate, me.veh)

AloneInv ==
  /\ ChoiceInv
  /\ OneByOne /\ AtMostOne /\ PlatesUnique
  /\ \A c \in VehicleCall : Checked(c)

LEMMA InitAlone == VehicleInit => AloneInv
<1> SUFFICES ASSUME VehicleInit PROVE AloneInv
  OBVIOUS
<1>1. ListedPrimaries = {} /\ \A v \in Vehicle : vehicles[v].state = "absent"
  BY DEF VehicleInit, ListedPrimaries, Kept, AbsentVehicle
<1>2. \A c \in VehicleCall : calls[c].pc = "idle"
  BY DEF VehicleInit, IdleCall
<1> QED
  BY <1>1, <1>2, InitChoice DEF AloneInv, OneByOne, AtMostOne, PlatesUnique, Checked

LEMMA OthersIdle ==
  ASSUME AloneInv, NEW c \in VehicleCall, calls[c].pc # "idle"
  PROVE  \A d \in VehicleCall \ { c } : calls[d].pc = "idle"
BY DEF AloneInv, OneByOne, ChoiceInv, Undisturbed

\* The call in flight ends.
LEMMA AloneEnds ==
  ASSUME AloneInv, ChoiceInv', NEW c \in VehicleCall, calls[c].pc # "idle",
         CallGoes(c, IdleCall), AtMostOne', PlatesUnique'
  PROVE  AloneInv'
<1>1. \A d \in VehicleCall : calls'[d].pc = "idle"
  BY OthersIdle, ChoiceTypes, VehicleShapes DEF AloneInv, ChoiceInv, CallGoes
<1> QED
  BY <1>1 DEF AloneInv, OneByOne, Checked

\* A call begins when none is in flight.
LEMMA AloneBegins ==
  ASSUME AloneInv, ChoiceInv', ~ VehicleOverlap, NEW c \in VehicleCall,
         NEW local \in CallState, CallAccepted(c, local), UNCHANGED vehicles,
         local.op = "create" \/ (local.pc \in { "clear", "save" } /\ local.plate # NoPlate) =>
           ~ PlateInUse(local.plate, local.veh)
  PROVE  AloneInv'
<1>1. \A d \in VehicleCall : calls[d].pc = "idle"
  BY DEF CallAccepted
<1> DEFINE free == \A e \in VehicleCall \ {c} : calls[e].pc = "idle"
           mine == [local EXCEPT !.alone = free]
<1>2. /\ calls'[c] = mine
      /\ \A d \in VehicleCall \ { c } : calls'[d] = [calls[d] EXCEPT !.alone = FALSE]
  BY DEF CallAccepted
<1>3. /\ mine.pc = local.pc /\ mine.op = local.op /\ mine.veh = local.veh
      /\ mine.plate = local.plate /\ mine.alone
  BY <1>1 DEF CallState
<1> HIDE DEF mine
<1>4. \A d \in VehicleCall \ { c } : calls'[d].pc = "idle"
  BY <1>1, <1>2, ChoiceTypes DEF AloneInv, ChoiceInv, CallState
<1>5. AtMostOne' /\ PlatesUnique'
  BY DEF AloneInv, AtMostOne, PlatesUnique, ListedPrimaries, Kept
<1>6. Checked(c)'
  BY <1>2, <1>3 DEF Checked, PlateInUse, Kept
<1> QED
  BY <1>2, <1>3, <1>4, <1>5, <1>6 DEF AloneInv, OneByOne, Checked

\* The call in flight goes on, and no document changes its state or its
\* registration.
LEMMA AloneGoesOn ==
  ASSUME AloneInv, ChoiceInv', NEW c \in VehicleCall, calls[c].pc # "idle",
         NEW pc \in { "insert", "clear", "save" },
         CallGoes(c, [calls[c] EXCEPT !.pc = pc]),
         \A v \in Vehicle : /\ vehicles'[v].state = vehicles[v].state
                            /\ vehicles'[v].plate = vehicles[v].plate
                            /\ vehicles'[v].primary => vehicles[v].primary,
         calls[c].plate = NoPlate \/ ~ PlateInUse(calls[c].plate, calls[c].veh),
         calls[c].op = "create" => ~ PlateInUse(calls[c].plate, calls[c].veh)
  PROVE  AloneInv'
<1>1. /\ calls'[c].op = calls[c].op /\ calls'[c].alone = calls[c].alone
      /\ calls'[c].veh = calls[c].veh /\ calls'[c].plate = calls[c].plate
      /\ \A d \in VehicleCall \ { c } : calls'[d] = calls[d]
  BY ChoiceTypes DEF AloneInv, ChoiceInv, CallGoes, CallState
<1>2. Kept' = Kept /\ ListedPrimaries' \subseteq ListedPrimaries
  BY DEF Kept, ListedPrimaries
<1>3. \A d \in VehicleCall \ { c } : calls'[d].pc = "idle"
  BY <1>1, OthersIdle
<1>4. \A plate, v : PlateInUse(plate, v)' => PlateInUse(plate, v)
  BY <1>2 DEF PlateInUse, Kept
<1>5. Checked(c)'
  BY <1>1, <1>4 DEF Checked
<1>6. OneByOne'
  BY <1>1, <1>3 DEF AloneInv, OneByOne
<1> QED
  BY <1>2, <1>3, <1>5, <1>6 DEF AloneInv, AtMostOne, PlatesUnique, Checked

LEMMA StepAlone ==
  ASSUME ~ VehicleOverlap
  PROVE  AloneInv /\ [VehicleNext]_vehicleVars => AloneInv'
<1> SUFFICES ASSUME AloneInv, [VehicleNext]_vehicleVars PROVE AloneInv'
  OBVIOUS
<1>inv. VehicleInv /\ ChoiceInv /\ ChoiceInv' /\ AtMostOne /\ PlatesUnique
  BY StepChoice DEF AloneInv, ChoiceInv
<1>type. /\ vehicles \in [Vehicle -> VehicleDoc] /\ calls \in [VehicleCall -> CallState]
         /\ \A c \in VehicleCall : calls[c] \in CallState
         /\ \A v \in Vehicle : vehicles[v] \in VehicleDoc
  BY <1>inv, ChoiceTypes
<1>1. UNCHANGED vehicles => AtMostOne' /\ PlatesUnique'
  BY <1>inv DEF AtMostOne, PlatesUnique, ListedPrimaries, Kept
<1>2. CASE UNCHANGED vehicleVars
  BY <1>2, <1>1, <1>inv DEF vehicleVars, AloneInv, OneByOne, Checked, PlateInUse, Kept
<1>3. ASSUME NEW c \in VehicleCall, NEW v \in Vehicle, NEW plate \in Plate,
             NEW primary \in { "set", "unset" }, CreateVehicle(c, v, plate, primary)
      PROVE  AloneInv'
  <2> DEFINE local == [ IdleCall EXCEPT !.pc = AfterCheck("create", primary),
                          !.op = "create", !.veh = v, !.plate = plate,
                          !.primary = primary ]
  <2>1. AfterCheck("create", primary) \in { "clear", "insert" }
    BY DEF AfterCheck
  <2>2. local \in CallState /\ local.plate = plate /\ local.veh = v
    BY <2>1, VehicleShapes DEF IdleCall, CallState
  <2>3. CallAccepted(c, local) /\ UNCHANGED << vehicles, chosen >>
    BY <1>3 DEF CreateVehicle
  <2>4. ~ PlateInUse(plate, v)
    BY <1>3, VehicleAssumption DEF CreateVehicle, PlateInUse, Kept
  <2> HIDE DEF local
  <2> QED
    BY <1>inv, <2>2, <2>3, <2>4, AloneBegins
<1>4. ASSUME NEW c \in VehicleCall, NEW v \in Vehicle, NEW plate \in Plate \cup { NoPlate },
             NEW primary \in { "set", "unset", "keep" }, UpdateVehicle(c, v, plate, primary)
      PROVE  AloneInv'
  <2> DEFINE pc == IF plate # NoPlate THEN "check" ELSE AfterCheck("update", primary)
             local == [ IdleCall EXCEPT !.pc = pc,
                          !.op = "update", !.veh = v, !.loaded = vehicles[v],
                          !.plate = plate, !.primary = primary ]
  <2>1. pc \in { "check", "clear", "save" } /\ (plate # NoPlate => pc = "check")
    BY DEF AfterCheck
  <2>2. CallAccepted(c, local) /\ UNCHANGED << vehicles, chosen >>
    BY <1>4 DEF UpdateVehicle
  <2> HIDE DEF pc
  <2>3. /\ local \in CallState /\ local.pc = pc /\ local.op = "update"
        /\ local.plate = plate
    BY <1>type, <2>1, VehicleShapes DEF IdleCall, CallState
  <2> HIDE DEF local
  <2> QED
    BY <1>inv, <2>1, <2>2, <2>3, AloneBegins
<1>5. ASSUME NEW c \in VehicleCall, NEW v \in Vehicle, DeleteVehicle(c, v) PROVE AloneInv'
  <2> DEFINE local == [ IdleCall EXCEPT !.pc = "delete", !.op = "delete",
                          !.veh = v, !.loaded = vehicles[v] ]
  <2>1. CallAccepted(c, local) /\ UNCHANGED << vehicles, chosen >>
    BY <1>5 DEF DeleteVehicle
  <2>2. local \in CallState /\ local.pc = "delete" /\ local.op = "delete"
    BY <1>type, VehicleShapes DEF IdleCall, CallState
  <2> HIDE DEF local
  <2> QED
    BY <1>inv, <2>1, <2>2, AloneBegins
<1>6. ASSUME NEW v \in Vehicle, NEW doc \in VehicleDoc,
             vehicles' = [vehicles EXCEPT ![v] = doc],
             ~ IndexRejects(v, doc.plate),
             doc.state = "kept" /\ doc.primary => ListedPrimaries \subseteq { v }
      PROVE  AtMostOne' /\ PlatesUnique'
  <2>1. vehicles'[v] = doc /\ \A u \in Vehicle : u # v => vehicles'[u] = vehicles[u]
    BY <1>type, <1>6
  <2>2. ListedPrimaries' = IF doc.state = "kept" /\ doc.primary
                           THEN ListedPrimaries \cup { v } ELSE ListedPrimaries \ { v }
    BY <1>6, <1>inv, OneWritten
  <2>3. AtMostOne'
    BY <1>6, <1>inv, <2>2 DEF AtMostOne
  <2>4. PlatesUnique'
    BY <1>6, <1>inv, <2>1 DEF PlatesUnique, IndexRejects
  <2> QED
    BY <2>3, <2>4
<1>7. ASSUME NEW c \in VehicleCall, InsertVehicle(c) PROVE AloneInv'
  <2> DEFINE me == calls[c]
             doc == [state |-> "kept", plate |-> me.plate, primary |-> me.primary = "set"]
  <2>1. /\ me.pc = "insert" /\ Creates(c) /\ CallGoes(c, IdleCall)
        /\ ~ IndexRejects(me.veh, me.plate)
        /\ vehicles' = [vehicles EXCEPT ![me.veh] = doc]
    BY <1>7, <1>inv DEF InsertVehicle, VehicleInv
  <2>2. me.veh \in Vehicle /\ doc \in VehicleDoc /\ doc.state = "kept" /\ doc.plate = me.plate
    BY <1>type, <2>1 DEF Creates, VehicleDoc
  <2>3. doc.primary => ListedPrimaries \subseteq { me.veh }
    BY <2>1 DEF AloneInv, OneByOne, ChoiceInv, Undisturbed, ListedPrimaries, Kept
  <2> HIDE DEF doc
  <2>4. AtMostOne' /\ PlatesUnique'
    BY <1>6, <2>1, <2>2, <2>3
  <2> QED
    BY <1>inv, <2>1, <2>4, AloneEnds
<1>8. ASSUME NEW c \in VehicleCall, SaveVehicle(c) PROVE AloneInv'
  <2> DEFINE me == calls[c]
             old == vehicles[me.veh]
             doc == SavedVehicle(old, me)
  <2>1. /\ me.pc = "save" /\ me.op = "update" /\ Found(c) /\ CallGoes(c, IdleCall)
        /\ ~ IndexRejects(me.veh, doc.plate)
        /\ vehicles' = [vehicles EXCEPT ![me.veh] = doc]
    BY <1>8, <1>inv DEF SaveVehicle, VehicleInv
  <2>2. me.veh \in Vehicle /\ me \in CallState /\ old \in VehicleDoc
    BY <1>type, <2>1 DEF Found
  <2>3. doc \in VehicleDoc /\ doc.state = old.state
    BY <2>2, SavedType
  <2>4. me.alone /\ Undisturbed(c)
    BY <2>1 DEF AloneInv, OneByOne, ChoiceInv
  <2>5. doc.primary => me.primary = "set" \/ old.primary
    BY <2>2 DEF SavedVehicle, VehicleDoc, CallState
  <2>6. ASSUME doc.state = "kept", doc.primary PROVE ListedPrimaries \subseteq { me.veh }
    <3>1. CASE me.primary = "set"
      BY <2>1, <2>4, <3>1 DEF Undisturbed, ListedPrimaries, Kept
    <3>2. CASE old.primary
      BY <1>inv, <2>2, <2>3, <2>6, <3>2 DEF AtMostOne, ListedPrimaries, Kept
    <3> QED
      BY <2>5, <2>6, <3>1, <3>2
  <2> HIDE DEF doc
  <2>7. AtMostOne' /\ PlatesUnique'
    BY <1>6, <2>1, <2>2, <2>3, <2>6
  <2> QED
    BY <1>inv, <2>1, <2>7, AloneEnds
<1>9. ASSUME NEW c \in VehicleCall, EnsureRegistrationAvailable(c) PROVE AloneInv'
  <2>1. /\ calls[c].pc = "check" /\ calls[c].op = "update"
        /\ UNCHANGED << vehicles, chosen >>
    BY <1>9, <1>inv DEF EnsureRegistrationAvailable, VehicleInv
  <2>2. CASE CallGoes(c, IdleCall)
    BY <1>1, <1>inv, <2>1, <2>2, AloneEnds
  <2>3. CASE ~ PlateInUse(calls[c].plate, calls[c].veh)
    <3> DEFINE pc == AfterCheck("update", calls[c].primary)
    <3>1. pc \in { "insert", "clear", "save" }
      BY DEF AfterCheck
    <3>2. CallGoes(c, [calls[c] EXCEPT !.pc = pc])
      BY <1>9, <2>3 DEF EnsureRegistrationAvailable
    <3> HIDE DEF pc
    <3> QED
      BY <1>inv, <2>1, <2>3, <3>1, <3>2, AloneGoesOn
  <2> QED
    BY <1>9, <2>2, <2>3 DEF EnsureRegistrationAvailable
<1>10. ASSUME NEW c \in VehicleCall, UnsetPrimary(c) PROVE AloneInv'
  <2> DEFINE pc == IF calls[c].op = "create" THEN "insert" ELSE "save"
  <2>1. /\ calls[c].pc = "clear" /\ CallGoes(c, [calls[c] EXCEPT !.pc = pc])
        /\ pc \in { "insert", "clear", "save" }
    BY <1>10 DEF UnsetPrimary
  <2>2. \A v \in Vehicle : /\ vehicles'[v].state = vehicles[v].state
                           /\ vehicles'[v].plate = vehicles[v].plate
                           /\ vehicles'[v].primary => vehicles[v].primary
    BY <1>10, <1>type DEF UnsetPrimary, VehicleDoc
  <2>3. Checked(c)
    BY DEF AloneInv
  <2> HIDE DEF pc
  <2> QED
    BY <1>inv, <2>1, <2>2, <2>3, AloneGoesOn DEF Checked
<1>11. ASSUME NEW c \in VehicleCall, WriteRejected(c) \/ AbandonCall(c) PROVE AloneInv'
  <2>1. calls[c].pc # "idle" /\ CallGoes(c, IdleCall) /\ UNCHANGED << vehicles, chosen >>
    BY <1>11 DEF WriteRejected, AbandonCall
  <2> QED
    BY <1>1, <1>inv, <2>1, AloneEnds
<1>12. ASSUME NEW c \in VehicleCall, SoftDelete(c) PROVE AloneInv'
  <2> DEFINE v == calls[c].veh
  <2>1. calls[c].pc = "delete" /\ v \in Vehicle /\ CallGoes(c, IdleCall)
    BY <1>12, <1>inv DEF SoftDelete, VehicleInv, Found
  <2>2. AtMostOne' /\ PlatesUnique'
    <3>1. CASE v \in Kept
      <4>1. \A u \in Vehicle : /\ vehicles'[u].plate = vehicles[u].plate
                               /\ vehicles'[u].primary = vehicles[u].primary
                               /\ vehicles'[u].state # vehicles[u].state =>
                                    vehicles[u].state = "kept" /\ vehicles'[u].state = "deleted"
        BY <1>12, <1>type, <2>1, <3>1 DEF SoftDelete, VehicleDoc, Kept
      <4>2. ListedPrimaries' \subseteq ListedPrimaries
        BY <4>1 DEF ListedPrimaries, Kept
      <4>3. PlatesUnique'
        BY <1>inv, <4>1 DEF PlatesUnique
      <4> QED
        BY <1>inv, <4>2, <4>3 DEF AtMostOne
    <3>2. CASE v \notin Kept
      BY <1>1, <1>12, <3>2 DEF SoftDelete
    <3> QED
      BY <3>1, <3>2
  <2> QED
    BY <1>inv, <2>1, <2>2, AloneEnds
<1> QED
  BY <1>2, <1>3, <1>4, <1>5, <1>7, <1>8, <1>9, <1>10, <1>11, <1>12 DEF VehicleNext

LEMMA AloneOnePrimary == AloneInv => OnePrimary
<1> SUFFICES ASSUME AtMostOne PROVE Cardinality(ListedPrimaries) <= 1
  BY DEF AloneInv, OnePrimary
<1>1. CASE ListedPrimaries = {}
  BY <1>1, FS_EmptySet
<1>2. CASE \E v \in ListedPrimaries : ListedPrimaries = { v }
  <2>1. PICK v \in ListedPrimaries : ListedPrimaries = { v }
    BY <1>2
  <2>2. Cardinality({ v }) = 1
    BY FS_Singleton
  <2> QED
    BY <2>1, <2>2
<1> QED
  BY <1>1, <1>2 DEF AtMostOne

\* Calls one at a time, each cut off anywhere: never two primary vehicles in
\* the list, since the others are cleared before one is written and nothing
\* restores what was cleared (vehicle.service.ts:49-51, 102-104).
THEOREM NeverTwoPrimary ==
  ASSUME ~ VehicleOverlap
  PROVE  VehicleSpec => []OnePrimary
BY AloneOnePrimary, InitAlone, StepAlone, PTL DEF VehicleSpec

LEMMA AloneDeletedOnly == AloneInv => RefusedForDeletedOnly
<1> DEFINE written(c) == IF calls[c].pc = "insert" THEN calls[c].plate
                         ELSE SavedVehicle(vehicles[calls[c].veh], calls[c]).plate
<1> SUFFICES ASSUME AloneInv, NEW c \in VehicleCall, calls[c].pc \in { "insert", "save" },
                    NEW u \in Vehicle \ { calls[c].veh },
                    vehicles[u].state # "absent", vehicles[u].plate = written(c)
             PROVE  vehicles[u].state = "deleted"
  BY DEF RefusedForDeletedOnly, IndexRejects
<1>1. VehicleInv /\ Undisturbed(c) /\ calls[c].alone /\ Checked(c)
  BY DEF AloneInv, OneByOne, ChoiceInv
<1>2. calls[c] \in CallState /\ vehicles[u].state \in { "absent", "kept", "deleted" }
  BY <1>1, ChoiceTypes DEF VehicleDoc
<1>3. CASE calls[c].pc = "insert"
  <2>1. calls[c].op = "create"
    BY <1>1, <1>3 DEF VehicleInv
  <2> QED
    BY <1>1, <1>2, <1>3, <2>1 DEF Checked, PlateInUse, Kept
<1>4. CASE calls[c].pc = "save"
  <2>1. calls[c].op = "update" /\ Found(c)
    BY <1>1, <1>4 DEF VehicleInv
  <2>2. /\ calls[c].veh \in Vehicle /\ vehicles[calls[c].veh] = calls[c].loaded
        /\ calls[c].loaded \in VehicleDoc /\ calls[c].loaded.state = "kept"
    BY <1>1, <1>2, <1>4, <2>1 DEF Undisturbed, Found, CallState
  <2>3. written(c) = IF calls[c].plate = NoPlate THEN calls[c].loaded.plate
                     ELSE calls[c].plate
    BY <1>4, <2>2 DEF SavedVehicle, VehicleDoc
  <2>4. CASE calls[c].plate = NoPlate
    BY <2>2, <2>3, <2>4 DEF AloneInv, PlatesUnique
  <2>5. CASE calls[c].plate # NoPlate
    BY <1>1, <1>2, <1>4, <2>3, <2>5 DEF Checked, PlateInUse, Kept
  <2> QED
    BY <2>4, <2>5
<1> QED
  BY <1>3, <1>4

\* Calls one at a time: the unique index refuses what the check has let
\* through only for a deleted vehicle that still holds the registration
\* (vehicle.schema.ts:57, soft-delete.plugin.ts:13-19).
THEOREM OnlyDeletedRefuse ==
  ASSUME ~ VehicleOverlap
  PROVE  VehicleSpec => []RefusedForDeletedOnly
BY AloneDeletedOnly, InitAlone, StepAlone, PTL DEF VehicleSpec

\* Both of the above in the run, whatever its other parts do: the vehicles of
\* `garage' are the same variables, but a behaviour never crosses over.
THEOREM KeeperAlwaysKeepsOrder ==
  ASSUME ~ VehicleOverlap
  PROVE  PartsSpec => []KeeperKeepsOrder
<1> DEFINE I == part = "keeper" => AloneInv
<1>1. PartsInit => I
  BY InitAlone DEF PartsInit
<1>2. I /\ [PartsNext]_partsVars => I'
  <2> SUFFICES ASSUME I, [PartsNext]_partsVars, part' = "keeper"
               PROVE  AloneInv'
    OBVIOUS
  <2>1. part = "keeper" /\ [VehicleNext]_vehicleVars
    BY DEF PartsNext, partsVars
  <2> QED
    BY <2>1, StepAlone
<1>3. I => KeeperKeepsOrder
  BY AloneOnePrimary, AloneDeletedOnly DEF KeeperKeepsOrder
<1> QED
  BY <1>1, <1>2, <1>3, PTL DEF PartsSpec

-----------------------------------------------------------------------------
(***************************************************************************)
(* Bank details, for any numbers of owners, of details and of calls in     *)
(* flight, kept apart from the migration or not, cut off or not: account   *)
(* numbers are encrypted once the migration is done, and never twice.      *)
(***************************************************************************)
Banks == Bank \cup { NoBank }

\* Nothing of it is in the clear.
IsSealed(bank) == bank # NoBank => bank.account # "plain"

IsReadable(bank) == bank.account # "garbled"

AllKeyed == fleet = { "keyed" }

\* What is written in the clear comes from a process without the key, and
\* there is none any more; so what the migration finds sealed stays sealed,
\* and what it finds in the clear it seals.
BankInv ==
  /\ BankDetailsSafe
  /\ \A o \in Owner : ~ profiles[o].exists => profiles[o].bank = NoBank
  /\ \A c \in ProfileCall :
       LET me == profileCalls[c] IN
       /\ IsReadable(me.bank)
       /\ me.pc # "idle" => me.own \in Owner /\ (AllKeyed => me.key = "keyed")
       /\ me.pc = "insert" => me.dirty
       /\ me.pc = "save" => profiles[me.own].exists
       /\ me.pc # "idle" /\ me.key = "keyed" /\ me.dirty => IsSealed(me.bank)
  /\ \A o \in Owner : IsReadable(migration.loaded[o])
  /\ \A o \in migration.todo : profiles[o].exists
  /\ migration.keyed => AllKeyed
  /\ migration.keyed =>
       \A o \in Owner :
         IF o \in migration.todo
         THEN /\ migration.loaded[o] # NoBank
              /\ IsSealed(migration.loaded[o]) => IsSealed(profiles[o].bank)
         ELSE IsSealed(profiles[o].bank)
  /\ migration.done => AllKeyed

-----------------------------------------------------------------------------
LEMMA BankShapes ==
  /\ NoBank \in Banks /\ NoBank \notin Bank /\ IsSealed(NoBank) /\ IsReadable(NoBank)
  /\ NoProfile \in Profile /\ NoProfile.bank = NoBank /\ ~ NoProfile.exists
  /\ IdleProfileCall \in ProfileCallState /\ IdleProfileCall.pc = "idle"
  /\ IdleProfileCall.bank = NoBank
BY ProfileAssumption
   DEF Banks, NoBank, Bank, Form, IsSealed, IsReadable, NoProfile, Profile,
       IdleProfileCall, ProfileCallState, Key

\* What is submitted is readable, and sealed by a process that has the key.
LEMMA SubmittedBank ==
  ASSUME NEW d \in Details \cup { NoDetails }, NEW key \in Key
  PROVE  LET new  == IF d = NoDetails THEN NoBank ELSE Submitted(d)
             bank == BankSetters(encryptBankDetails(new, key)) IN
         /\ bank \in Banks /\ IsReadable(bank)
         /\ key = "keyed" => IsSealed(bank)
<1> DEFINE new  == IF d = NoDetails THEN NoBank ELSE Submitted(d)
           bank == BankSetters(encryptBankDetails(new, key))
<1>1. CASE d = NoDetails
  <2>1. bank = NoBank
    BY <1>1 DEF encryptBankDetails, BankSetters, NoBank
  <2> QED
    BY <2>1, BankShapes
<1>2. CASE d # NoDetails
  <2>1. new \in Bank /\ new # NoBank
    BY <1>2, BankShapes DEF Submitted, Bank, Form
  <2>2. CASE key = "unkeyed"
    <3>1. bank = [new EXCEPT !.ifsc = IF @ = "sealed" THEN "garbled" ELSE @]
      BY <2>2 DEF encryptBankDetails, BankSetters
    <3>2. new.account = "plain"
      BY <1>2 DEF Submitted
    <3> QED
      BY <2>1, <2>2, <3>1, <3>2 DEF Bank, Banks, Form, IsReadable
  <2>3. CASE key = "keyed"
    <3>1. /\ encryptBankDetails(new, key) \in Bank
          /\ encryptBankDetails(new, key).account = "sealed"
      BY <2>1, <2>3 DEF encryptBankDetails, encryptField, Bank, Form
    <3>2. bank \in Bank /\ bank.account = "sealed"
      BY <3>1 DEF BankSetters, Bank, Form
    <3> QED
      BY <3>2 DEF Banks, IsReadable, IsSealed
  <2> QED
    BY <2>2, <2>3 DEF Key
<1> QED
  BY <1>1, <1>2

\* What the migration saves is sealed.
LEMMA MigratedBank ==
  ASSUME NEW bank \in Bank
  PROVE  LET saved == BankSetters(encryptBankDetails(bank, "keyed")) IN
         saved \in Bank /\ IsReadable(saved) /\ IsSealed(saved)
<1>1. bank # NoBank
  BY BankShapes
<1>2. /\ encryptBankDetails(bank, "keyed") \in Bank
      /\ encryptBankDetails(bank, "keyed").account = "sealed"
  BY <1>1 DEF encryptBankDetails, encryptField, Bank, Form
<1> DEFINE saved == BankSetters(encryptBankDetails(bank, "keyed"))
<1>3. saved \in Bank /\ saved.account = "sealed"
  BY <1>2 DEF BankSetters, Bank, Form
<1> QED
  BY <1>3 DEF IsReadable, IsSealed

LEMMA InitBank == ProfileInit => BankInv
<1> SUFFICES ASSUME ProfileInit PROVE BankInv
  OBVIOUS
<1>1. /\ migration = NotMigrated /\ NotMigrated.done = FALSE /\ NotMigrated.keyed = FALSE
      /\ NotMigrated.running = FALSE /\ NotMigrated.todo = {}
      /\ NotMigrated.loaded = [o \in Owner |-> NoBank]
  BY DEF ProfileInit, NotMigrated, NoneLoaded
<1>2. migration \in [ running : BOOLEAN, keyed : BOOLEAN, done : BOOLEAN,
                      todo : SUBSET Owner, loaded : [Owner -> Banks] ]
  BY BankShapes DEF ProfileInit, NotMigrated, NoneLoaded
<1>3. ProfileTypeOK
  BY <1>2, BankShapes DEF ProfileInit, ProfileTypeOK, Banks
<1> QED
  BY <1>1, <1>3, BankShapes
     DEF ProfileInit, BankInv, BankDetailsSafe, NothingInTheClear, AccountReadable,
         IsReadable

-----------------------------------------------------------------------------
\* Calls change; profiles, the fleet and the migration do not.
LEMMA OnlyCalls ==
  ASSUME BankInv, UNCHANGED << profiles, fleet, migration, confirmed >>,
         NEW c \in ProfileCall, NEW local \in ProfileCallState,
         profileCalls' = [profileCalls EXCEPT ![c] = local],
         IsReadable(local.bank),
         local.pc # "idle" => local.own \in Owner /\ local.key \in fleet,
         local.pc = "insert" => local.dirty,
         local.pc = "save" => profiles[local.own].exists,
         local.pc # "idle" /\ local.key = "keyed" /\ local.dirty => IsSealed(local.bank)
  PROVE  BankInv'
<1>1. AllKeyed /\ local.key \in fleet => local.key = "keyed"
  BY DEF AllKeyed
<1>2. ProfileTypeOK'
  BY DEF BankInv, BankDetailsSafe, ProfileTypeOK
<1>3. BankDetailsSafe'
  BY <1>2 DEF BankInv, BankDetailsSafe, NothingInTheClear, AccountReadable
<1> QED
  BY <1>1, <1>3 DEF BankInv, BankDetailsSafe, ProfileTypeOK, AllKeyed

\* One owner's details are written: readable ones, and no longer in the clear
\* if they were not before, when all processes have the key.
LEMMA OneBankWritten ==
  ASSUME BankInv, NEW o \in Owner, NEW profile \in Profile,
         profiles' = [profiles EXCEPT ![o] = profile], profile.exists,
         IsReadable(profile.bank),
         AllKeyed /\ IsSealed(profiles[o].bank) => IsSealed(profile.bank),
         UNCHANGED << fleet, migration >>,
         confirmed' \in [Owner -> Details \cup { NoDetails }],
         NEW c \in ProfileCall,
         profileCalls' = [profileCalls EXCEPT ![c] = IdleProfileCall]
  PROVE  BankInv'
<1>1. ProfileTypeOK'
  BY BankShapes DEF BankInv, BankDetailsSafe, ProfileTypeOK
<1>2. /\ profiles'[o] = profile
      /\ \A p \in Owner \ { o } : profiles'[p] = profiles[p]
  BY DEF BankInv, BankDetailsSafe, ProfileTypeOK
<1>3. NothingInTheClear'
  BY <1>2 DEF BankInv, BankDetailsSafe, NothingInTheClear, IsSealed
<1>4. AccountReadable'
  BY <1>2 DEF BankInv, BankDetailsSafe, AccountReadable, IsReadable
<1>5. /\ profileCalls'[c] = IdleProfileCall
      /\ \A d \in ProfileCall \ { c } : profileCalls'[d] = profileCalls[d]
  BY DEF BankInv, BankDetailsSafe, ProfileTypeOK
<1>6. \A p \in Owner : IsSealed(profiles[p].bank) /\ AllKeyed => IsSealed(profiles'[p].bank)
  BY <1>2
<1> QED
  BY <1>1, <1>2, <1>3, <1>4, <1>5, <1>6, BankShapes DEF BankInv, BankDetailsSafe, AllKeyed

LEMMA StepBank == BankInv /\ [ProfileNext]_profileVars => BankInv'
<1> SUFFICES ASSUME BankInv, [ProfileNext]_profileVars PROVE BankInv'
  OBVIOUS
<1> USE BankShapes
<1>type. ProfileTypeOK
  BY DEF BankInv, BankDetailsSafe
<1>1. ASSUME UNCHANGED profileVars PROVE BankInv'
  BY <1>1 DEF profileVars, BankInv, BankDetailsSafe, ProfileTypeOK, NothingInTheClear,
              AccountReadable, AllKeyed
<1>2. ASSUME NEW c \in ProfileCall, NEW o \in Owner, NEW key \in Key, NEW d \in Details,
             OnboardProvider(c, o, d, key)
      PROVE  BankInv'
  <2> DEFINE bank == BankSetters(encryptBankDetails(Submitted(d), key))
             local == [ pc |-> "insert", own |-> o, key |-> key, dirty |-> TRUE,
                        bank |-> bank ]
  <2>1. bank \in Banks /\ IsReadable(bank) /\ (key = "keyed" => IsSealed(bank))
    BY SubmittedBank, ProfileAssumption
  <2> HIDE DEF bank
  <2>2. local \in ProfileCallState
    BY <2>1 DEF ProfileCallState, Banks
  <2>3. ProfileCallAccepted(c, local)
    BY <1>2 DEF OnboardProvider, bank
  <2> QED
    BY <2>1, <2>2, <2>3, OnlyCalls DEF ProfileCallAccepted
<1>3. ASSUME NEW c \in ProfileCall, NEW o \in Owner, NEW key \in Key,
             NEW d \in Details \cup { NoDetails }, UpdateMyProfile(c, o, d, key)
      PROVE  BankInv'
  <2> DEFINE bank == BankSetters(encryptBankDetails(
                       IF d = NoDetails THEN NoBank ELSE Submitted(d), key))
             dirty == Differs(bank, profiles[o].bank)
             local == [ pc |-> "save", own |-> o, key |-> key, bank |-> bank,
                        dirty |-> dirty ]
  <2>1. bank \in Banks /\ IsReadable(bank) /\ (key = "keyed" => IsSealed(bank))
    BY SubmittedBank
  <2>2. dirty \in BOOLEAN
    BY DEF Differs
  <2>3. ProfileCallAccepted(c, local)
    BY <1>3 DEF UpdateMyProfile
  <2> HIDE DEF bank, dirty
  <2>4. local \in ProfileCallState
    BY <2>1, <2>2 DEF ProfileCallState, Banks
  <2> QED
    <3>1. /\ local.pc = "save" /\ local.own = o /\ local.key = key
          /\ local.bank = bank /\ local.dirty = dirty
      OBVIOUS
    <3>2. /\ profiles[o].exists /\ local.key \in fleet
          /\ profileCalls' = [profileCalls EXCEPT ![c] = local]
          /\ UNCHANGED << profiles, fleet, migration, confirmed >>
      BY <1>3, <2>3 DEF UpdateMyProfile, ProfileCallAccepted
    <3> HIDE DEF local
    <3> QED
      BY <2>1, <2>4, <3>1, <3>2, OnlyCalls
<1>4. ASSUME NEW c \in ProfileCall, NEW o \in Owner, NEW key \in Key,
             EditOtherFields(c, o, key)
      PROVE  BankInv'
  <2> DEFINE local == [ pc |-> "save", own |-> o, key |-> key,
                        bank |-> profiles[o].bank, dirty |-> FALSE ]
  <2>1. profiles[o].bank \in Banks /\ IsReadable(profiles[o].bank)
    BY <1>type DEF ProfileTypeOK, Profile, Banks, BankInv, BankDetailsSafe,
                   AccountReadable, IsReadable
  <2>2. local \in ProfileCallState
    BY <2>1 DEF ProfileCallState, Banks
  <2>3. ProfileCallAccepted(c, local)
    BY <1>4 DEF EditOtherFields
  <2> QED
    BY <1>4, <2>1, <2>2, <2>3, OnlyCalls DEF EditOtherFields, ProfileCallAccepted
<1>5. ASSUME NEW c \in ProfileCall, InsertProfile(c) PROVE BankInv'
  <2> DEFINE me == profileCalls[c]
             profile == [exists |-> TRUE, bank |-> me.bank]
  <2>1. /\ me \in ProfileCallState /\ me.pc = "insert" /\ me.own \in Owner /\ me.dirty
        /\ IsReadable(me.bank) /\ (AllKeyed => IsSealed(me.bank))
    BY <1>5, <1>type DEF InsertProfile, BankInv, ProfileTypeOK
  <2>2. CASE profiles[me.own].exists
    BY <1>5, <2>2, OnlyCalls DEF InsertProfile
  <2>3. CASE ~ profiles[me.own].exists
    <3>1. profile \in Profile /\ me.bank.details \in Details \cup { NoDetails }
      BY <2>1 DEF ProfileCallState, Profile, Bank, NoBank
    <3>2. /\ profiles' = [profiles EXCEPT ![me.own] = profile]
          /\ confirmed' \in [Owner -> Details \cup { NoDetails }]
      BY <1>5, <1>type, <2>3, <3>1 DEF InsertProfile, ProfileTypeOK
    <3> QED
      BY <1>5, <2>1, <3>1, <3>2, OneBankWritten DEF InsertProfile
  <2> QED
    BY <2>2, <2>3
<1>6. ASSUME NEW c \in ProfileCall, SaveProfile(c) PROVE BankInv'
  <2> DEFINE me == profileCalls[c]
             bank == IF me.dirty THEN me.bank ELSE profiles[me.own].bank
  <2>1. /\ me \in ProfileCallState /\ me.pc = "save" /\ me.own \in Owner
        /\ IsReadable(me.bank) /\ (AllKeyed /\ me.dirty => IsSealed(me.bank))
    BY <1>6, <1>type DEF SaveProfile, BankInv, ProfileTypeOK
  <2>2. me.bank.details \in Details \cup { NoDetails }
    BY <2>1 DEF ProfileCallState, Bank, NoBank
  <2>3. confirmed' \in [Owner -> Details \cup { NoDetails }]
    BY <1>6, <1>type, <2>2 DEF SaveProfile, ProfileTypeOK
  <2>4. /\ profiles' = [profiles EXCEPT ![me.own] = [profiles[me.own] EXCEPT !.bank = bank]]
        /\ profileCalls' = [profileCalls EXCEPT ![c] = IdleProfileCall]
        /\ UNCHANGED << fleet, migration >>
    BY <1>6, <2>1 DEF SaveProfile
  <2>5. profiles[me.own].exists /\ profiles[me.own] \in Profile
    BY <1>type, <2>1 DEF BankInv, ProfileTypeOK
  <2>6. IsReadable(bank) /\ bank \in Banks
    BY <2>1, <2>5 DEF BankInv, BankDetailsSafe, AccountReadable, IsReadable,
                      ProfileCallState, Profile, Banks
  <2>7. AllKeyed /\ IsSealed(profiles[me.own].bank) => IsSealed(bank)
    BY <2>1
  <2> HIDE DEF bank
  <2> DEFINE profile == [profiles[me.own] EXCEPT !.bank = bank]
  <2>8. profile \in Profile /\ profile.exists /\ profile.bank = bank
    BY <2>5, <2>6 DEF Profile, Banks
  <2> HIDE DEF profile, me
  <2> QED
    BY <2>1, <2>3, <2>4, <2>6, <2>7, <2>8, OneBankWritten DEF profile
<1>7. ASSUME NEW c \in ProfileCall, AbandonProfileCall(c) PROVE BankInv'
  BY <1>7, OnlyCalls DEF AbandonProfileCall
<1>8. ASSUME DeployKey PROVE BankInv'
  <2>1. ~ AllKeyed /\ ~ AllKeyed'
    BY <1>8 DEF DeployKey, AllKeyed, Key
  <2>2. ProfileTypeOK'
    BY <1>8, <1>type DEF DeployKey, ProfileTypeOK
  <2> QED
    BY <1>8, <2>1, <2>2
       DEF DeployKey, BankInv, BankDetailsSafe, NothingInTheClear, AccountReadable
<1>9. ASSUME RetireUnkeyed PROVE BankInv'
  <2>1. /\ AllKeyed' /\ ~ AllKeyed
        /\ UNCHANGED << profiles, migration, confirmed >>
    BY <1>9 DEF RetireUnkeyed, AllKeyed, Key
  <2>2. \A c \in ProfileCall :
          \/ profileCalls'[c] = IdleProfileCall
          \/ /\ profileCalls'[c] = profileCalls[c]
             /\ profileCalls[c].pc # "idle" => profileCalls[c].key = "keyed"
    BY <1>9, <1>type DEF RetireUnkeyed, ProfileTypeOK, ProfileCallState, Key
  <2>3. ProfileTypeOK'
    BY <1>9, <1>type DEF RetireUnkeyed, ProfileTypeOK
  <2> QED
    BY <2>1, <2>2, <2>3
       DEF BankInv, BankDetailsSafe, NothingInTheClear, AccountReadable
<1>10. ASSUME MigrationLoad PROVE BankInv'
  <2> DEFINE with == { o \in Owner : profiles[o].exists /\ profiles[o].bank # NoBank }
             loaded == [o \in Owner |-> IF o \in with THEN profiles[o].bank ELSE NoBank]
  <2>1. /\ migration' = [ migration EXCEPT !.running = TRUE, !.todo = with,
                            !.keyed = AllKeyed, !.loaded = loaded ]
        /\ UNCHANGED << profiles, fleet, profileCalls, confirmed >>
    BY <1>10 DEF MigrationLoad, AllKeyed
  <2>2. /\ loaded \in [Owner -> Banks]
        /\ \A o \in Owner : IsReadable(loaded[o])
        /\ \A o \in Owner : IF o \in with
                            THEN loaded[o] # NoBank /\ loaded[o] = profiles[o].bank
                            ELSE profiles[o].bank = NoBank
    BY <1>type DEF ProfileTypeOK, Profile, Banks, BankInv, BankDetailsSafe,
                   AccountReadable, IsReadable
  <2>3. with \in SUBSET Owner /\ AllKeyed \in BOOLEAN
    BY DEF AllKeyed
  <2> HIDE DEF with, loaded
  <2>4. /\ migration' \in [ running : BOOLEAN, keyed : BOOLEAN, done : BOOLEAN,
                            todo : SUBSET Owner, loaded : [Owner -> Banks] ]
        /\ migration'.keyed <=> AllKeyed
        /\ migration'.todo = with /\ migration'.loaded = loaded
        /\ migration'.done <=> migration.done
    BY <1>type, <2>1, <2>2, <2>3 DEF ProfileTypeOK, Banks
  <2>5. ProfileTypeOK'
    BY <1>type, <2>1, <2>4 DEF ProfileTypeOK, Banks
  <2> QED
    BY <2>1, <2>2, <2>4, <2>5
       DEF BankInv, BankDetailsSafe, NothingInTheClear, AccountReadable, AllKeyed
<1>11. ASSUME NEW o \in Owner, MigrationSave(o) PROVE BankInv'
  <2> DEFINE bank == migration.loaded[o]
             saved == BankSetters(encryptBankDetails(bank, "keyed"))
  <2>1. /\ migration.running /\ o \in migration.todo
        /\ migration' = [ migration EXCEPT !.todo = @ \ { o }, !.loaded[o] = NoBank ]
        /\ UNCHANGED << fleet, profileCalls, confirmed >>
    BY <1>11 DEF MigrationSave
  <2>2. /\ migration' \in [ running : BOOLEAN, keyed : BOOLEAN, done : BOOLEAN,
                            todo : SUBSET Owner, loaded : [Owner -> Banks] ]
        /\ migration'.keyed <=> migration.keyed
        /\ migration'.done <=> migration.done
        /\ migration'.todo = migration.todo \ { o }
        /\ migration'.loaded = [migration.loaded EXCEPT ![o] = NoBank]
    BY <1>type, <2>1 DEF ProfileTypeOK, Banks
  <2>3. bank \in Banks /\ IsReadable(bank)
    BY <1>type DEF ProfileTypeOK, Banks, BankInv
  <2>4. /\ profiles' \in [Owner -> Profile]
        /\ \A p \in Owner : profiles'[p].exists <=> profiles[p].exists
        /\ \A p \in Owner \ { o } : profiles'[p] = profiles[p]
        /\ IsReadable(profiles'[o].bank)
        /\ IsSealed(profiles[o].bank) => IsSealed(profiles'[o].bank)
        /\ migration.keyed => IsSealed(profiles'[o].bank)
    <3>1. profiles[o].exists /\ profiles[o] \in Profile
      BY <1>type, <2>1 DEF BankInv, ProfileTypeOK
    <3>2. CASE bankDetailsNeedsEncryption(bank)
      <4>1. saved \in Bank /\ IsReadable(saved) /\ IsSealed(saved)
        BY <2>3, <3>2, MigratedBank DEF bankDetailsNeedsEncryption, Banks
      <4>2. profiles' = [profiles EXCEPT ![o].bank = saved]
        BY <1>11, <3>2 DEF MigrationSave
      <4> HIDE DEF saved
      <4> QED
        BY <1>type, <3>1, <4>1, <4>2 DEF ProfileTypeOK, Profile
    <3>3. CASE ~ bankDetailsNeedsEncryption(bank)
      <4>1. UNCHANGED profiles
        BY <1>11, <3>3 DEF MigrationSave
      <4>2. migration.keyed => bank # NoBank /\ bank.account = "sealed"
        BY <2>1, <2>3, <3>3 DEF BankInv, bankDetailsNeedsEncryption, Banks, Bank
      <4>3. migration.keyed => IsSealed(profiles[o].bank)
        BY <2>1, <4>2 DEF BankInv, IsSealed
      <4> QED
        BY <1>type, <4>1, <4>3
           DEF ProfileTypeOK, BankInv, BankDetailsSafe, AccountReadable, IsReadable
    <3> QED
      BY <3>2, <3>3
  <2>5. ProfileTypeOK'
    BY <1>type, <2>1, <2>2, <2>4 DEF ProfileTypeOK, Banks
  <2>6. /\ NothingInTheClear' /\ AccountReadable'
        /\ \A p \in Owner : IsReadable(migration'.loaded[p])
    BY <1>type, <2>2, <2>4
       DEF BankInv, BankDetailsSafe, NothingInTheClear, AccountReadable, IsSealed,
           IsReadable, ProfileTypeOK
  <2>7. ASSUME migration'.keyed, NEW p \in Owner
        PROVE  IF p \in migration'.todo
               THEN /\ migration'.loaded[p] # NoBank
                    /\ IsSealed(migration'.loaded[p]) => IsSealed(profiles'[p].bank)
               ELSE IsSealed(profiles'[p].bank)
    BY <1>type, <2>2, <2>4, <2>7 DEF BankInv, ProfileTypeOK
  <2>8. /\ \A p \in Owner : ~ profiles'[p].exists => profiles'[p].bank = NoBank
        /\ \A p \in migration'.todo : profiles'[p].exists
    BY <1>type, <2>1, <2>2, <2>4 DEF BankInv, ProfileTypeOK
  <2> QED
    BY <1>type, <2>1, <2>2, <2>4, <2>5, <2>6, <2>7, <2>8
       DEF BankInv, BankDetailsSafe, AllKeyed, ProfileTypeOK
<1>12. ASSUME MigrationEnds \/ MigrationFails PROVE BankInv'
  <2>1. UNCHANGED << profiles, fleet, profileCalls, confirmed >>
    BY <1>12 DEF MigrationEnds, MigrationFails
  <2>2. /\ migration' \in [ running : BOOLEAN, keyed : BOOLEAN, done : BOOLEAN,
                            todo : SUBSET Owner, loaded : [Owner -> Banks] ]
        /\ migration'.keyed = FALSE /\ migration'.todo = {}
        /\ \A o \in Owner : IsReadable(migration'.loaded[o])
        /\ migration'.done => migration.done \/ (migration.keyed /\ migration.todo = {})
    <3>1. CASE MigrationEnds
      BY <1>type, <3>1 DEF MigrationEnds, ProfileTypeOK, Banks, BankInv
    <3>2. CASE MigrationFails
      <4>1. NotMigrated \in [ running : BOOLEAN, keyed : BOOLEAN, done : BOOLEAN,
                              todo : SUBSET Owner, loaded : [Owner -> Banks] ]
            /\ NotMigrated.keyed = FALSE /\ NotMigrated.todo = {}
            /\ NotMigrated.loaded = [o \in Owner |-> NoBank]
        BY DEF NotMigrated, NoneLoaded
      <4> QED
        BY <1>type, <3>2, <4>1 DEF MigrationFails, ProfileTypeOK, Banks
    <3> QED
      BY <1>12, <3>1, <3>2
  <2>3. ProfileTypeOK'
    BY <1>type, <2>1, <2>2 DEF ProfileTypeOK, Banks
  <2>4. migration'.done => AllKeyed /\ \A o \in Owner : IsSealed(profiles[o].bank)
    BY <2>2 DEF BankInv, BankDetailsSafe, NothingInTheClear, IsSealed
  <2>5. NothingInTheClear' /\ AccountReadable'
    BY <2>1, <2>4 DEF BankInv, BankDetailsSafe, NothingInTheClear, AccountReadable, IsSealed
  <2> QED
    BY <2>1, <2>2, <2>3, <2>4, <2>5 DEF BankInv, BankDetailsSafe, AllKeyed
<1> QED
  BY <1>1, <1>2, <1>3, <1>4, <1>5, <1>6, <1>7, <1>8, <1>9, <1>10, <1>11, <1>12
     DEF ProfileNext

-----------------------------------------------------------------------------
\* Once a migration that began when every process had the key has run to its
\* end, no account number is in the clear, whatever edits and onboardings run
\* beside it and whatever was cut off before; and none is ever encrypted twice
\* (provider.service.ts:203-219, field-encryption.util.ts:15).
THEOREM BankDetailsAlwaysSafe == ProfileSpec => []BankDetailsSafe
<1>1. BankInv => BankDetailsSafe
  BY DEF BankInv
<1> QED
  BY <1>1, InitBank, StepBank, PTL DEF ProfileSpec

-----------------------------------------------------------------------------
(***************************************************************************)
(* What an owner was told is stored, when the owner's edits and the        *)
(* migration are kept apart.  A save has its profile to itself, and what it*)
(* does not write is what it found; so has the migration.                  *)
(***************************************************************************)
Entrusted(c) ==
  LET me == profileCalls[c] IN
  me.pc = "save" =>
    /\ \A d \in ProfileCall \ { c } :
         profileCalls[d].pc # "idle" => profileCalls[d].own # me.own
    /\ ~ me.dirty => me.bank.details = profiles[me.own].bank.details

ToldInv ==
  /\ BankInv
  /\ ConfirmedIsStored
  /\ \A c \in ProfileCall : Entrusted(c)
  /\ migration.running =>
       /\ \A c \in ProfileCall : profileCalls[c].pc = "idle"
       /\ \A o \in migration.todo : migration.loaded[o].details = profiles[o].bank.details

LEMMA ToldTypes ==
  ASSUME BankInv
  PROVE  /\ profiles \in [Owner -> Profile] /\ confirmed \in [Owner -> Details \cup { NoDetails }]
         /\ profileCalls \in [ProfileCall -> ProfileCallState]
         /\ \A o \in Owner : profiles[o] \in Profile
         /\ \A c \in ProfileCall : profileCalls[c] \in ProfileCallState
         /\ migration \in [ running : BOOLEAN, keyed : BOOLEAN, done : BOOLEAN,
                            todo : SUBSET Owner, loaded : [Owner -> Banks] ]
BY DEF BankInv, BankDetailsSafe, ProfileTypeOK, Banks

LEMMA InitTold == ProfileInit => ToldInv
<1> SUFFICES ASSUME ProfileInit PROVE ToldInv
  OBVIOUS
<1>1. BankInv
  BY InitBank
<1>2. ConfirmedIsStored
  BY DEF ProfileInit, ConfirmedIsStored, NoProfile, NoBank
<1>3. \A c \in ProfileCall : profileCalls[c].pc = "idle"
  BY DEF ProfileInit, IdleProfileCall
<1>4. ~ migration.running
  BY DEF ProfileInit, NotMigrated
<1> QED
  BY <1>1, <1>2, <1>3, <1>4 DEF ToldInv, Entrusted

\* A call begins.
LEMMA ToldBegins ==
  ASSUME ToldInv, BankInv', Apart, NEW c \in ProfileCall, NEW local \in ProfileCallState,
         ProfileCallAccepted(c, local),
         \A d \in ProfileCall :
           profileCalls[d].pc # "idle" =>
             profileCalls[d].own # local.own
               \/ (local.pc = "insert" /\ profileCalls[d].pc = "insert"),
         local.pc = "save" /\ ~ local.dirty =>
           local.bank.details = profiles[local.own].bank.details
  PROVE  ToldInv'
<1>1. /\ profileCalls'[c] = local
      /\ \A d \in ProfileCall \ { c } : profileCalls'[d] = profileCalls[d]
      /\ UNCHANGED << profiles, migration, confirmed >> /\ ~ migration.running
  BY ToldTypes DEF ToldInv, ProfileCallAccepted
<1>2. Entrusted(c)'
  BY <1>1 DEF Entrusted
<1>3. ASSUME NEW d \in ProfileCall \ { c } PROVE Entrusted(d)'
  <2>1. Entrusted(d)
    BY DEF ToldInv
  <2> QED
    BY <1>1, <2>1 DEF Entrusted
<1> QED
  BY <1>1, <1>2, <1>3 DEF ToldInv, ConfirmedIsStored

\* A call for o ends, having written the details that it confirms, or nothing.
EndsFor(c, o) ==
  /\ profileCalls[c].pc # "idle"
  /\ profileCalls' = [profileCalls EXCEPT ![c] = IdleProfileCall]
  /\ UNCHANGED migration
  /\ o \in Owner /\ o = profileCalls[c].own
  /\ \A p \in Owner \ { o } : profiles'[p] = profiles[p] /\ confirmed'[p] = confirmed[p]
  /\ profiles'[o].bank.details = confirmed'[o]
  /\ \/ profiles'[o] = profiles[o]
     \/ \A d \in ProfileCall \ { c } :
          profileCalls[d].pc = "save" => profileCalls[d].own # o

LEMMA ToldEnds ==
  ASSUME ToldInv, BankInv', NEW c \in ProfileCall, NEW o, EndsFor(c, o)
  PROVE  ToldInv'
<1> USE DEF EndsFor
<1>1. /\ profileCalls'[c].pc = "idle"
      /\ \A d \in ProfileCall \ { c } : profileCalls'[d] = profileCalls[d]
  BY ToldTypes, BankShapes DEF ToldInv
<1>2. ASSUME NEW d \in ProfileCall PROVE Entrusted(d)'
  <2>1. CASE d = c
    BY <1>1, <2>1 DEF Entrusted
  <2>2. CASE d # c /\ profileCalls[d].pc = "save"
    <3>1. Entrusted(d) /\ profileCalls[d].own \in Owner
      BY <2>2 DEF ToldInv, BankInv
    <3> QED
      BY <1>1, <2>2, <3>1 DEF Entrusted
  <2>3. CASE d # c /\ profileCalls[d].pc # "save"
    BY <1>1, <2>3 DEF Entrusted
  <2> QED
    BY <2>1, <2>2, <2>3
<1>3. ConfirmedIsStored'
  BY DEF ToldInv, ConfirmedIsStored
<1>4. ~ migration.running
  BY DEF ToldInv
<1> QED
  BY <1>2, <1>3, <1>4 DEF ToldInv

LEMMA StepTold ==
  ASSUME Apart
  PROVE  ToldInv /\ [ProfileNext]_profileVars => ToldInv'
<1> SUFFICES ASSUME ToldInv, [ProfileNext]_profileVars PROVE ToldInv'
  OBVIOUS
<1>inv. BankInv /\ BankInv' /\ ConfirmedIsStored
  BY StepBank DEF ToldInv
<1>type. /\ profiles \in [Owner -> Profile] /\ confirmed \in [Owner -> Details \cup { NoDetails }]
         /\ profileCalls \in [ProfileCall -> ProfileCallState]
         /\ \A o \in Owner : profiles[o] \in Profile
         /\ \A c \in ProfileCall : profileCalls[c] \in ProfileCallState
         /\ migration \in [ running : BOOLEAN, keyed : BOOLEAN, done : BOOLEAN,
                            todo : SUBSET Owner, loaded : [Owner -> Banks] ]
  BY <1>inv, ToldTypes
<1>1. CASE UNCHANGED profileVars
  BY <1>1, <1>inv DEF profileVars, ToldInv, ConfirmedIsStored, Entrusted
<1>2. ASSUME NEW c \in ProfileCall, NEW o \in Owner, NEW key \in Key, NEW d \in Details,
             OnboardProvider(c, o, d, key)
      PROVE  ToldInv'
  <2> DEFINE bank == BankSetters(encryptBankDetails(Submitted(d), key))
             local == [ pc |-> "insert", own |-> o, key |-> key, dirty |-> TRUE,
                        bank |-> bank ]
  <2>1. bank \in Banks
    BY SubmittedBank, ProfileAssumption
  <2>2. ProfileCallAccepted(c, local) /\ ~ profiles[o].exists
    BY <1>2 DEF OnboardProvider
  <2> HIDE DEF bank
  <2>3. local \in ProfileCallState
    BY <2>1 DEF ProfileCallState, Banks
  <2>4. \A e \in ProfileCall :
          profileCalls[e].pc # "idle" =>
            profileCalls[e].own # o \/ profileCalls[e].pc = "insert"
    BY <1>inv, <1>type, <2>2 DEF BankInv, ProfileCallState
  <2> QED
    BY <1>inv, <2>2, <2>3, <2>4, ToldBegins
<1>3. ASSUME NEW c \in ProfileCall, NEW o \in Owner, NEW key \in Key,
             NEW d \in Details \cup { NoDetails }, UpdateMyProfile(c, o, d, key)
      PROVE  ToldInv'
  <2> DEFINE bank == BankSetters(encryptBankDetails(
                       IF d = NoDetails THEN NoBank ELSE Submitted(d), key))
             dirty == Differs(bank, profiles[o].bank)
             local == [ pc |-> "save", own |-> o, key |-> key, bank |-> bank,
                        dirty |-> dirty ]
  <2>1. bank \in Banks
    BY SubmittedBank
  <2>2. dirty \in BOOLEAN /\ (~ dirty => bank = profiles[o].bank)
    BY DEF Differs
  <2>3. ProfileCallAccepted(c, local) /\ NoCallOf(o)
    BY <1>3 DEF UpdateMyProfile
  <2> HIDE DEF bank, dirty
  <2>4. local \in ProfileCallState
    BY <2>1, <2>2 DEF ProfileCallState, Banks
  <2> QED
    BY <1>inv, <2>2, <2>3, <2>4, ToldBegins DEF NoCallOf
<1>4. ASSUME NEW c \in ProfileCall, NEW o \in Owner, NEW key \in Key,
             EditOtherFields(c, o, key)
      PROVE  ToldInv'
  <2> DEFINE local == [ pc |-> "save", own |-> o, key |-> key,
                        bank |-> profiles[o].bank, dirty |-> FALSE ]
  <2>1. local \in ProfileCallState
    BY <1>type DEF ProfileCallState, Profile
  <2>2. ProfileCallAccepted(c, local) /\ NoCallOf(o)
    BY <1>4 DEF EditOtherFields
  <2> QED
    BY <1>inv, <2>1, <2>2, ToldBegins DEF NoCallOf
<1>5. ASSUME NEW c \in ProfileCall, InsertProfile(c) PROVE ToldInv'
  <2> DEFINE me == profileCalls[c]
  <2>1. /\ me.pc = "insert" /\ me.own \in Owner /\ UNCHANGED migration
        /\ profileCalls' = [profileCalls EXCEPT ![c] = IdleProfileCall]
    BY <1>5, <1>inv DEF InsertProfile, BankInv
  <2>2. CASE profiles[me.own].exists
    <3>1. EndsFor(c, me.own)
      BY <1>5, <1>inv, <2>1, <2>2 DEF InsertProfile, ConfirmedIsStored, EndsFor
    <3> QED
      BY <1>inv, <3>1, ToldEnds
  <2>3. CASE ~ profiles[me.own].exists
    <3>1. /\ profiles' = [profiles EXCEPT ![me.own] = [exists |-> TRUE, bank |-> me.bank]]
          /\ confirmed' = [confirmed EXCEPT ![me.own] = me.bank.details]
      BY <1>5, <2>3 DEF InsertProfile
    <3>2. \A d \in ProfileCall \ { c } :
            profileCalls[d].pc = "save" => profileCalls[d].own # me.own
      BY <1>inv, <2>3 DEF BankInv
    <3>3. /\ profiles'[me.own].bank.details = confirmed'[me.own]
          /\ \A p \in Owner \ { me.own } :
               profiles'[p] = profiles[p] /\ confirmed'[p] = confirmed[p]
      BY <1>type, <2>1, <3>1
    <3> QED
      <4>1. EndsFor(c, me.own)
        BY <2>1, <3>2, <3>3 DEF EndsFor
      <4> QED
        BY <1>inv, <4>1, ToldEnds
  <2> QED
    BY <2>2, <2>3
<1>6. ASSUME NEW c \in ProfileCall, SaveProfile(c) PROVE ToldInv'
  <2> DEFINE me == profileCalls[c]
             bank == IF me.dirty THEN me.bank ELSE profiles[me.own].bank
  <2>1. /\ me.pc = "save" /\ me.own \in Owner /\ UNCHANGED migration
        /\ profileCalls' = [profileCalls EXCEPT ![c] = IdleProfileCall]
        /\ profiles' = [profiles EXCEPT ![me.own] = [profiles[me.own] EXCEPT !.bank = bank]]
        /\ confirmed' = [confirmed EXCEPT ![me.own] = me.bank.details]
    BY <1>6, <1>inv DEF SaveProfile, BankInv
  <2>2. Entrusted(c)
    BY DEF ToldInv
  <2>3. bank.details = me.bank.details
    BY <2>1, <2>2 DEF Entrusted
  <2>4. \A d \in ProfileCall \ { c } :
          profileCalls[d].pc = "save" => profileCalls[d].own # me.own
    BY <2>1, <2>2 DEF Entrusted
  <2> HIDE DEF bank
  <2>5. /\ profiles'[me.own].bank = bank /\ confirmed'[me.own] = me.bank.details
        /\ \A p \in Owner \ { me.own } :
             profiles'[p] = profiles[p] /\ confirmed'[p] = confirmed[p]
    BY <1>type, <2>1 DEF Profile
  <2> QED
    <3>1. EndsFor(c, me.own)
      BY <2>1, <2>3, <2>4, <2>5 DEF EndsFor
    <3> QED
      BY <1>inv, <3>1, ToldEnds
<1>7. ASSUME NEW c \in ProfileCall, AbandonProfileCall(c) PROVE ToldInv'
  <2>1. profileCalls[c].pc # "idle" /\ profileCalls[c].own \in Owner
    BY <1>7, <1>inv DEF AbandonProfileCall, BankInv
  <2>2. EndsFor(c, profileCalls[c].own)
    BY <1>7, <1>inv, <2>1 DEF AbandonProfileCall, ConfirmedIsStored, EndsFor
  <2> QED
    BY <1>inv, <2>2, ToldEnds
<1>8. CASE DeployKey
  BY <1>8, <1>inv DEF DeployKey, ToldInv, ConfirmedIsStored, Entrusted
<1>9. CASE RetireUnkeyed
  <2>1. /\ UNCHANGED << profiles, migration, confirmed >>
        /\ \A c \in ProfileCall : \/ profileCalls'[c] = profileCalls[c]
                                  \/ profileCalls'[c].pc = "idle"
    BY <1>9, <1>type, BankShapes DEF RetireUnkeyed
  <2>2. \A c \in ProfileCall : Entrusted(c)'
    BY <2>1 DEF ToldInv, Entrusted
  <2> QED
    BY <1>inv, <2>1, <2>2 DEF ToldInv, ConfirmedIsStored
<1>10. CASE MigrationLoad
  <2>1. \A c \in ProfileCall : profileCalls[c].pc = "idle"
    BY <1>10 DEF MigrationLoad
  <2>2. UNCHANGED << profiles, profileCalls, confirmed >>
    BY <1>10 DEF MigrationLoad
  <2>3. \A o \in migration'.todo : migration'.loaded[o].details = profiles[o].bank.details
    BY <1>10, <1>type DEF MigrationLoad
  <2> QED
    BY <1>inv, <2>1, <2>2, <2>3 DEF ToldInv, ConfirmedIsStored, Entrusted
<1>11. ASSUME NEW o \in Owner, MigrationSave(o) PROVE ToldInv'
  <2> DEFINE bank == migration.loaded[o]
             saved == BankSetters(encryptBankDetails(bank, "keyed"))
  <2>1. /\ migration.running /\ o \in migration.todo
        /\ \A c \in ProfileCall : profileCalls[c].pc = "idle"
        /\ bank.details = profiles[o].bank.details /\ bank \in Banks
        /\ UNCHANGED << profileCalls, confirmed >>
    BY <1>11, <1>type DEF MigrationSave, ToldInv
  <2>2. /\ migration'.running = migration.running
        /\ migration'.todo = migration.todo \ { o }
        /\ \A p \in Owner \ { o } : migration'.loaded[p] = migration.loaded[p]
    BY <1>11, <1>type DEF MigrationSave
  <2>3. /\ profiles'[o].bank.details = profiles[o].bank.details
        /\ \A p \in Owner \ { o } : profiles'[p] = profiles[p]
    <3>1. CASE bankDetailsNeedsEncryption(bank)
      <4>1. saved.details = bank.details /\ saved \in Bank
        BY <2>1, <3>1, MigratedBank
           DEF bankDetailsNeedsEncryption, Banks, Bank, BankSetters, encryptBankDetails
      <4>2. profiles' = [profiles EXCEPT ![o].bank = saved]
        BY <1>11, <3>1 DEF MigrationSave
      <4> HIDE DEF saved
      <4> QED
        BY <1>type, <2>1, <4>1, <4>2 DEF Profile
    <3>2. CASE ~ bankDetailsNeedsEncryption(bank)
      BY <1>11, <3>2 DEF MigrationSave
    <3> QED
      BY <3>1, <3>2
  <2>4. \A p \in migration'.todo : migration'.loaded[p].details = profiles'[p].bank.details
    BY <1>type, <2>1, <2>2, <2>3 DEF ToldInv
  <2>5. ConfirmedIsStored'
    BY <1>inv, <2>1, <2>3 DEF ConfirmedIsStored
  <2> QED
    BY <1>inv, <2>1, <2>2, <2>4, <2>5 DEF ToldInv, Entrusted
<1>12. CASE MigrationEnds \/ MigrationFails
  <2>1. UNCHANGED << profiles, profileCalls, confirmed >> /\ ~ migration'.running
    BY <1>12, <1>type DEF MigrationEnds, MigrationFails, NotMigrated
  <2> QED
    BY <1>inv, <2>1 DEF ToldInv, ConfirmedIsStored, Entrusted
<1> QED
  BY <1>1, <1>2, <1>3, <1>4, <1>5, <1>6, <1>7, <1>8, <1>9, <1>10, <1>11, <1>12
     DEF ProfileNext

\* With an owner's edits and the migration kept apart, the details stored are
\* those that the owner was last told are stored, through the roll-out of the
\* key, aborted migrations and a form submitted twice
\* (provider.service.ts:60-119, 203-219).
THEOREM ConfirmedAlwaysStored ==
  ASSUME Apart
  PROVE  ProfileSpec => []ConfirmedIsStored
<1>1. ToldInv => ConfirmedIsStored
  BY DEF ToldInv
<1> QED
  BY <1>1, InitTold, StepTold, PTL DEF ProfileSpec

\* The same in the run, whatever its other parts do: the profiles of `payout'
\* are the same variables, but a behaviour never crosses over.
THEOREM ToldAlwaysStored ==
  ASSUME Apart
  PROVE  PartsSpec => []ToldIsStored
<1> DEFINE I == part = "orderly" => ToldInv
<1>1. PartsInit => I
  BY InitTold DEF PartsInit
<1>2. I /\ [PartsNext]_partsVars => I'
  <2> SUFFICES ASSUME I, [PartsNext]_partsVars, part' = "orderly"
               PROVE  ToldInv'
    OBVIOUS
  <2>1. part = "orderly" /\ [ProfileNext]_profileVars
    BY DEF PartsNext, partsVars
  <2> QED
    BY <2>1, StepTold
<1>3. I => ToldIsStored
  BY DEF ToldIsStored, ToldInv
<1> QED
  BY <1>1, <1>2, <1>3, PTL DEF PartsSpec

-----------------------------------------------------------------------------
(***************************************************************************)
(* Diagnoses, for every message and whatever the model answers: what is    *)
(* stored as a diagnosis by rules is one, and only a blank text fails.     *)
(***************************************************************************)
AskState ==
  [ pc      : { "vehicle", "model", "create", "answered", "failed", "refused" },
    message : Message,
    hasKey  : BOOLEAN,
    result  : AiDiagnosisResult,
    source  : { "none", "openai", "fallback" } ]

DiagnosisInv ==
  /\ ask \in AskState
  /\ ask.source = "fallback" => ask.result = fallbackDiagnosis(ask.message)
  /\ \A d \in stored :
       d.source = "fallback" => d.result = fallbackDiagnosis(d.message)
  /\ OnlyBlankFails

LEMMA FiveRules == Len(FirstRules) = 5 /\ DOMAIN FirstRules = 1 .. 5
BY DEF FirstRules, Rule

LEMMA SixRules ==
  /\ DOMAIN Rules = 1 .. 6
  /\ \A i \in 1 .. 5 : Rules[i] = FirstRules[i]
  /\ Rules[6] = EngineRule
<1>1. ASSUME NEW S, NEW a \in S, NEW b \in S, NEW c \in S, NEW d \in S, NEW e \in S,
             NEW f \in S
      PROVE  LET five == << a, b, c, d, e >>
                 six  == Append(five, f)
             IN  /\ DOMAIN six = 1 .. 6
                 /\ \A i \in 1 .. 5 : six[i] = five[i]
                 /\ six[6] = f
  OBVIOUS
<1> DEFINE a == Rule({ "accident", "smoke" }, "CRITICAL", "CRITICAL", "TOWING")
           b == Rule({ "fuel" }, "MEDIUM", "LOW", "FUEL_DELIVERY")
           c == Rule({ "battery" }, "MEDIUM", "LOW", "BATTERY_SUPPORT")
           d == Rule({ "flat" }, "MEDIUM", "MEDIUM", "MECHANIC")
           e == Rule({ "ev" }, "MEDIUM", "MEDIUM", "EV_SUPPORT")
           S == { a, b, c, d, e, EngineRule }
<1>2. FirstRules = << a, b, c, d, e >> /\ Rules = Append(FirstRules, EngineRule)
  BY DEF FirstRules, Rules
<1>3. a \in S /\ b \in S /\ c \in S /\ d \in S /\ e \in S /\ EngineRule \in S
  OBVIOUS
<1> HIDE DEF a, b, c, d, e, S
<1> QED
  BY <1>1, <1>2, <1>3

\* The rule about accidents and smoke is the first, so it decides whenever it
\* applies.
LEMMA FirstRuleDecides ==
  ASSUME NEW message, message.words \cap { "accident", "smoke" } # {}
  PROVE  fallbackDiagnosis(message) = FirstRules[1].gives
<1> DEFINE found == { i \in DOMAIN Rules : Rules[i].words \cap message.words # {} }
           chosenRule == CHOOSE i \in found : \A j \in found : i <= j
<1>1. FirstRules[1].words = { "accident", "smoke" }
  BY DEF FirstRules, Rule
<1>2. DOMAIN Rules = 1 .. 6 /\ Rules[1] = FirstRules[1]
  BY SixRules
<1>3. 1 \in found /\ found \subseteq 1 .. 6
  BY <1>1, <1>2
<1>4. found # {} /\ \A i \in found : (\A j \in found : i <= j) <=> i = 1
  BY <1>3
<1> HIDE DEF found
<1>5. chosenRule = 1
  BY <1>3, <1>4
<1> HIDE DEF chosenRule
<1>6. fallbackDiagnosis(message) = Rules[chosenRule].gives
  BY <1>4 DEF fallbackDiagnosis, found, chosenRule
<1> QED
  BY <1>2, <1>5, <1>6

\* One of at most six rules is the first.
LEMMA Smallest ==
  ASSUME NEW S \in SUBSET (1 .. 6), S # {}
  PROVE  \E i \in S : \A j \in S : i <= j
<1>1. CASE 1 \in S
  BY <1>1
<1>2. CASE 1 \notin S /\ 2 \in S
  BY <1>2
<1>3. CASE S \cap { 1, 2 } = {} /\ 3 \in S
  BY <1>3
<1>4. CASE S \cap { 1, 2, 3 } = {} /\ 4 \in S
  BY <1>4
<1>5. CASE S \cap { 1, 2, 3, 4 } = {} /\ 5 \in S
  BY <1>5
<1>6. CASE S = { 6 }
  BY <1>6
<1>7. S \subseteq { 1, 2, 3, 4, 5, 6 }
  OBVIOUS
<1> QED
  BY <1>1, <1>2, <1>3, <1>4, <1>5, <1>6, <1>7

LEMMA RulesAnswer ==
  ASSUME NEW message
  PROVE  fallbackDiagnosis(message) \in AiDiagnosisResult
<1> DEFINE found == { i \in DOMAIN Rules : Rules[i].words \cap message.words # {} }
           chosenRule == CHOOSE i \in found : \A j \in found : i <= j
<1>1. \A i \in 1 .. 5 : FirstRules[i].gives \in AiDiagnosisResult
  <2>1. FirstRules[1].gives \in AiDiagnosisResult
    BY DEF FirstRules, Rule, AiDiagnosisResult, Level
  <2>2. FirstRules[2].gives \in AiDiagnosisResult
    BY DEF FirstRules, Rule, AiDiagnosisResult, Level
  <2>3. FirstRules[3].gives \in AiDiagnosisResult
    BY DEF FirstRules, Rule, AiDiagnosisResult, Level
  <2>4. FirstRules[4].gives \in AiDiagnosisResult
    BY DEF FirstRules, Rule, AiDiagnosisResult, Level
  <2>5. FirstRules[5].gives \in AiDiagnosisResult
    BY DEF FirstRules, Rule, AiDiagnosisResult, Level
  <2> QED
    BY <2>1, <2>2, <2>3, <2>4, <2>5
<1>2. EngineRule.gives \in AiDiagnosisResult /\ Otherwise \in AiDiagnosisResult
  BY DEF EngineRule, Otherwise, Rule, AiDiagnosisResult, Level
<1>3. DOMAIN Rules = 1 .. 6 /\ \A i \in 1 .. 6 : Rules[i].gives \in AiDiagnosisResult
  BY <1>1, <1>2, SixRules
<1>4. found \subseteq 1 .. 6
  BY <1>3
<1> HIDE DEF found
<1>5. found # {} => chosenRule \in 1 .. 6
  <2> SUFFICES ASSUME found # {} PROVE \E i \in found : \A j \in found : i <= j
    BY <1>4
  <2> QED
    BY <1>4, Smallest
<1> HIDE DEF chosenRule
<1>6. fallbackDiagnosis(message) = IF found = {} THEN Otherwise ELSE Rules[chosenRule].gives
  BY DEF fallbackDiagnosis, found, chosenRule
<1> QED
  BY <1>2, <1>3, <1>5, <1>6

LEMMA InitDiagnosis == DiagnosisInit => DiagnosisInv
<1> SUFFICES ASSUME DiagnosisInit PROVE DiagnosisInv
  OBVIOUS
<1>1. NotYet \in AiDiagnosisResult
  BY DEF NotYet, AiDiagnosisResult, Level
<1>2. /\ ask \in AskState /\ ask.source = "none" /\ ask.pc = "vehicle"
      /\ stored = {}
  BY <1>1 DEF DiagnosisInit, AskState
<1> QED
  BY <1>2 DEF DiagnosisInv, OnlyBlankFails

LEMMA StepDiagnosis == DiagnosisInv /\ [DiagnosisNext]_diagnosisVars => DiagnosisInv'
<1> SUFFICES ASSUME DiagnosisInv, [DiagnosisNext]_diagnosisVars PROVE DiagnosisInv'
  OBVIOUS
<1>1. /\ ask \in AskState
      /\ fallbackDiagnosis(ask.message) \in AiDiagnosisResult
  BY RulesAnswer DEF DiagnosisInv
<1>2. ASSUME UNCHANGED stored, ask' \in AskState, ask'.pc # "failed",
             ask'.source = "fallback" => ask'.result = fallbackDiagnosis(ask'.message)
      PROVE  DiagnosisInv'
  BY <1>2 DEF DiagnosisInv, OnlyBlankFails
<1>3. ASSUME UNCHANGED stored,
             ask' = [ask EXCEPT !.pc = "create", !.source = "fallback",
                                !.result = fallbackDiagnosis(ask.message)]
      PROVE  DiagnosisInv'
  <2>1. /\ ask' \in AskState /\ ask'.pc = "create" /\ ask'.message = ask.message
        /\ ask'.result = fallbackDiagnosis(ask.message)
    BY <1>1, <1>3 DEF AskState
  <2> QED
    BY <1>2, <1>3, <2>1
<1>4. CASE FindVehicle
  <2>1. CASE car = "deleted" \/ ask.hasKey
    <3>1. \/ ask' = [ask EXCEPT !.pc = "refused"]
          \/ ask' = [ask EXCEPT !.pc = "model"]
      BY <1>4, <2>1 DEF FindVehicle
    <3>2. /\ ask' \in AskState /\ ask'.pc \in { "refused", "model" }
          /\ ask'.source = ask.source /\ ask'.result = ask.result
          /\ ask'.message = ask.message /\ UNCHANGED stored
      BY <1>1, <1>4, <3>1 DEF AskState, FindVehicle
    <3> QED
      BY <1>2, <3>2 DEF DiagnosisInv
  <2>2. CASE car # "deleted" /\ ~ ask.hasKey
    BY <1>3, <1>4, <2>2 DEF FindVehicle
  <2> QED
    BY <2>1, <2>2
<1>5. CASE ModelFails
  BY <1>3, <1>5 DEF ModelFails
<1>6. ASSUME NEW r \in Answer, ModelAnswers(r) PROVE DiagnosisInv'
  <2>1. ask' \in AskState /\ ask'.pc = "create" /\ ask'.source = "openai"
    BY <1>1, <1>6 DEF ModelAnswers, AskState, Answer
  <2> QED
    BY <1>2, <1>6, <2>1 DEF ModelAnswers
<1>7. CASE Create
  <2>1. /\ ask' \in AskState /\ ask'.message = ask.message /\ ask'.source = ask.source
        /\ ask'.result = ask.result
        /\ ask'.pc = IF Storable THEN "answered" ELSE "failed"
    BY <1>1, <1>7 DEF Create, AskState
  <2>2. \A d \in stored' :
          d.source = "fallback" => d.result = fallbackDiagnosis(d.message)
    <3>1. CASE Storable
      BY <1>7, <3>1 DEF Create, DiagnosisInv
    <3>2. CASE ~ Storable
      BY <1>7, <3>2 DEF Create, DiagnosisInv
    <3> QED
      BY <3>1, <3>2
  <2>3. OnlyBlankFails'
    BY <2>1 DEF OnlyBlankFails, Storable
  <2> QED
    BY <2>1, <2>2, <2>3 DEF DiagnosisInv
<1>8. CASE DeleteCar \/ UNCHANGED diagnosisVars
  BY <1>8 DEF DeleteCar, diagnosisVars, DiagnosisInv, OnlyBlankFails
<1> QED
  BY <1>4, <1>5, <1>6, <1>7, <1>8 DEF DiagnosisNext

\* With or without the model a customer is warned and served: a diagnosis by
\* rules calls an accident, a fire or smoke critical whatever else a message
\* talks about, and no failure of the model is one of the call
\* (openai-diagnosis.service.ts:192-249).
THEOREM DiagnosisAlwaysHolds == DiagnosisSpec => []DiagnosisHolds
<1>1. DiagnosisInv => DiagnosisHolds
  <2> SUFFICES ASSUME DiagnosisInv, NEW d \in stored, d.source = "fallback",
                      d.message.words \cap { "accident", "smoke" } # {}
               PROVE  /\ d.result.severity = "CRITICAL"
                      /\ d.result.emergencyLevel = "CRITICAL"
                      /\ ~ d.result.safeToDrive
    BY DEF DiagnosisInv, DiagnosisHolds, CriticalComesFirst
  <2>1. d.result = FirstRules[1].gives
    BY FirstRuleDecides DEF DiagnosisInv
  <2> QED
    BY <2>1 DEF FirstRules, Rule
<1> QED
  BY <1>1, InitDiagnosis, StepDiagnosis, PTL DEF DiagnosisSpec

-----------------------------------------------------------------------------
(***************************************************************************)
(* The search for a provider, for any providers, issues, radii and limits: *)
(* what the merge of the queries' rows keeps, what a query returns, and    *)
(* why the nearest provider that could take the request is chosen.         *)
(***************************************************************************)
Row == [ id : Candidate, dist : Nat, reach : Nat ]

\* A row that the merge lets through: the provider is within its own radius.
Within(p) == garages[p].dist <= garages[p].reach

LEMMA GarageNumbers ==
  \A g \in Garage : g.dist \in Nat /\ g.reach \in Nat /\ g.free \in BOOLEAN
<1> SUFFICES ASSUME NEW g \in Garage
             PROVE  g.dist \in Nat /\ g.reach \in Nat /\ g.free \in BOOLEAN
  OBVIOUS
<1>1. CASE g = Busy
  BY <1>1 DEF Busy
<1>2. CASE g # Busy
  <2>1. g.dist \in Distance /\ g.reach \in Reach /\ g.free = TRUE
    BY <1>2 DEF Garage
  <2> QED
    BY <2>1, SelectionAssumption
<1> QED
  BY <1>1, <1>2

LEMMA RowShape ==
  ASSUME garages \in [Candidate -> Garage], NEW p \in Candidate
  PROVE  RowOf(p) \in Row /\ RowOf(p).id = p /\ (RowOf(p).dist <= RowOf(p).reach <=> Within(p))
BY GarageNumbers DEF RowOf, Row, Within

\* One row merged: places are kept, a place changes only to this row, and the
\* row has a place unless it is out of its own radius.
Keeps(list, row, R) ==
  /\ R \in Seq(Row) /\ Len(list) <= Len(R)
  /\ \A i \in 1 .. Len(list) :
       /\ R[i].id = list[i].id
       /\ R[i] = list[i] \/ (R[i] = row /\ row.dist <= row.reach)
  /\ \A i \in Len(list) + 1 .. Len(R) :
       /\ R[i] = row /\ row.dist <= row.reach
       /\ \A a \in 1 .. Len(list) : list[a].id # row.id
  /\ row.dist <= row.reach => \E i \in 1 .. Len(R) : R[i].id = row.id

LEMMA MergeKeeps ==
  ASSUME NEW list \in Seq(Row), NEW row \in Row
  PROVE  Keeps(list, row, Merge(list, row))
<1> DEFINE R == Merge(list, row)
           at == { i \in DOMAIN list : list[i].id = row.id }
<1>0. Len(list) \in Nat /\ DOMAIN list = 1 .. Len(list) /\ row.dist \in Nat /\ row.reach \in Nat
  BY DEF Row
<1>1. CASE row.dist > row.reach
  <2>1. R = list
    BY <1>1 DEF Merge
  <2> QED
    BY <1>0, <1>1, <2>1 DEF Keeps
<1>2. CASE row.dist <= row.reach /\ at = {}
  <2>0. ~ (row.dist > row.reach)
    BY <1>0, <1>2
  <2>1. R = Append(list, row)
    BY <1>2, <2>0, Zenon DEF Merge
  <2>2. /\ R \in Seq(Row) /\ Len(R) = Len(list) + 1 /\ R[Len(list) + 1] = row
        /\ \A i \in 1 .. Len(list) : R[i] = list[i]
    BY <2>1, AppendProperties
  <2>3. \A a \in 1 .. Len(list) : list[a].id # row.id
    BY <1>0, <1>2
  <2> HIDE DEF R, at
  <2>4. \A i \in Len(list) + 1 .. Len(R) : i = Len(list) + 1
    BY <1>0, <2>2
  <2>5. Len(list) + 1 \in 1 .. Len(R)
    BY <1>0, <2>2
  <2>6. \E i \in 1 .. Len(R) : R[i].id = row.id
    BY <2>2, <2>5
  <2>7. Len(list) <= Len(R)
    BY <1>0, <2>2
  <2>8. \A i \in Len(list) + 1 .. Len(R) : R[i] = row
    BY <2>2, <2>4
  <2> QED
    BY <1>2, <2>2, <2>3, <2>6, <2>7, <2>8 DEF R, Keeps
<1>3. CASE row.dist <= row.reach /\ at # {}
  <2>0. ~ (row.dist > row.reach)
    BY <1>0, <1>3
  <2>1. R = [ i \in 1 .. Len(list) |->
                IF i \in at /\ row.dist < list[i].dist THEN row ELSE list[i] ]
    <3>1. R = [ i \in DOMAIN list |->
                  IF i \in at /\ row.dist < list[i].dist THEN row ELSE list[i] ]
      BY <1>3, <2>0, Zenon DEF Merge
    <3> QED
      BY <1>0, <3>1, Zenon
  <2>2. \A i \in 1 .. Len(list) :
          /\ R[i] = list[i] \/ R[i] = row
          /\ R[i].id = list[i].id
    BY <1>0, <2>1
  <2>3. R \in Seq(Row) /\ Len(R) = Len(list)
    BY <1>0, <2>1
  <2>4. PICK a \in at : TRUE
    BY <1>3
  <2>5. a \in 1 .. Len(list) /\ list[a].id = row.id
    BY <1>0, <2>4
  <2> HIDE DEF R, at
  <2>6. \E i \in 1 .. Len(R) : R[i].id = row.id
    BY <2>2, <2>3, <2>5
  <2>7. \A i \in Len(list) + 1 .. Len(R) : FALSE
    BY <1>0, <2>3
  <2>8. Len(list) <= Len(R)
    BY <1>0, <2>3
  <2> QED
    BY <1>3, <2>2, <2>3, <2>6, <2>7, <2>8 DEF R, Keeps
<1> QED
  BY <1>0, <1>1, <1>2, <1>3

\* All rows of a query merged, one after the other: what holds of one holds of
\* them together.
Merges(M, list, s) ==
  /\ M[0] = list
  /\ \A n \in 1 .. Len(s) : M[n] = Merge(M[n - 1], RowOf(s[n]))

LEMMA MergedSteps ==
  ASSUME garages \in [Candidate -> Garage],
         NEW list \in Seq(Row), NEW s \in Seq(Candidate)
  PROVE  \E M \in [0 .. Len(s) -> Seq(Row)] :
           Merges(M, list, s) /\ Merged(list, s) = M[Len(s)]
<1> DEFINE N == Len(s)
           Steps(M, n) == \A k \in 1 .. n : M[k] = Merge(M[k - 1], RowOf(s[k]))
           Good == { n \in Nat : n <= N =>
                       \E M \in [0 .. n -> Seq(Row)] : M[0] = list /\ Steps(M, n) }
<1>1. N \in Nat /\ \A k \in 1 .. N : s[k] \in Candidate
  OBVIOUS
<1>2. 0 \in Good
  <2> DEFINE M == [n \in 0 .. 0 |-> list]
  <2>1. M \in [0 .. 0 -> Seq(Row)] /\ M[0] = list /\ Steps(M, 0)
    OBVIOUS
  <2> QED
    BY <2>1
<1>3. ASSUME NEW n \in Nat, n \in Good PROVE n + 1 \in Good
  <2>0. n + 1 \in Nat
    OBVIOUS
  <2> SUFFICES ASSUME n + 1 <= N
               PROVE  \E M \in [0 .. n + 1 -> Seq(Row)] : M[0] = list /\ Steps(M, n + 1)
    BY <2>0, Zenon
  <2>1. PICK M \in [0 .. n -> Seq(Row)] : M[0] = list /\ Steps(M, n)
    <3>1. n <= N
      BY <1>1
    <3> QED
      BY <1>3, <3>1
  <2> DEFINE last == Merge(M[n], RowOf(s[n + 1]))
             G == [k \in 0 .. n + 1 |-> IF k = n + 1 THEN last ELSE M[k]]
  <2>2. last \in Seq(Row)
    <3>1. M[n] \in Seq(Row) /\ s[n + 1] \in Candidate
      BY <1>1
    <3>2. RowOf(s[n + 1]) \in Row
      BY <3>1, RowShape
    <3> QED
      BY <3>1, <3>2, MergeKeeps DEF Keeps
  <2> HIDE DEF last
  <2>3. G \in [0 .. n + 1 -> Seq(Row)] /\ G[0] = list
    BY <2>1, <2>2
  <2>4. ASSUME NEW k \in 1 .. n + 1 PROVE G[k] = Merge(G[k - 1], RowOf(s[k]))
    <3>1. CASE k = n + 1
      <4>1. G[k] = last /\ G[k - 1] = M[n] /\ k - 1 = n
        BY <3>1
      <4> QED
        BY <3>1, <4>1, Zenon DEF last
    <3>2. CASE k # n + 1
      <4>1. k \in 1 .. n /\ G[k] = M[k] /\ G[k - 1] = M[k - 1]
        BY <3>2
      <4> QED
        BY <2>1, <4>1, Zenon
    <3> QED
      BY <3>1, <3>2
  <2> HIDE DEF G
  <2> QED
    BY <2>3, <2>4, Zenon
<1>4. N \in Good
  <2> HIDE DEF Good, N
  <2> QED
    BY <1>1, <1>2, <1>3, Induction
<1>5. PICK M \in [0 .. N -> Seq(Row)] : M[0] = list /\ Steps(M, N)
  <2>1. N \in Nat /\ N <= N
    BY <1>1
  <2> HIDE DEF N, Steps
  <2> QED
    BY <1>4, <2>1, Zenon
<1> DEFINE At(f, n) == IF n = 0 THEN list ELSE Merge(f[n - 1], RowOf(s[n]))
           Is(f) == f = [n \in 0 .. Len(s) |-> At(f, n)]
           g == CHOOSE f : Is(f)
<1>6. Is(M)
  <2>1. ASSUME NEW n \in 0 .. Len(s) PROVE M[n] = At(M, n)
    <3>1. CASE n = 0
      BY <1>5, <3>1, Zenon
    <3>2. CASE n # 0
      <4>1. n \in 1 .. N
        BY <1>1, <3>2
      <4> QED
        BY <1>5, <3>2, <4>1, Zenon
    <3> QED
      BY <3>1, <3>2
  <2> DEFINE H == [n \in 0 .. Len(s) |-> At(M, n)]
  <2>2. \A n \in 0 .. Len(s) : H[n] = M[n]
    BY <2>1, Zenon
  <2>3. H = [n \in 0 .. Len(s) |-> H[n]]
    BY Zenon
  <2>4. M = [n \in 0 .. Len(s) |-> M[n]]
    BY <1>5
  <2> HIDE DEF H
  <2>5. M = H
    BY <2>2, <2>3, <2>4
  <2> QED
    BY <2>5 DEF H
<1>7. Is(g)
  BY <1>6, Zenon
<1>8. Merged(list, s) = g[Len(s)]
  BY Zenon DEF Merged
<1> HIDE DEF g
<1>9. \A n \in 0 .. N : g[n] = M[n]
  <2> DEFINE Same == { n \in Nat : n <= N => g[n] = M[n] }
  <2>1. 0 \in Same
    <3>1. 0 \in 0 .. Len(s)
      BY <1>1
    <3>2. g[0] = At(g, 0)
      BY <1>7, <3>1, Zenon
    <3> QED
      BY <1>5, <3>2
  <2>2. ASSUME NEW n \in Nat, n \in Same PROVE n + 1 \in Same
    <3> SUFFICES ASSUME n + 1 <= N PROVE g[n + 1] = M[n + 1]
      OBVIOUS
    <3>1. n + 1 \in 1 .. N /\ n + 1 # 0 /\ (n + 1) - 1 = n /\ g[n] = M[n]
      BY <1>1, <2>2
    <3>2. g[n + 1] = At(g, n + 1)
      <4>1. n + 1 \in 0 .. Len(s)
        BY <3>1
      <4> QED
        BY <1>7, <4>1, Zenon
    <3> QED
      BY <1>5, <3>1, <3>2
  <2>3. Nat \subseteq Same
    <3> HIDE DEF Same
    <3> QED
      BY <2>1, <2>2, Induction
  <2> QED
    BY <2>3
<1>10. Merges(M, list, s)
  BY <1>5, Zenon DEF Merges
<1>11. Merged(list, s) = M[Len(s)]
  BY <1>1, <1>8, <1>9
<1> QED
  BY <1>10, <1>11

\* A row of the query s, within its own radius.
RowsOf(s, n) == { RowOf(s[k]) : k \in { l \in 1 .. n : Within(s[l]) } }

KeepsAll(list, s, R) ==
  /\ R \in Seq(Row) /\ Len(list) <= Len(R)
  /\ \A i \in 1 .. Len(list) :
       R[i].id = list[i].id /\ R[i] \in { list[i] } \cup RowsOf(s, Len(s))
  /\ \A i \in Len(list) + 1 .. Len(R) :
       /\ R[i] \in RowsOf(s, Len(s))
       /\ \A a \in 1 .. Len(list) : list[a].id # R[i].id
  /\ \A k \in 1 .. Len(s) : Within(s[k]) => \E i \in 1 .. Len(R) : R[i].id = s[k]

LEMMA MergedKeeps ==
  ASSUME garages \in [Candidate -> Garage],
         NEW list \in Seq(Row), NEW s \in Seq(Candidate)
  PROVE  KeepsAll(list, s, Merged(list, s))
<1>1. PICK M \in [0 .. Len(s) -> Seq(Row)] :
        Merges(M, list, s) /\ Merged(list, s) = M[Len(s)]
  BY MergedSteps
<1> DEFINE L == Len(list)
           N == Len(s)
           Old(n) == \A i \in 1 .. L :
             M[n][i].id = list[i].id /\ M[n][i] \in { list[i] } \cup RowsOf(s, n)
           New(n) == \A i \in L + 1 .. Len(M[n]) :
             M[n][i] \in RowsOf(s, n) /\ \A a \in 1 .. L : list[a].id # M[n][i].id
           All(n) == \A k \in 1 .. n :
             Within(s[k]) => \E i \in 1 .. Len(M[n]) : M[n][i].id = s[k]
           Good == { n \in Nat : n <= N => L <= Len(M[n]) /\ Old(n) /\ New(n) /\ All(n) }
<1>2. N \in Nat /\ L \in Nat /\ \A k \in 1 .. N : s[k] \in Candidate
  OBVIOUS
<1>3. 0 \in Good
  <2>1. M[0] = list
    BY <1>1 DEF Merges
  <2> QED
    BY <1>2, <2>1
<1>4. ASSUME NEW n \in Nat, n \in Good PROVE n + 1 \in Good
  <2>0. n + 1 \in Nat
    OBVIOUS
  <2> SUFFICES ASSUME n + 1 <= N
               PROVE  L <= Len(M[n + 1]) /\ Old(n + 1) /\ New(n + 1) /\ All(n + 1)
    BY <2>0, Zenon
  <2>1. n <= N /\ n + 1 \in 1 .. N /\ (n + 1) - 1 = n /\ n \in 0 .. N /\ n + 1 \in 0 .. N
    BY <1>2
  <2>2. L <= Len(M[n]) /\ Old(n) /\ New(n) /\ All(n)
    BY <1>4, <2>1, Zenon
  <2> DEFINE A == M[n]
             B == M[n + 1]
             row == RowOf(s[n + 1])
  <2>3. A \in Seq(Row) /\ B \in Seq(Row) /\ B = Merge(A, row) /\ s[n + 1] \in Candidate
    BY <1>1, <1>2, <2>1 DEF Merges
  <2>4. row \in Row /\ row.id = s[n + 1] /\ (row.dist <= row.reach <=> Within(s[n + 1]))
    BY <2>3, RowShape
  <2>5. L <= Len(A) /\ Old(n) /\ New(n) /\ All(n)
    BY <2>2
  <2>6. \A i \in 1 .. L : A[i].id = list[i].id /\ A[i] \in { list[i] } \cup RowsOf(s, n)
    BY <2>5
  <2>7. \A i \in L + 1 .. Len(A) :
            A[i] \in RowsOf(s, n) /\ \A a \in 1 .. L : list[a].id # A[i].id
    BY <2>5
  <2>8. \A k \in 1 .. n : Within(s[k]) => \E i \in 1 .. Len(A) : A[i].id = s[k]
    BY <2>5
  <2>9. row.dist <= row.reach => row \in RowsOf(s, n + 1)
    BY <1>2, <2>4 DEF RowsOf
  <2> HIDE DEF row, A, B
  <2>10. Keeps(A, row, B)
    BY <2>3, <2>4, MergeKeeps
  <2>11. Len(A) \in Nat /\ Len(B) \in Nat
    BY <2>3
  <2>12. RowsOf(s, n) \subseteq RowsOf(s, n + 1)
    BY <1>2 DEF RowsOf
  <2>13. L <= Len(B)
    BY <1>2, <2>10, <2>11, <2>5 DEF Keeps
  <2>14. ASSUME NEW i \in 1 .. L
         PROVE  B[i].id = list[i].id /\ B[i] \in { list[i] } \cup RowsOf(s, n + 1)
    <3>1. i \in 1 .. Len(A)
      BY <1>2, <2>11, <2>5
    <3> QED
      BY <2>10, <2>12, <2>9, <2>6, <3>1 DEF Keeps
  <2>15. ASSUME NEW i \in L + 1 .. Len(B)
         PROVE  B[i] \in RowsOf(s, n + 1) /\ \A a \in 1 .. L : list[a].id # B[i].id
    <3>1. CASE i <= Len(A)
      <4>1. i \in L + 1 .. Len(A) /\ i \in 1 .. Len(A)
        BY <1>2, <2>11, <3>1
      <4> QED
        BY <2>10, <2>12, <2>9, <2>7, <4>1 DEF Keeps
    <3>2. CASE i > Len(A)
      <4>1. i \in Len(A) + 1 .. Len(B)
        BY <1>2, <2>11, <3>2
      <4>2. \A a \in 1 .. L : a \in 1 .. Len(A)
        BY <1>2, <2>11, <2>5
      <4> QED
        BY <2>10, <2>9, <2>6, <4>1, <4>2 DEF Keeps
    <3> QED
      BY <1>2, <2>11, <3>1, <3>2
  <2>16. ASSUME NEW k \in 1 .. n + 1, Within(s[k])
         PROVE  \E i \in 1 .. Len(B) : B[i].id = s[k]
    <3>1. CASE k = n + 1
      BY <2>4, <2>10, <2>16, <3>1 DEF Keeps
    <3>2. CASE k # n + 1
      <4>1. k \in 1 .. n
        BY <3>2
      <4>2. PICK i \in 1 .. Len(A) : A[i].id = s[k]
        BY <2>8, <2>16, <4>1
      <4>3. i \in 1 .. Len(B)
        BY <2>10, <2>11 DEF Keeps
      <4> QED
        BY <2>10, <4>2, <4>3 DEF Keeps
    <3> QED
      BY <3>1, <3>2
  <2> QED
    BY <2>13, <2>14, <2>15, <2>16 DEF B
<1>5. N \in Good
  <2> HIDE DEF Good, N
  <2> QED
    BY <1>2, <1>3, <1>4, Induction
<1>6. L <= Len(M[N]) /\ Old(N) /\ New(N) /\ All(N)
  BY <1>2, <1>5
<1>7. N \in 0 .. N
  BY <1>2
<1>8. M[N] \in Seq(Row) /\ Merged(list, s) = M[N]
  BY <1>1, <1>7
<1> HIDE DEF Good
<1> QED
  BY <1>6, <1>8 DEF KeepsAll

\* The result of a query: providers in range, and all of them if they are not
\* more than the limit.
LEMMA QueryFinds ==
  ASSUME NEW type, NEW s \in findNearbyWithDistance(type)
  PROVE  /\ s \in Seq(Candidate)
         /\ \A k \in 1 .. Len(s) : s[k] \in InRange(garages, type)
         /\ Cardinality(InRange(garages, type)) <= Limit =>
              \A p \in InRange(garages, type) : \E k \in 1 .. Len(s) : s[k] = p
<1> DEFINE found == InRange(garages, type)
           n == IF Cardinality(found) < Limit THEN Cardinality(found) ELSE Limit
<1>1. found \in SUBSET Candidate
  BY DEF InRange
<1>2. IsFiniteSet(found) /\ Cardinality(found) \in Nat
  BY <1>1, SelectionAssumption, FS_Subset, FS_CardinalityType
<1>3. n \in Nat
  BY <1>2, SelectionAssumption
<1>4. /\ s \in [1 .. n -> found]
      /\ \A i, j \in 1 .. n : i < j => s[i] # s[j]
  BY DEF findNearbyWithDistance
<1> HIDE DEF n
<1>5. s \in Seq(Candidate) /\ Len(s) = n /\ \A k \in 1 .. n : s[k] \in found
  BY <1>1, <1>3, <1>4
<1>6. ASSUME Cardinality(found) <= Limit PROVE \A p \in found : \E k \in 1 .. n : s[k] = p
  <2>1. n = Cardinality(found)
    BY <1>2, <1>6, SelectionAssumption DEF n
  <2>2. IsFiniteSet(1 .. n) /\ Cardinality(1 .. n) = n
    BY <1>3, FS_Interval
  <2>3. s \in Injection(1 .. n, found)
    <3>1. \A i, j \in 1 .. n : s[i] = s[j] => i = j
      BY <1>3, <1>4
    <3> QED
      BY <1>4, <3>1 DEF Injection, IsInjective
  <2>4. s \in Surjection(1 .. n, found)
    BY <1>2, <2>1, <2>2, <2>3, FS_Injection
  <2> QED
    BY <2>4 DEF Surjection
<1> HIDE DEF found
<1> QED
  BY <1>5, <1>6 DEF found

LEMMA BestIsNearest ==
  ASSUME NEW list \in Seq(Row), list # << >>
  PROVE  /\ Best(list) \in 1 .. Len(list)
         /\ \A j \in 1 .. Len(list) :
              \/ list[Best(list)].dist < list[j].dist
              \/ list[Best(list)].dist = list[j].dist /\ Best(list) <= j
<1> DEFINE N == Len(list)
           T == { list[i].dist : i \in 1 .. N }
           Is(i) == \A j \in 1 .. N :
             list[i].dist < list[j].dist \/ (list[i].dist = list[j].dist /\ i <= j)
<1>1. N \in Nat /\ 1 \in 1 .. N /\ DOMAIN list = 1 .. N
  BY EmptySeq
<1>2. \A i \in 1 .. N : list[i].dist \in Nat
  <2>1. \A i \in 1 .. N : list[i] \in Row
    OBVIOUS
  <2> HIDE DEF N
  <2> QED
    BY <2>1 DEF Row
<1>3. PICK d \in T : \A e \in T : d <= e
  <2>1. T \in SUBSET Nat /\ T # {}
    BY <1>1, <1>2
  <2> HIDE DEF T
  <2> QED
    BY <2>1, Least
<1> DEFINE U == { i \in 1 .. N : list[i].dist = d }
<1>4. PICK b \in U : \A j \in U : b <= j
  <2>1. U \in SUBSET Nat /\ U # {}
    BY <1>1, <1>3
  <2> HIDE DEF U
  <2> QED
    BY <2>1, Least
<1>5. b \in 1 .. N /\ Is(b)
  <2>1. b \in 1 .. N /\ list[b].dist = d
    BY <1>4
  <2>2. ASSUME NEW j \in 1 .. N
        PROVE  list[b].dist < list[j].dist \/ (list[b].dist = list[j].dist /\ b <= j)
    <3>1. d <= list[j].dist /\ d \in Nat
      BY <1>2, <1>3
    <3>2. list[j].dist = d => b <= j
      BY <1>4
    <3> QED
      BY <1>2, <2>1, <3>1, <3>2
  <2> QED
    BY <2>1, <2>2
<1>6. Best(list) = CHOOSE i \in 1 .. N : Is(i)
  BY <1>1, Zenon DEF Best
<1>7. Best(list) \in 1 .. N /\ Is(Best(list))
  <2> HIDE DEF Is
  <2> QED
    BY <1>5, <1>6
<1> QED
  BY <1>7

\* A row tells how far away its provider was when a query caught it.
Justified(row) ==
  \E k \in DOMAIN seen : CaughtBy(row.id, k) /\ seen[k][row.id].dist = row.dist

ProviderType == { "MECHANIC", "TOWING", "BATTERY_SUPPORT", "FUEL_DELIVERY", "EV_SUPPORT" }

\* The query that saw seen[k] was for preferred[k]; every row is justified; and
\* if no query left a provider out, every provider a query caught has a row,
\* below the list of those caught before it.
SearchInv ==
  /\ preferred \in Seq(ProviderType)
  /\ garages \in [Candidate -> Garage]
  /\ seen \in Seq([Candidate -> Garage])
  /\ search \in [ pc : { "query", "found", "none" }, todo : Seq(ProviderType), rows : Seq(Row) ]
  /\ search.pc = "query" =>
       /\ Len(seen) + Len(search.todo) = Len(preferred)
       /\ \A i \in 1 .. Len(search.todo) : search.todo[i] = preferred[Len(seen) + i]
       /\ \A i \in 1 .. Len(search.rows) : Justified(search.rows[i])
       /\ Uncrowded =>
            /\ \A p \in Candidate, j \in 1 .. Len(seen) :
                 CaughtBy(p, j) => \E i \in 1 .. Len(search.rows) : search.rows[i].id = p
            /\ \A a, b \in 1 .. Len(search.rows), j \in 1 .. Len(seen) :
                 (a < b /\ CaughtBy(search.rows[b].id, j)) =>
                    \E k \in 1 .. j : CaughtBy(search.rows[a].id, k)
  /\ NearestIsChosen

LEMMA PreferredShape ==
  \A i \in DOMAIN ISSUE_TO_PROVIDER_TYPES : ISSUE_TO_PROVIDER_TYPES[i] \in Seq(ProviderType)
<1>1. ASSUME NEW S, NEW a \in S, NEW b \in S
      PROVE  << a >> \in Seq(S) /\ << a, b >> \in Seq(S)
  OBVIOUS
<1>2. DOMAIN ISSUE_TO_PROVIDER_TYPES =
        { "FLAT_TIRE", "BATTERY_FAILURE", "FUEL_EMPTY", "ENGINE_FAILURE", "ACCIDENT",
          "BRAKE_FAILURE", "OVERHEATING", "LOCKOUT", "EV_BATTERY_LOW" }
  BY DEF ISSUE_TO_PROVIDER_TYPES
<1>3. /\ ISSUE_TO_PROVIDER_TYPES["FLAT_TIRE"] = << "MECHANIC", "TOWING" >>
      /\ ISSUE_TO_PROVIDER_TYPES["BATTERY_FAILURE"] = << "BATTERY_SUPPORT", "MECHANIC" >>
      /\ ISSUE_TO_PROVIDER_TYPES["FUEL_EMPTY"] = << "FUEL_DELIVERY" >>
      /\ ISSUE_TO_PROVIDER_TYPES["ENGINE_FAILURE"] = << "MECHANIC", "TOWING" >>
      /\ ISSUE_TO_PROVIDER_TYPES["ACCIDENT"] = << "TOWING", "MECHANIC" >>
      /\ ISSUE_TO_PROVIDER_TYPES["BRAKE_FAILURE"] = << "MECHANIC", "TOWING" >>
      /\ ISSUE_TO_PROVIDER_TYPES["OVERHEATING"] = << "MECHANIC" >>
      /\ ISSUE_TO_PROVIDER_TYPES["LOCKOUT"] = << "MECHANIC" >>
      /\ ISSUE_TO_PROVIDER_TYPES["EV_BATTERY_LOW"] = << "EV_SUPPORT", "BATTERY_SUPPORT" >>
  BY DEF ISSUE_TO_PROVIDER_TYPES
<1>4. \A a, b \in ProviderType : << a >> \in Seq(ProviderType) /\ << a, b >> \in Seq(ProviderType)
  BY <1>1, Zenon
<1>5. /\ << "MECHANIC", "TOWING" >> \in Seq(ProviderType)
      /\ << "BATTERY_SUPPORT", "MECHANIC" >> \in Seq(ProviderType)
      /\ << "FUEL_DELIVERY" >> \in Seq(ProviderType)
      /\ << "TOWING", "MECHANIC" >> \in Seq(ProviderType)
      /\ << "MECHANIC" >> \in Seq(ProviderType)
      /\ << "EV_SUPPORT", "BATTERY_SUPPORT" >> \in Seq(ProviderType)
  BY <1>4 DEF ProviderType
<1> QED
  BY <1>2, <1>3, <1>5

LEMMA InitSearch == SelectionInit => SearchInv
<1> SUFFICES ASSUME SelectionInit PROVE SearchInv
  OBVIOUS
<1>1. preferred \in Seq(ProviderType)
  BY PreferredShape, SelectionAssumption DEF SelectionInit
<1>2. garages \in [Candidate -> Garage]
  BY DEF SelectionInit
<1>3. seen = << >> /\ seen \in Seq([Candidate -> Garage]) /\ Len(seen) = 0
  BY EmptySeq DEF SelectionInit
<1>4. /\ search.pc = "query" /\ search.todo = preferred
      /\ search.rows = << >> /\ search.rows \in Seq(Row) /\ Len(search.rows) = 0
      /\ search \in [ pc : { "query", "found", "none" }, todo : Seq(ProviderType), rows : Seq(Row) ]
  BY <1>1, EmptySeq DEF SelectionInit
<1>5. \A i \in 1 .. Len(preferred) : preferred[i] = preferred[0 + i]
  BY <1>1
<1>6. NearestIsChosen
  BY <1>4 DEF NearestIsChosen, WinnerWasEligible, NobodyPassedOver
<1>7. 0 + Len(preferred) = Len(preferred) /\ \A i \in 1 .. 0 : FALSE
  BY <1>1
<1>8. /\ Len(seen) + Len(search.todo) = Len(preferred)
      /\ \A i \in 1 .. Len(search.todo) : search.todo[i] = preferred[Len(seen) + i]
      /\ \A i \in 1 .. Len(search.rows) : FALSE
      /\ \A j \in 1 .. Len(seen) : FALSE
  BY <1>3, <1>4, <1>5, <1>7, Zenon
<1> QED
  BY <1>1, <1>2, <1>3, <1>4, <1>6, <1>8, Zenon DEF SearchInv

\* The next query, of a type that is in `todo': what it adds to the history,
\* and whom it catches.
LEMMA QueryCatches ==
  ASSUME SearchInv, search.pc = "query", search.todo # << >>,
         seen' = Append(seen, garages), preferred' = preferred,
         NEW n, n = Len(seen)
  PROVE  LET type == Head(search.todo) IN
         /\ n \in Nat /\ seen' \in Seq([Candidate -> Garage]) /\ Len(seen') = n + 1
         /\ type = preferred[n + 1] /\ Tail(search.todo) \in Seq(ProviderType)
         /\ Len(seen') + Len(Tail(search.todo)) = Len(preferred)
         /\ \A i \in 1 .. Len(Tail(search.todo)) :
              Tail(search.todo)[i] = preferred[Len(seen') + i]
         /\ \A k \in 1 .. n : seen'[k] = seen[k]
         /\ seen'[n + 1] = garages
         /\ \A p \in Candidate, k \in 1 .. n : CaughtBy(p, k)' <=> CaughtBy(p, k)
         /\ \A p \in Candidate :
              CaughtBy(p, n + 1)' <=> p \in InRange(garages, type) /\ Within(p)
<1> DEFINE todo == search.todo
<1>1. /\ n \in Nat /\ todo \in Seq(ProviderType) /\ Len(todo) \in Nat
      /\ preferred \in Seq(ProviderType) /\ Len(preferred) \in Nat
      /\ seen \in Seq([Candidate -> Garage])
      /\ garages \in [Candidate -> Garage]
      /\ n + Len(todo) = Len(preferred)
      /\ \A i \in 1 .. Len(todo) : todo[i] = preferred[n + i]
  BY DEF SearchInv
<1>2. /\ Tail(todo) \in Seq(ProviderType) /\ Len(Tail(todo)) = Len(todo) - 1
      /\ \A i \in 1 .. Len(Tail(todo)) : Tail(todo)[i] = todo[i + 1]
      /\ Head(todo) = todo[1] /\ Len(todo) >= 1
  <2>1. todo \in Seq(ProviderType) /\ todo # << >>
    BY <1>1
  <2> HIDE DEF todo
  <2> QED
    BY <2>1, HeadTailProperties, EmptySeq
<1>3. /\ seen' \in Seq([Candidate -> Garage]) /\ Len(seen') = n + 1
      /\ \A k \in 1 .. n : seen'[k] = seen[k]
      /\ seen'[n + 1] = garages
  BY <1>1, AppendProperties
<1> HIDE DEF todo
<1>4. Head(todo) = preferred[n + 1] /\ n + 1 \in 1 .. Len(preferred)
  BY <1>1, <1>2
<1>5. Len(seen') + Len(Tail(todo)) = Len(preferred)
  BY <1>1, <1>2, <1>3
<1>6. ASSUME NEW i \in 1 .. Len(Tail(todo))
      PROVE  Tail(todo)[i] = preferred[Len(seen') + i]
  <2>1. i \in Nat /\ i + 1 \in 1 .. Len(todo) /\ n + (i + 1) = (n + 1) + i
    BY <1>1, <1>2
  <2>2. Tail(todo)[i] = todo[i + 1] /\ todo[i + 1] = preferred[n + (i + 1)]
    BY <1>1, <1>2, <2>1
  <2> QED
    BY <1>3, <2>1, <2>2
<1>7. ASSUME NEW p \in Candidate, NEW k \in 1 .. n
      PROVE  CaughtBy(p, k)' <=> CaughtBy(p, k)
  <2>1. seen'[k] = seen[k]
    BY <1>3
  <2> QED
    BY <2>1 DEF CaughtBy, EligibleAt
<1>8. ASSUME NEW p \in Candidate
      PROVE  CaughtBy(p, n + 1)' <=> p \in InRange(garages, Head(todo)) /\ Within(p)
  <2>1. preferred[n + 1] \in ToSet(preferred)
    <3>1. n + 1 \in DOMAIN preferred
      BY <1>1, <1>4
    <3> QED
      BY <3>1, Zenon DEF ToSet
  <2>2. CaughtBy(p, n + 1)' <=>
          /\ garages[p].free /\ garages[p].type \in ToSet(preferred)
          /\ garages[p].dist <= SearchRadius /\ garages[p].dist <= garages[p].reach
          /\ garages[p].type = preferred[n + 1]
    BY <1>3 DEF CaughtBy, EligibleAt
  <2> QED
    BY <1>4, <2>1, <2>2 DEF InRange, Within
<1> QED
  BY <1>1, <1>2, <1>3, <1>4, <1>5, <1>6, <1>7, <1>8, Zenon DEF todo

LEMMA RowsAreRows ==
  ASSUME NEW list \in Seq(Row)
  PROVE  /\ Len(list) \in Nat
         /\ \A i \in 1 .. Len(list) : list[i] \in Row /\ list[i].id \in Candidate
<1>1. \A i \in 1 .. Len(list) : list[i] \in Row
  OBVIOUS
<1>2. \A r \in Row : r.id \in Candidate
  BY DEF Row
<1> QED
  BY <1>1, <1>2

LEMMA QueryKeepsSearch == SearchInv /\ Query => SearchInv'
<1> SUFFICES ASSUME SearchInv, Query PROVE SearchInv'
  OBVIOUS
<1>1. PICK s \in findNearbyWithDistance(Head(search.todo)) :
        search' = [ search EXCEPT !.todo = Tail(@), !.rows = Merged(@, s) ]
  BY DEF Query
<1>2. PICK n, list, R, L, found :
        /\ n = Len(seen) /\ list = search.rows /\ R = Merged(list, s)
        /\ L = Len(list) /\ found = InRange(garages, Head(search.todo))
  OBVIOUS
<1>3. /\ search.pc = "query" /\ search.todo # << >>
      /\ seen' = Append(seen, garages)
      /\ preferred' = preferred /\ garages' = garages
  BY DEF Query
<1>4. /\ n \in Nat /\ seen' \in Seq([Candidate -> Garage]) /\ Len(seen') = n + 1
      /\ Head(search.todo) = preferred[n + 1] /\ Tail(search.todo) \in Seq(ProviderType)
      /\ Len(seen') + Len(Tail(search.todo)) = Len(preferred)
      /\ \A i \in 1 .. Len(Tail(search.todo)) :
           Tail(search.todo)[i] = preferred[Len(seen') + i]
      /\ \A k \in 1 .. n : seen'[k] = seen[k]
      /\ seen'[n + 1] = garages
      /\ \A p \in Candidate, k \in 1 .. n : CaughtBy(p, k)' <=> CaughtBy(p, k)
      /\ \A p \in Candidate : CaughtBy(p, n + 1)' <=> p \in found /\ Within(p)
  BY <1>2, <1>3, QueryCatches
<1>5. /\ garages \in [Candidate -> Garage] /\ list \in Seq(Row) /\ preferred \in Seq(ProviderType)
      /\ seen \in Seq([Candidate -> Garage])
      /\ search \in [ pc : { "query", "found", "none" }, todo : Seq(ProviderType),
                      rows : Seq(Row) ]
  BY <1>2 DEF SearchInv
<1>6. /\ s \in Seq(Candidate)
      /\ \A k \in 1 .. Len(s) : s[k] \in found
      /\ Cardinality(found) <= Limit =>
           \A p \in found : \E k \in 1 .. Len(s) : s[k] = p
  BY <1>1, <1>2, QueryFinds
<1>7. /\ R \in Seq(Row) /\ L <= Len(R)
      /\ \A i \in 1 .. L :
           R[i].id = list[i].id /\ R[i] \in { list[i] } \cup RowsOf(s, Len(s))
      /\ \A i \in L + 1 .. Len(R) :
           /\ R[i] \in RowsOf(s, Len(s))
           /\ \A a \in 1 .. L : list[a].id # R[i].id
      /\ \A k \in 1 .. Len(s) : Within(s[k]) => \E i \in 1 .. Len(R) : R[i].id = s[k]
  <2>1. KeepsAll(list, s, R)
    BY <1>2, <1>5, <1>6, MergedKeeps
  <2> QED
    BY <1>2, <2>1, Zenon DEF KeepsAll
<1>8. /\ search' = [ pc |-> "query", todo |-> Tail(search.todo), rows |-> R ]
      /\ search'.pc = "query" /\ search'.todo = Tail(search.todo) /\ search'.rows = R
  BY <1>1, <1>2, <1>3, <1>5
<1>9. /\ L \in Nat /\ Len(R) \in Nat
      /\ \A i \in 1 .. L : list[i] \in Row /\ list[i].id \in Candidate
      /\ \A i \in 1 .. Len(R) : R[i] \in Row /\ R[i].id \in Candidate
  BY <1>2, <1>5, <1>7, RowsAreRows
<1>10. DOMAIN seen = 1 .. n /\ DOMAIN seen' = 1 .. n + 1
  BY <1>2, <1>4, <1>5
<1>11. /\ \A i \in 1 .. L : Justified(list[i])
       /\ Uncrowded =>
            /\ \A p \in Candidate, j \in 1 .. n :
                 CaughtBy(p, j) => \E i \in 1 .. L : list[i].id = p
            /\ \A a, b \in 1 .. L, j \in 1 .. n :
                 (a < b /\ CaughtBy(list[b].id, j)) => \E k \in 1 .. j : CaughtBy(list[a].id, k)
  BY <1>2, <1>3 DEF SearchInv
<1>12. ASSUME NEW row \in Row, Justified(row) PROVE Justified(row)'
  <2>1. row.id \in Candidate
    BY DEF Row
  <2>2. PICK k \in 1 .. n : CaughtBy(row.id, k) /\ seen[k][row.id].dist = row.dist
    BY <1>10, <1>12 DEF Justified
  <2>3. k \in 1 .. n + 1
    BY <1>4
  <2> QED
    BY <1>4, <1>10, <2>1, <2>2, <2>3 DEF Justified
<1>13. ASSUME NEW row \in RowsOf(s, Len(s)) PROVE Justified(row)'
  <2>1. PICK k \in 1 .. Len(s) : Within(s[k]) /\ row = RowOf(s[k])
    BY <1>6 DEF RowsOf
  <2>2. s[k] \in Candidate /\ s[k] \in found
    BY <1>6
  <2>3. row.id = s[k] /\ row.dist = garages[s[k]].dist
    BY <2>1 DEF RowOf
  <2>4. CaughtBy(s[k], n + 1)'
    BY <1>4, <2>1, <2>2
  <2>5. n + 1 \in 1 .. n + 1
    BY <1>4
  <2> QED
    BY <1>4, <1>10, <2>3, <2>4, <2>5 DEF Justified
<1>14. ASSUME NEW i \in 1 .. Len(R) PROVE Justified(R[i])'
  <2>1. CASE i \in 1 .. L
    <3>1. R[i] = list[i] \/ R[i] \in RowsOf(s, Len(s))
      BY <1>7, <2>1
    <3>2. R[i] = list[i] => Justified(R[i])
      BY <1>11, <2>1
    <3>3. R[i] \in Row
      BY <1>9
    <3> QED
      BY <1>12, <1>13, <3>1, <3>2, <3>3
  <2>2. CASE i \notin 1 .. L
    <3>1. i \in L + 1 .. Len(R)
      BY <1>9, <2>2
    <3> QED
      BY <1>7, <1>13, <3>1
  <2> QED
    BY <2>1, <2>2
<1>15. ASSUME Uncrowded' PROVE Uncrowded /\ Cardinality(found) <= Limit
  <2>1. \A k \in 1 .. n + 1 : Cardinality(InRange(seen'[k], preferred[k])) <= Limit
    BY <1>3, <1>10, <1>15 DEF Uncrowded, InRange
  <2>2. \A k \in 1 .. n : k \in 1 .. n + 1
    BY <1>4
  <2>3. n + 1 \in 1 .. n + 1
    BY <1>4
  <2> QED
    BY <1>4, <1>10, <2>1, <2>2, <2>3, <1>2 DEF Uncrowded
<1>16. ASSUME Uncrowded', NEW p \in Candidate, NEW j \in 1 .. n + 1, CaughtBy(p, j)'
       PROVE  \E i \in 1 .. Len(R) : R[i].id = p
  <2>1. CASE j \in 1 .. n
    <3>1. PICK i \in 1 .. L : list[i].id = p
      BY <1>4, <1>11, <1>15, <1>16, <2>1
    <3>2. i \in 1 .. Len(R)
      BY <1>7, <1>9
    <3> QED
      BY <1>7, <3>1, <3>2
  <2>2. CASE j \notin 1 .. n
    <3>1. j = n + 1
      BY <1>4, <2>2
    <3>2. p \in found /\ Within(p)
      BY <1>4, <1>16, <3>1
    <3>3. PICK k \in 1 .. Len(s) : s[k] = p
      BY <1>6, <1>15, <1>16, <3>2
    <3> QED
      BY <1>7, <3>2, <3>3
  <2> QED
    BY <2>1, <2>2
<1>17. ASSUME Uncrowded', NEW a \in 1 .. Len(R), NEW b \in 1 .. Len(R),
              NEW j \in 1 .. n + 1, a < b, CaughtBy(R[b].id, j)'
       PROVE  \E k \in 1 .. j : CaughtBy(R[a].id, k)'
  <2>0. R[a].id \in Candidate /\ R[b].id \in Candidate
    BY <1>9
  <2>1. PICK m \in 1 .. n + 1 : CaughtBy(R[a].id, m)'
    BY <1>10, <1>14 DEF Justified
  <2>2. CASE j = n + 1
    BY <2>1, <2>2
  <2>3. CASE j # n + 1
    <3>1. j \in 1 .. n
      BY <1>4, <2>3
    <3>2. CaughtBy(R[b].id, j)
      BY <1>4, <1>17, <2>0, <3>1
    <3>3. b \in 1 .. L
      <4>1. PICK i \in 1 .. L : list[i].id = R[b].id
        BY <1>11, <1>15, <1>17, <2>0, <3>1, <3>2
      <4>2. b \notin L + 1 .. Len(R)
        BY <1>7, <4>1
      <4> QED
        BY <1>9, <4>2
    <3>4. a \in 1 .. L
      BY <1>9, <1>17, <3>3
    <3>5. R[a].id = list[a].id /\ R[b].id = list[b].id
      BY <1>7, <3>3, <3>4
    <3>6. PICK k \in 1 .. j : CaughtBy(list[a].id, k)
      BY <1>11, <1>15, <1>17, <3>1, <3>2, <3>3, <3>4, <3>5
    <3>7. k \in 1 .. n
      BY <1>4, <3>1
    <3> QED
      BY <1>4, <2>0, <3>5, <3>6, <3>7
  <2> QED
    BY <2>2, <2>3
<1>18. NearestIsChosen'
  BY <1>8 DEF NearestIsChosen, WinnerWasEligible, NobodyPassedOver
<1>19. search' \in [ pc : { "query", "found", "none" }, todo : Seq(ProviderType), rows : Seq(Row) ]
  BY <1>4, <1>7, <1>8
<1>20. (/\ Len(seen) + Len(search.todo) = Len(preferred)
        /\ \A i \in 1 .. Len(search.todo) : search.todo[i] = preferred[Len(seen) + i])'
  BY <1>3, <1>4, <1>8
<1>21. (\A i \in 1 .. Len(search.rows) : Justified(search.rows[i]))'
  BY <1>8, <1>14
<1>22. (Uncrowded =>
          \A p \in Candidate, j \in 1 .. Len(seen) :
            CaughtBy(p, j) => \E i \in 1 .. Len(search.rows) : search.rows[i].id = p)'
  BY <1>4, <1>8, <1>16
<1>23. (Uncrowded =>
          \A a, b \in 1 .. Len(search.rows), j \in 1 .. Len(seen) :
            (a < b /\ CaughtBy(search.rows[b].id, j)) =>
               \E k \in 1 .. j : CaughtBy(search.rows[a].id, k))'
  BY <1>4, <1>8, <1>17
<1> QED
  BY <1>3, <1>4, <1>5, <1>18, <1>19, <1>20, <1>21, <1>22, <1>23 DEF SearchInv

\* The choice, once every query has been made: why nobody was passed over.
LEMMA ChoiceIsNearest ==
  ASSUME SearchInv, search.pc = "query", search.todo = << >>, Choose
  PROVE  NearestIsChosen'
<1>1. PICK n, list : n = Len(seen) /\ list = search.rows
  OBVIOUS
<1>2. /\ list \in Seq(Row) /\ seen \in Seq([Candidate -> Garage]) /\ n \in Nat
      /\ DOMAIN seen = 1 .. n
      /\ search \in [ pc : { "query", "found", "none" }, todo : Seq(ProviderType),
                      rows : Seq(Row) ]
  BY <1>1 DEF SearchInv
<1>3. preferred' = preferred /\ seen' = seen
  BY DEF Choose
<1>4. /\ \A i \in 1 .. Len(list) : Justified(list[i])
      /\ Uncrowded =>
           /\ \A p \in Candidate, j \in 1 .. n :
                CaughtBy(p, j) => \E i \in 1 .. Len(list) : list[i].id = p
           /\ \A a, b \in 1 .. Len(list), j \in 1 .. n :
                (a < b /\ CaughtBy(list[b].id, j)) => \E k \in 1 .. j : CaughtBy(list[a].id, k)
  BY <1>1 DEF SearchInv
<1>5. \A p, k : CaughtBy(p, k)' <=> CaughtBy(p, k)
  BY <1>3 DEF CaughtBy, EligibleAt
<1>6. /\ Len(list) \in Nat
      /\ \A i \in 1 .. Len(list) : list[i] \in Row /\ list[i].id \in Candidate
  BY <1>2, RowsAreRows
<1>7. CASE list = << >>
  <2>1. search'.pc = "none"
    BY <1>1, <1>2, <1>7 DEF Choose
  <2>2. Len(list) = 0 /\ \A i \in 1 .. Len(list) : FALSE
    BY <1>6, <1>7, EmptySeq
  <2>3. Uncrowded' => Uncrowded
    BY <1>3 DEF Uncrowded, InRange
  <2>4. NobodyPassedOver'
    BY <1>2, <1>3, <1>4, <1>5, <2>2, <2>3 DEF NobodyPassedOver
  <2> QED
    BY <2>1, <2>4 DEF NearestIsChosen, WinnerWasEligible
<1>8. CASE list # << >>
  <2>1. PICK b : b = Best(list)
    OBVIOUS
  <2>2. /\ b \in 1 .. Len(list)
        /\ \A j \in 1 .. Len(list) :
             list[b].dist < list[j].dist \/ (list[b].dist = list[j].dist /\ b <= j)
    BY <1>2, <1>8, <2>1, BestIsNearest
  <2>3. search'.pc = "found" /\ search'.rows = << list[b] >>
    BY <1>1, <1>2, <1>8, <2>1 DEF Choose
  <2>4. search'.rows[1] = list[b]
    BY <2>3
  <2>5. PICK m \in 1 .. n : CaughtBy(list[b].id, m) /\ seen[m][list[b].id].dist = list[b].dist
    BY <1>2, <1>4, <2>2 DEF Justified
  <2>6. WinnerWasEligible'
    BY <1>2, <1>3, <1>5, <2>3, <2>4, <2>5 DEF WinnerWasEligible
  <2>7. ASSUME Uncrowded', NEW p \in Candidate, NEW j \in 1 .. n,
               CaughtBy(p, j), \A k \in 1 .. n : seen[k][p] = seen[j][p]
        PROVE  /\ list[b].dist <= seen[j][p].dist
               /\ list[b].dist = seen[j][p].dist => \E k \in 1 .. j : CaughtBy(list[b].id, k)
    <3>1. Uncrowded
      BY <1>3, <2>7 DEF Uncrowded, InRange
    <3>2. PICK i \in 1 .. Len(list) : list[i].id = p
      BY <1>4, <2>7, <3>1
    <3>3. list[i].dist = seen[j][p].dist
      <4>1. PICK k \in 1 .. n : seen[k][p].dist = list[i].dist
        BY <1>2, <1>4, <3>2 DEF Justified
      <4> QED
        BY <2>7, <4>1
    <3>4. list[b].dist < list[i].dist \/ (list[b].dist = list[i].dist /\ b <= i)
      BY <2>2
    <3>5. list[b].dist \in Nat /\ list[i].dist \in Nat
      <4>1. list[b] \in Row /\ list[i] \in Row
        BY <1>6, <2>2
      <4> QED
        BY <4>1 DEF Row
    <3>6. ASSUME list[b].dist = seen[j][p].dist
          PROVE  \E k \in 1 .. j : CaughtBy(list[b].id, k)
      <4>1. b <= i
        BY <3>3, <3>4, <3>5, <3>6
      <4>2. CASE b = i
        <5>1. list[b].id = p /\ j \in 1 .. j
          BY <1>2, <3>2, <4>2
        <5> QED
          BY <2>7, <5>1
      <4>3. CASE b < i
        BY <1>4, <2>2, <2>7, <3>1, <3>2, <4>3
      <4>4. b \in Nat /\ i \in Nat
        BY <1>6, <2>2
      <4> QED
        BY <4>1, <4>2, <4>3, <4>4
    <3> QED
      BY <3>3, <3>4, <3>5, <3>6
  <2>8. NobodyPassedOver'
    BY <1>2, <1>3, <1>5, <2>3, <2>4, <2>7 DEF NobodyPassedOver
  <2> QED
    BY <2>6, <2>8 DEF NearestIsChosen
<1> QED
  BY <1>7, <1>8

LEMMA ChooseKeepsSearch == SearchInv /\ Choose => SearchInv'
<1> SUFFICES ASSUME SearchInv, Choose PROVE SearchInv'
  OBVIOUS
<1>1. /\ search.pc = "query" /\ search.todo = << >>
      /\ preferred' = preferred /\ garages' = garages /\ seen' = seen
  BY DEF Choose
<1>2. /\ preferred \in Seq(ProviderType) /\ garages \in [Candidate -> Garage]
      /\ seen \in Seq([Candidate -> Garage]) /\ search.rows \in Seq(Row)
      /\ search \in [ pc : { "query", "found", "none" }, todo : Seq(ProviderType),
                      rows : Seq(Row) ]
  BY DEF SearchInv
<1>3. NearestIsChosen'
  BY <1>1, ChoiceIsNearest
<1>4. search'.pc \in { "found", "none" } /\ search'.todo = search.todo
  BY <1>2 DEF Choose
<1>5. search'.rows \in Seq(Row)
  <2>1. CASE search.rows = << >>
    BY <1>2, <2>1 DEF Choose
  <2>2. CASE search.rows # << >>
    <3>1. Best(search.rows) \in 1 .. Len(search.rows)
      BY <1>2, <2>2, BestIsNearest
    <3>2. search.rows[Best(search.rows)] \in Row
      BY <1>2, <3>1, RowsAreRows
    <3>3. search'.rows = << search.rows[Best(search.rows)] >>
      BY <1>2, <2>2 DEF Choose
    <3>4. \A r \in Row : << r >> \in Seq(Row)
      OBVIOUS
    <3> QED
      BY <3>2, <3>3, <3>4
  <2> QED
    BY <2>1, <2>2
<1>6. search' \in [ pc : { "query", "found", "none" }, todo : Seq(ProviderType), rows : Seq(Row) ]
  <2>1. search' = [ pc |-> search'.pc, todo |-> search'.todo, rows |-> search'.rows ]
    BY <1>2 DEF Choose
  <2> QED
    BY <1>2, <1>4, <1>5, <2>1
<1> QED
  BY <1>1, <1>2, <1>3, <1>4, <1>6 DEF SearchInv

\* What the queries saw is history: an edit does not reach it.
LEMMA EditKeepsSearch ==
  ASSUME NEW p \in Candidate PROVE SearchInv /\ EditGarage(p) => SearchInv'
<1> SUFFICES ASSUME SearchInv, EditGarage(p) PROVE SearchInv'
  OBVIOUS
<1>1. /\ search.pc = "query" /\ search' = search
      /\ preferred' = preferred /\ seen' = seen
  BY DEF EditGarage
<1>2. garages' \in [Candidate -> Garage]
  BY DEF EditGarage, SearchInv
<1>3. \A q, k : CaughtBy(q, k)' <=> CaughtBy(q, k)
  BY <1>1 DEF CaughtBy, EligibleAt
<1>4. Uncrowded' <=> Uncrowded
  BY <1>1 DEF Uncrowded, InRange
<1>5. \A row : Justified(row)' <=> Justified(row)
  BY <1>1, <1>3 DEF Justified
<1>6. NearestIsChosen'
  BY <1>1 DEF NearestIsChosen, WinnerWasEligible, NobodyPassedOver
<1> QED
  BY <1>1, <1>2, <1>3, <1>4, <1>5, <1>6 DEF SearchInv

LEMMA StutterKeepsSearch == SearchInv /\ UNCHANGED selectionVars => SearchInv'
<1> SUFFICES ASSUME SearchInv, UNCHANGED selectionVars PROVE SearchInv'
  OBVIOUS
<1>1. /\ search' = search /\ garages' = garages
      /\ preferred' = preferred /\ seen' = seen
  BY DEF selectionVars
<1>2. \A q, k : CaughtBy(q, k)' <=> CaughtBy(q, k)
  BY <1>1 DEF CaughtBy, EligibleAt
<1>3. Uncrowded' <=> Uncrowded
  BY <1>1 DEF Uncrowded, InRange
<1>4. \A row : Justified(row)' <=> Justified(row)
  BY <1>1, <1>2 DEF Justified
<1>5. NearestIsChosen'
  <2>1. NearestIsChosen
    BY DEF SearchInv
  <2>2. WinnerWasEligible'
    BY <1>1, <1>2, <2>1 DEF NearestIsChosen, WinnerWasEligible
  <2>3. NobodyPassedOver'
    BY <1>1, <1>2, <1>3, <2>1 DEF NearestIsChosen, NobodyPassedOver
  <2> QED
    BY <2>2, <2>3 DEF NearestIsChosen
<1> QED
  BY <1>1, <1>2, <1>3, <1>4, <1>5 DEF SearchInv

\* The search returns the nearest provider that could take the request, for any
\* providers, distances, radii and limits and whatever the providers do between
\* the queries (findNearestEligibleProvider, breakdown.service.ts:118-151).
THEOREM NearestAlwaysChosen == SelectionSpec => []NearestIsChosen
<1>1. SearchInv /\ [SelectionNext]_selectionVars => SearchInv'
  BY QueryKeepsSearch, ChooseKeepsSearch, EditKeepsSearch, StutterKeepsSearch
  DEF SelectionNext
<1>2. SearchInv => NearestIsChosen
  BY DEF SearchInv
<1> QED
  BY InitSearch, <1>1, <1>2, PTL DEF SelectionSpec

-----------------------------------------------------------------------------
(***************************************************************************)
(* The walk over a list in pages, for any documents and limits.            *)
(***************************************************************************)
WalkState ==
  [ active : BOOLEAN, page : Nat \ { 0 }, limit : Nat \ { 0 }, data : SUBSET Rows,
    total : Nat, need : SUBSET { "data", "total" }, more : BOOLEAN ]

PagedTypes ==
  /\ rows \in Seq(BOOLEAN) /\ Len(rows) <= MaxRows
  /\ walk \in WalkState
  /\ got \in [Rows -> Nat] /\ begun \in SUBSET Rows
  /\ walk.active => walk.more
  /\ (~ walk.active /\ walk.more) => \A i \in Rows : got[i] = 0
  /\ "data" \in walk.need => walk.data = {}

\* As long as nothing was deleted or torn, whatever the client has not been
\* given yet lies behind the page, or is in its data; and the total says so.
Unspoilt == disturbed \cap { "deleted", "torn" } = {}

Ahead(i) ==
  /\ i \in Listed
  /\ "data" \in walk.need => Place(i) > (walk.page - 1) * walk.limit
  /\ "data" \notin walk.need => (i \in walk.data \/ Place(i) > walk.page * walk.limit)
  /\ walk.need = {} => (i \in walk.data \/ walk.total > walk.page * walk.limit)

SeesInv ==
  Unspoilt =>
    /\ walk.active => \A i \in begun : got[i] = 0 => Ahead(i)
    /\ (walk.active /\ walk.need = { "data" }) => walk.total = Len(rows)

\* As long as nothing was created, whatever it was given lies before the page.
Before(i, end) == i \notin Listed \/ Place(i) <= end

TwiceInv ==
  "created" \notin disturbed =>
    \A i \in Rows :
      /\ got[i] <= 1
      /\ (walk.active /\ got[i] = 1) => Before(i, (walk.page - 1) * walk.limit)
      /\ (walk.active /\ i \in walk.data) =>
           got[i] = 0 /\ Before(i, walk.page * walk.limit)

PagedInv == PagedTypes /\ SeesInv /\ TwiceInv /\ WalkSeesAll

\* The place of a document: at least the first, at most the last; a document
\* that is created draws it one back, one that is deleted may draw it forward.
LEMMA ListedRows ==
  ASSUME PagedTypes
  PROVE  /\ Len(rows) \in Nat /\ DOMAIN rows = 1 .. Len(rows)
         /\ Listed \in SUBSET (1 .. Len(rows)) /\ Listed \in SUBSET Rows
         /\ IsFiniteSet(Listed)
<1>1. Len(rows) \in Nat /\ DOMAIN rows = 1 .. Len(rows) /\ Len(rows) <= MaxRows
  BY DEF PagedTypes
<1>2. Listed \in SUBSET (1 .. Len(rows))
  BY <1>1 DEF Listed
<1>3. \A i \in 1 .. Len(rows) : i \in Rows
  BY <1>1, PagedAssumption DEF Rows
<1>4. IsFiniteSet(1 .. Len(rows))
  BY <1>1, FS_Interval
<1>5. IsFiniteSet(Listed)
  BY <1>2, <1>4, FS_Subset
<1> QED
  BY <1>1, <1>2, <1>3, <1>5

LEMMA PlaceBounds ==
  ASSUME PagedTypes, NEW i \in Listed
  PROVE  Place(i) \in Nat /\ Place(i) >= 1 /\ Place(i) <= Len(rows)
<1> DEFINE after == { j \in Listed : j >= i }
<1>1. PICK n \in Nat : n = Len(rows) /\ i \in 1 .. n /\ Listed \in SUBSET (1 .. n)
  BY ListedRows
<1>2. i \in after /\ after \in SUBSET Listed /\ after \in SUBSET (1 .. n)
  <2>1. i >= i
    BY <1>1
  <2>2. i \in after /\ after \in SUBSET Listed
    BY <2>1
  <2> QED
    BY <1>1, <2>2
<1> HIDE DEF after
<1>3. IsFiniteSet(after) /\ Cardinality(after) \in Nat
  BY <1>2, ListedRows, FS_Subset, FS_CardinalityType
<1>4. Cardinality(after) <= n
  <2>1. 1 \in Int /\ n \in Int
    OBVIOUS
  <2>2. IsFiniteSet(1 .. n) /\ Cardinality(1 .. n) = IF 1 > n THEN 0 ELSE n - 1 + 1
    BY <2>1, FS_Interval
  <2>3. Cardinality(1 .. n) = n
    BY <2>2
  <2> QED
    BY <1>2, <2>2, <2>3, FS_Subset
<1>5. Cardinality(after) # 0
  BY <1>2, <1>3, FS_EmptySet
<1> QED
  BY <1>1, <1>3, <1>4, <1>5 DEF Place, after

LEMMA PlaceAfterCreate ==
  ASSUME PagedTypes, rows' = Append(rows, TRUE)
  PROVE  \A i \in Listed : i \in Listed' /\ Place(i)' = Place(i) + 1
<1> SUFFICES ASSUME NEW i \in Listed PROVE i \in Listed' /\ Place(i)' = Place(i) + 1
  OBVIOUS
<1> DEFINE new == Len(rows) + 1
           after == { j \in Listed : j >= i }
<1>1. /\ Len(rows) \in Nat /\ i \in 1 .. Len(rows) /\ Listed \in SUBSET (1 .. Len(rows))
      /\ rows \in Seq(BOOLEAN) /\ DOMAIN rows = 1 .. Len(rows)
  BY ListedRows DEF PagedTypes
<1>2. /\ rows' \in Seq(BOOLEAN) /\ DOMAIN rows' = 1 .. new /\ rows'[new] = TRUE
      /\ \A j \in 1 .. Len(rows) : rows'[j] = rows[j]
  BY <1>1, AppendProperties
<1>3. \A j \in 1 .. new : j = new \/ j \in 1 .. Len(rows)
  BY <1>1
<1>4. Listed' = Listed \cup { new }
  <2>1. \A j \in 1 .. Len(rows) : j \in 1 .. new
    BY <1>1
  <2>2. new \in 1 .. new
    BY <1>1
  <2> QED
    BY <1>1, <1>2, <1>3, <2>1, <2>2 DEF Listed
<1>5. new >= i /\ new \notin after /\ i # new
  BY <1>1
<1>6. { j \in Listed' : j >= i } = after \cup { new }
  BY <1>4, <1>5
<1>7. IsFiniteSet(after)
  BY <1>1, ListedRows, FS_Subset
<1>8. Cardinality(after \cup { new }) = Cardinality(after) + 1
  <2> HIDE DEF after, new
  <2> QED
    BY <1>5, <1>7, FS_AddElement
<1> QED
  BY <1>4, <1>6, <1>8 DEF Place

LEMMA PlaceAfterDelete ==
  ASSUME PagedTypes, NEW d \in DOMAIN rows, rows' = [rows EXCEPT ![d] = FALSE]
  PROVE  /\ Listed' \in SUBSET Listed
         /\ \A i \in Listed' : Place(i)' \in Nat /\ Place(i)' <= Place(i)
<1>1. Listed' \in SUBSET Listed
  BY ListedRows DEF Listed, PagedTypes
<1>2. ASSUME NEW i \in Listed' PROVE Place(i)' \in Nat /\ Place(i)' <= Place(i)
  <2> DEFINE A == { j \in Listed : j >= i }
             B == { j \in Listed' : j >= i }
  <2>1. B \in SUBSET A /\ A \in SUBSET Listed
    BY <1>1
  <2>2. IsFiniteSet(A)
    BY <2>1, ListedRows, FS_Subset
  <2>3. IsFiniteSet(B) /\ Cardinality(B) <= Cardinality(A) /\ Cardinality(B) \in Nat
    BY <2>1, <2>2, FS_Subset, FS_CardinalityType
  <2> QED
    BY <2>3 DEF Place
<1> QED
  BY <1>1, <1>2

\* Pages in numbers.
LEMMA PageEnds ==
  ASSUME NEW page \in Nat \ { 0 }, NEW limit \in Nat \ { 0 }
  PROVE  /\ page * limit \in Nat /\ (page - 1) * limit \in Nat
         /\ (page - 1) * limit + limit = page * limit
         /\ ((page + 1) - 1) * limit = page * limit
<1>1. page - 1 \in Nat /\ page \in Nat /\ limit \in Nat /\ (page + 1) - 1 = page
  OBVIOUS
<1>2. page * limit \in Nat /\ (page - 1) * limit \in Nat
  BY <1>1
<1>3. (page - 1) * limit + limit = page * limit
  BY <1>1
<1> QED
  BY <1>1, <1>2, <1>3

LEMMA MorePages ==
  ASSUME NEW page \in Nat \ { 0 }, NEW limit \in Nat \ { 0 }, NEW total \in Nat,
         total > page * limit
  PROVE  page < totalPages(total, limit)
<1> DEFINE a == total + limit - 1
           n == a \div limit
<1>1. a \in Nat /\ a >= page * limit + limit /\ page * limit \in Nat
  BY PageEnds
<1>2. n \in Nat /\ a < n * limit + limit
  <2>1. a \in Nat /\ limit \in Nat /\ limit > 0
    BY <1>1
  <2> HIDE DEF a
  <2>2. n \in Int /\ a = n * limit + (a % limit) /\ a % limit \in 0 .. limit - 1
    BY <2>1
  <2>3. n \in Nat
    BY <2>1, <2>2
  <2> QED
    BY <2>1, <2>2, <2>3
<1> HIDE DEF a, n
<1>3. page * limit < n * limit
  BY <1>1, <1>2
<1>4. page < n
  BY <1>2, <1>3
<1> QED
  BY <1>2, <1>4 DEF totalPages, n, a

LEMMA InitPaged == PagedInit => PagedInv
<1> SUFFICES ASSUME PagedInit PROVE PagedInv
  OBVIOUS
<1>1. rows \in Seq(BOOLEAN) /\ Len(rows) <= MaxRows
  <2>1. PICK n \in 0 .. MaxRows : rows \in [1 .. n -> BOOLEAN]
    BY DEF PagedInit
  <2> QED
    BY <2>1, PagedAssumption
<1>2. walk \in WalkState /\ ~ walk.active /\ walk.more /\ walk.need = {}
  BY DEF PagedInit, Asleep, WalkState
<1>3. got \in [Rows -> Nat] /\ begun = {} /\ \A i \in Rows : got[i] = 0
  BY DEF PagedInit
<1>4. PagedTypes
  BY <1>1, <1>2, <1>3 DEF PagedTypes
<1>5. SeesInv /\ TwiceInv /\ WalkSeesAll
  BY <1>2, <1>3 DEF SeesInv, TwiceInv, WalkSeesAll
<1> QED
  BY <1>4, <1>5 DEF PagedInv

\* The numbers of a walk.
LEMMA WalkNumbers ==
  ASSUME walk \in WalkState
  PROVE  /\ walk.page \in Nat \ { 0 } /\ walk.limit \in Nat \ { 0 } /\ walk.total \in Nat
         /\ walk.active \in BOOLEAN /\ walk.more \in BOOLEAN
         /\ walk.data \in SUBSET Rows /\ walk.need \in SUBSET { "data", "total" }
         /\ walk.page * walk.limit \in Nat /\ (walk.page - 1) * walk.limit \in Nat
         /\ (walk.page - 1) * walk.limit + walk.limit = walk.page * walk.limit
         /\ ((walk.page + 1) - 1) * walk.limit = walk.page * walk.limit
<1>1. /\ walk.page \in Nat \ { 0 } /\ walk.limit \in Nat \ { 0 } /\ walk.total \in Nat
      /\ walk.active \in BOOLEAN /\ walk.more \in BOOLEAN
      /\ walk.data \in SUBSET Rows /\ walk.need \in SUBSET { "data", "total" }
  BY DEF WalkState
<1> QED
  BY <1>1, PageEnds

LEMMA StartKeepsPaged ==
  ASSUME NEW limit \in Limits PROVE PagedInv /\ StartWalk(limit) => PagedInv'
<1> SUFFICES ASSUME PagedInv, StartWalk(limit) PROVE PagedInv'
  OBVIOUS
<1>1. /\ ~ walk.active /\ walk.more /\ rows' = rows /\ got' = got
      /\ disturbed' = disturbed /\ begun' = Listed
  BY DEF StartWalk
<1>2. Clamped(limit) \in Nat \ { 0 }
  BY PagedAssumption DEF Clamped
<1>3. /\ walk' \in WalkState
      /\ walk'.active /\ walk'.more /\ walk'.page = 1 /\ walk'.limit = Clamped(limit)
      /\ walk'.data = {} /\ walk'.need = { "data", "total" }
  <2>1. walk' = [ active |-> TRUE, page |-> 1, limit |-> Clamped(limit), data |-> {},
                  total |-> 0, need |-> { "data", "total" }, more |-> TRUE ]
    BY DEF StartWalk, Asleep
  <2> QED
    BY <1>2, <2>1 DEF WalkState
<1>4. PagedTypes /\ \A i \in Rows : got[i] = 0
  BY <1>1 DEF PagedInv, PagedTypes
<1>5. PagedTypes'
  BY <1>1, <1>3, <1>4, ListedRows DEF PagedTypes
<1>6. (walk'.page - 1) * walk'.limit = 0
  BY <1>2, <1>3
<1>7. SeesInv'
  <2>1. ASSUME NEW i \in Listed PROVE Ahead(i)'
    <3>1. Place(i) \in Nat /\ Place(i) > 0
      BY <1>4, PlaceBounds
    <3>2. Listed' = Listed /\ Place(i)' = Place(i)
      BY <1>1 DEF Listed, Place
    <3> QED
      BY <1>3, <1>6, <3>1, <3>2 DEF Ahead
  <2>2. walk'.need # { "data" }
    BY <1>3
  <2> QED
    BY <1>1, <2>1, <2>2 DEF SeesInv
<1>8. TwiceInv'
  BY <1>1, <1>3, <1>4 DEF TwiceInv
<1>9. WalkSeesAll'
  BY <1>3 DEF WalkSeesAll
<1> QED
  BY <1>5, <1>7, <1>8, <1>9 DEF PagedInv

LEMMA FindKeepsPaged == PagedInv /\ FindAnswered => PagedInv'
<1> SUFFICES ASSUME PagedInv, FindAnswered PROVE PagedInv'
  OBVIOUS
<1>1. /\ walk.active /\ "data" \in walk.need /\ rows' = rows /\ got' = got
      /\ disturbed' = disturbed /\ begun' = begun
  BY DEF FindAnswered
<1>2. PagedTypes /\ walk \in WalkState /\ SeesInv /\ TwiceInv /\ walk.more
  BY <1>1 DEF PagedInv, PagedTypes
<1>3. /\ Listed \in SUBSET Rows
      /\ \A i \in Listed : Place(i) \in Nat /\ Place(i) <= Len(rows)
      /\ Listed' = Listed /\ \A i : Place(i)' = Place(i)
  BY <1>1, <1>2, ListedRows, PlaceBounds DEF Listed, Place
<1>4. PICK skip, end : skip = (walk.page - 1) * walk.limit /\ end = walk.page * walk.limit
  OBVIOUS
<1>5. /\ skip \in Nat /\ end \in Nat /\ skip + walk.limit = end
      /\ walk.page \in Nat \ { 0 } /\ walk.limit \in Nat \ { 0 }
      /\ walk.need \in SUBSET { "data", "total" }
  BY <1>2, <1>4, WalkNumbers
<1>6. PICK data : data = Page(walk.page, walk.limit)
  OBVIOUS
<1>7. data \in SUBSET Rows /\ data = { i \in Listed : skip < Place(i) /\ Place(i) <= end }
  BY <1>3, <1>4, <1>5, <1>6 DEF Page
<1>8. /\ walk' = [walk EXCEPT !.need = @ \ { "data" }, !.data = data]
      /\ walk'.active /\ walk'.more = walk.more /\ walk'.page = walk.page
      /\ walk'.limit = walk.limit /\ walk'.total = walk.total
      /\ walk'.data = data /\ walk'.need = walk.need \ { "data" }
  BY <1>1, <1>2, <1>6 DEF FindAnswered, WalkState
<1>9. walk' \in WalkState
  BY <1>2, <1>5, <1>7, <1>8 DEF WalkState
<1>10. PagedTypes'
  BY <1>1, <1>2, <1>8, <1>9 DEF PagedTypes
<1>11. ASSUME Unspoilt, NEW i \in begun, got[i] = 0 PROVE Ahead(i)'
  <2>1. i \in Listed /\ Place(i) > skip
    BY <1>1, <1>2, <1>4, <1>11 DEF SeesInv, Ahead
  <2>2. i \in data \/ Place(i) > end
    BY <1>3, <1>5, <1>7, <2>1
  <2>3. walk'.need = {} => (i \in data \/ walk.total > end)
    <3>1. walk'.need = {} => walk.need = { "data" }
      BY <1>1, <1>8
    <3>2. walk.need = { "data" } => walk.total = Len(rows)
      BY <1>1, <1>2, <1>11 DEF SeesInv
    <3>3. Len(rows) \in Nat /\ Place(i) \in Nat /\ Place(i) <= Len(rows)
      BY <1>2, <1>3, <2>1, ListedRows
    <3> QED
      BY <1>5, <2>2, <3>1, <3>2, <3>3
  <2> QED
    BY <1>3, <1>4, <1>8, <2>1, <2>2, <2>3 DEF Ahead
<1>12. SeesInv'
  <2>1. Unspoilt' = Unspoilt /\ walk'.need # { "data" }
    BY <1>1, <1>8 DEF Unspoilt
  <2> QED
    BY <1>1, <1>11, <2>1 DEF SeesInv
<1>13. ASSUME "created" \notin disturbed, NEW i \in Rows
       PROVE  /\ got[i] <= 1
              /\ got[i] = 1 => Before(i, skip)'
              /\ i \in data => got[i] = 0 /\ Before(i, end)'
  <2>1. got[i] <= 1 /\ (got[i] = 1 => Before(i, skip)) /\ got[i] \in Nat
    BY <1>1, <1>2, <1>4, <1>13 DEF TwiceInv, PagedTypes
  <2>2. \A e : Before(i, e)' <=> Before(i, e)
    BY <1>3 DEF Before
  <2>3. i \in data => ~ Before(i, skip)
    BY <1>3, <1>5, <1>7 DEF Before
  <2>4. i \in data => Before(i, end)
    BY <1>7 DEF Before
  <2> QED
    BY <2>1, <2>2, <2>3, <2>4
<1>14. TwiceInv'
  BY <1>1, <1>4, <1>8, <1>13 DEF TwiceInv
<1>15. WalkSeesAll'
  BY <1>2, <1>8 DEF WalkSeesAll
<1> QED
  BY <1>10, <1>12, <1>14, <1>15 DEF PagedInv

LEMMA CountKeepsPaged == PagedInv /\ CountAnswered => PagedInv'
<1> SUFFICES ASSUME PagedInv, CountAnswered PROVE PagedInv'
  OBVIOUS
<1>1. /\ walk.active /\ "total" \in walk.need /\ rows' = rows /\ got' = got
      /\ disturbed' = disturbed /\ begun' = begun
  BY DEF CountAnswered
<1>2. PagedTypes /\ walk \in WalkState /\ SeesInv /\ TwiceInv /\ walk.more
  BY <1>1 DEF PagedInv, PagedTypes
<1>3. /\ \A i \in Listed : Place(i) \in Nat /\ Place(i) <= Len(rows)
      /\ Listed' = Listed /\ \A i : Place(i)' = Place(i)
      /\ Len(rows) \in Nat
  BY <1>1, <1>2, ListedRows, PlaceBounds DEF Listed, Place
<1>4. PICK end : end = walk.page * walk.limit /\ end \in Nat
  BY <1>2, WalkNumbers
<1>5. /\ walk' = [walk EXCEPT !.need = @ \ { "total" }, !.total = Len(rows)]
      /\ walk'.active /\ walk'.more = walk.more /\ walk'.page = walk.page
      /\ walk'.limit = walk.limit /\ walk'.total = Len(rows)
      /\ walk'.data = walk.data /\ walk'.need = walk.need \ { "total" }
  BY <1>1, <1>2 DEF CountAnswered, WalkState
<1>6. walk' \in WalkState
  BY <1>2, <1>3, <1>5 DEF WalkState
<1>7. PagedTypes'
  BY <1>1, <1>2, <1>5, <1>6 DEF PagedTypes
<1>8. ASSUME Unspoilt, NEW i \in begun, got[i] = 0 PROVE Ahead(i)'
  <2>1. Ahead(i)
    BY <1>1, <1>2, <1>8 DEF SeesInv
  <2>2. i \in Listed
    BY <2>1 DEF Ahead
  <2>3. walk'.need = {} => (i \in walk.data \/ Len(rows) > end)
    <3>1. walk'.need = {} => "data" \notin walk.need
      BY <1>5
    <3>2. "data" \notin walk.need => (i \in walk.data \/ Place(i) > end)
      BY <1>4, <2>1 DEF Ahead
    <3> QED
      BY <1>3, <1>4, <2>2, <3>1, <3>2
  <2>4. "data" \in walk'.need <=> "data" \in walk.need
    BY <1>5
  <2> QED
    BY <1>3, <1>4, <1>5, <2>1, <2>3, <2>4 DEF Ahead
<1>9. SeesInv'
  <2>1. Unspoilt' = Unspoilt
    BY <1>1 DEF Unspoilt
  <2> QED
    BY <1>1, <1>5, <1>8, <2>1 DEF SeesInv
<1>10. TwiceInv'
  <2>1. \A i, e : Before(i, e)' <=> Before(i, e)
    BY <1>3 DEF Before
  <2> QED
    BY <1>1, <1>2, <1>5, <2>1 DEF TwiceInv
<1>11. WalkSeesAll'
  BY <1>2, <1>5 DEF WalkSeesAll
<1> QED
  BY <1>7, <1>9, <1>10, <1>11 DEF PagedInv

\* A page is done: the client has what it was waiting for, or goes on.
LEMMA PageKeepsPaged == PagedInv /\ PageDone => PagedInv'
<1> SUFFICES ASSUME PagedInv, PageDone PROVE PagedInv'
  OBVIOUS
<1>1. /\ walk.active /\ walk.need = {} /\ rows' = rows
      /\ disturbed' = disturbed /\ begun' = begun
      /\ got' = [i \in Rows |-> IF i \in walk.data THEN got[i] + 1 ELSE got[i]]
  BY DEF PageDone
<1>2. PagedTypes /\ walk \in WalkState /\ SeesInv /\ TwiceInv /\ walk.more
  BY <1>1 DEF PagedInv, PagedTypes
<1>3. /\ begun \in SUBSET Rows /\ got \in [Rows -> Nat] /\ walk.data \in SUBSET Rows
      /\ \A i \in Listed : Place(i) \in Nat
      /\ Listed' = Listed /\ \A i : Place(i)' = Place(i)
  BY <1>1, <1>2, ListedRows, PlaceBounds, WalkNumbers DEF Listed, Place, PagedTypes
<1>4. PICK skip, end : skip = (walk.page - 1) * walk.limit /\ end = walk.page * walk.limit
  OBVIOUS
<1>5. /\ skip \in Nat /\ end \in Nat /\ skip + walk.limit = end
      /\ ((walk.page + 1) - 1) * walk.limit = end
      /\ walk.page \in Nat \ { 0 } /\ walk.limit \in Nat \ { 0 } /\ walk.total \in Nat
  BY <1>2, <1>4, WalkNumbers
<1>6. PICK next \in BOOLEAN : next <=> walk.page < totalPages(walk.total, walk.limit)
  BY Zenon
<1>7. got' \in [Rows -> Nat]
      /\ \A i \in Rows : got'[i] = IF i \in walk.data THEN got[i] + 1 ELSE got[i]
  BY <1>1, <1>3
<1>8. next => /\ walk' = [walk EXCEPT !.page = @ + 1, !.data = {}, !.total = 0,
                                      !.need = { "data", "total" }]
              /\ walk'.active /\ walk'.more /\ walk'.page = walk.page + 1
              /\ walk'.limit = walk.limit /\ walk'.data = {}
              /\ walk'.need = { "data", "total" }
  BY <1>1, <1>2, <1>6 DEF PageDone, WalkState
<1>9. ~ next => /\ walk' = [Asleep EXCEPT !.more = FALSE]
                /\ ~ walk'.active /\ ~ walk'.more /\ walk'.need = {}
  BY <1>6 DEF PageDone, Asleep
<1>10. walk' \in WalkState
  <2>1. CASE next
    <3>1. walk' = [ active |-> walk.active, page |-> walk.page + 1, limit |-> walk.limit,
                    data |-> {}, total |-> 0, need |-> { "data", "total" },
                    more |-> walk.more ]
      BY <1>2, <1>8, <2>1 DEF WalkState
    <3>2. walk.page + 1 \in Nat \ { 0 } /\ walk.active \in BOOLEAN /\ walk.more \in BOOLEAN
      BY <1>2, <1>5, WalkNumbers
    <3> QED
      BY <1>5, <3>1, <3>2 DEF WalkState
  <2>2. CASE ~ next
    <3>1. walk' = [ active |-> FALSE, page |-> 1, limit |-> 1, data |-> {}, total |-> 0,
                    need |-> {}, more |-> FALSE ]
      BY <1>9, <2>2 DEF Asleep
    <3> QED
      BY <3>1 DEF WalkState
  <2> QED
    BY <1>6, <2>1, <2>2
<1>11. PagedTypes'
  BY <1>1, <1>2, <1>7, <1>8, <1>9, <1>10 DEF PagedTypes
<1>12. ASSUME Unspoilt, NEW i \in begun, got'[i] = 0
       PROVE  i \in Listed /\ Place(i) > end /\ next
  <2>1. i \notin walk.data /\ got[i] = 0
    BY <1>3, <1>7, <1>12
  <2>2. Ahead(i)
    BY <1>1, <1>2, <1>12, <2>1 DEF SeesInv
  <2>3. i \in Listed /\ Place(i) > end /\ walk.total > end
    BY <1>1, <1>4, <2>1, <2>2 DEF Ahead
  <2> QED
    BY <1>4, <1>5, <1>6, <2>3, MorePages
<1>13. Unspoilt' = Unspoilt
  BY <1>1 DEF Unspoilt
<1>14. SeesInv'
  <2>1. ASSUME Unspoilt, next, NEW i \in begun, got'[i] = 0 PROVE Ahead(i)'
    <3>1. i \in Listed /\ Place(i) > end
      BY <1>12, <2>1
    <3>2. (walk'.page - 1) * walk'.limit = end /\ walk'.need = { "data", "total" }
      BY <1>5, <1>8, <2>1
    <3> QED
      BY <1>3, <3>1, <3>2 DEF Ahead
  <2>2. walk'.active => next
    BY <1>9
  <2>3. walk'.need # { "data" }
    BY <1>8, <1>9
  <2> QED
    BY <1>1, <1>13, <2>1, <2>2, <2>3 DEF SeesInv
<1>15. WalkSeesAll'
  <2>1. ASSUME Unspoilt, ~ next, NEW i \in begun PROVE got'[i] > 0
    BY <1>3, <1>7, <1>12, <2>1
  <2>2. ~ walk'.more => ~ next
    BY <1>8
  <2> QED
    BY <1>1, <2>1, <2>2 DEF WalkSeesAll, Unspoilt
<1>16. ASSUME "created" \notin disturbed, NEW i \in Rows
       PROVE  got'[i] <= 1 /\ (got'[i] = 1 => Before(i, end))
  <2>1. /\ got[i] \in Nat /\ got[i] <= 1 /\ (got[i] = 1 => Before(i, skip))
        /\ i \in walk.data => got[i] = 0 /\ Before(i, end)
    BY <1>1, <1>2, <1>3, <1>4, <1>16 DEF TwiceInv
  <2>2. Before(i, skip) => Before(i, end)
    BY <1>3, <1>5 DEF Before
  <2> QED
    BY <1>7, <2>1, <2>2
<1>17. TwiceInv'
  <2>1. \A i, e : Before(i, e)' <=> Before(i, e)
    BY <1>3 DEF Before
  <2>2. walk'.active => walk'.data = {} /\ (walk'.page - 1) * walk'.limit = end
    BY <1>5, <1>8, <1>9
  <2> QED
    BY <1>1, <1>16, <2>1, <2>2 DEF TwiceInv
<1> QED
  BY <1>11, <1>14, <1>15, <1>17 DEF PagedInv

\* What happens to the list during a walk is remembered, and more of it if it
\* comes between the page and its total.
LEMMA Remembered ==
  ASSUME NEW what, disturbed' = disturbed \cup During(what), walk \in WalkState
  PROVE  /\ disturbed \subseteq disturbed'
         /\ walk.active => what \in disturbed'
         /\ (walk.active /\ Unspoilt') => walk.need # { "data" } /\ walk.need # { "total" }
BY DEF During, Torn, Unspoilt

LEMMA CreateKeepsPaged == PagedInv /\ CreateRow => PagedInv'
<1> SUFFICES ASSUME PagedInv, CreateRow PROVE PagedInv'
  OBVIOUS
<1>1. /\ rows' = Append(rows, TRUE) /\ Len(rows) < MaxRows
      /\ walk' = walk /\ begun' = begun /\ got' = got
      /\ disturbed' = disturbed \cup During("created")
  BY DEF CreateRow
<1>2. PagedTypes /\ walk \in WalkState /\ SeesInv /\ TwiceInv /\ WalkSeesAll
      /\ rows \in Seq(BOOLEAN)
  BY DEF PagedInv, PagedTypes
<1>3. /\ disturbed \subseteq disturbed'
      /\ walk.active => "created" \in disturbed'
      /\ (walk.active /\ Unspoilt') => walk.need # { "data" } /\ walk.need # { "total" }
  BY <1>1, <1>2, Remembered
<1>4. rows' \in Seq(BOOLEAN) /\ Len(rows') = Len(rows) + 1
  BY <1>1, <1>2, AppendProperties
<1>5. PagedTypes'
  <2>1. Len(rows') <= MaxRows
    BY <1>1, <1>2, <1>4, ListedRows, PagedAssumption
  <2> QED
    BY <1>1, <1>2, <1>4, <2>1 DEF PagedTypes
<1>6. Unspoilt' => Unspoilt
  BY <1>3 DEF Unspoilt
<1>7. ASSUME Unspoilt', walk.active, NEW i \in begun, got[i] = 0 PROVE Ahead(i)'
  <2>1. Ahead(i)
    BY <1>2, <1>6, <1>7 DEF SeesInv
  <2>2. i \in Listed /\ Place(i) \in Nat
    BY <1>2, <2>1, PlaceBounds DEF Ahead
  <2>3. i \in Listed' /\ Place(i)' = Place(i) + 1
    BY <1>1, <1>2, <2>2, PlaceAfterCreate
  <2>4. \A e \in Nat : Place(i) > e => Place(i)' > e
    BY <2>2, <2>3
  <2>5. walk.page * walk.limit \in Nat /\ (walk.page - 1) * walk.limit \in Nat
    BY <1>2, WalkNumbers
  <2> QED
    BY <1>1, <2>1, <2>3, <2>4, <2>5 DEF Ahead
<1>8. SeesInv'
  BY <1>1, <1>3, <1>7 DEF SeesInv
<1>9. TwiceInv'
  BY <1>1, <1>2, <1>3 DEF TwiceInv
<1>10. WalkSeesAll'
  BY <1>1, <1>2, <1>3 DEF WalkSeesAll
<1> QED
  BY <1>5, <1>8, <1>9, <1>10 DEF PagedInv

LEMMA DeleteKeepsPaged ==
  ASSUME NEW d \in DOMAIN rows PROVE PagedInv /\ DeleteRow(d) => PagedInv'
<1> SUFFICES ASSUME PagedInv, DeleteRow(d) PROVE PagedInv'
  OBVIOUS
<1>1. /\ rows' = [rows EXCEPT ![d] = FALSE]
      /\ walk' = walk /\ begun' = begun /\ got' = got
      /\ disturbed' = disturbed \cup During("deleted")
  BY DEF DeleteRow
<1>2. PagedTypes /\ walk \in WalkState /\ SeesInv /\ TwiceInv /\ WalkSeesAll
      /\ rows \in Seq(BOOLEAN)
  BY DEF PagedInv, PagedTypes
<1>3. /\ disturbed \subseteq disturbed'
      /\ walk.active => "deleted" \in disturbed'
  BY <1>1, <1>2, Remembered
<1>4. rows' \in Seq(BOOLEAN) /\ Len(rows') = Len(rows)
  BY <1>1, <1>2
<1>5. PagedTypes'
  BY <1>1, <1>2, <1>4 DEF PagedTypes
<1>6. walk.active => ~ Unspoilt'
  BY <1>3 DEF Unspoilt
<1>7. SeesInv'
  BY <1>1, <1>6 DEF SeesInv
<1>8. ASSUME NEW i, NEW e \in Nat, Before(i, e) PROVE Before(i, e)'
  <2>1. i \in Listed' => i \in Listed /\ Place(i)' \in Nat /\ Place(i)' <= Place(i)
    BY <1>1, <1>2, PlaceAfterDelete
  <2>2. i \in Listed => Place(i) \in Nat
    BY <1>2, PlaceBounds
  <2> QED
    BY <1>8, <2>1, <2>2 DEF Before
<1>9. TwiceInv'
  <2>1. walk.page * walk.limit \in Nat /\ (walk.page - 1) * walk.limit \in Nat
    BY <1>2, WalkNumbers
  <2>2. PICK skip \in Nat, end \in Nat :
          skip = (walk.page - 1) * walk.limit /\ end = walk.page * walk.limit
    BY <2>1
  <2>3. ASSUME "created" \notin disturbed', NEW i \in Rows
        PROVE  /\ got[i] <= 1
               /\ (walk.active /\ got[i] = 1) => Before(i, skip)'
               /\ (walk.active /\ i \in walk.data) => got[i] = 0 /\ Before(i, end)'
    <3>1. "created" \notin disturbed
      BY <1>3, <2>3
    <3> QED
      BY <1>2, <1>8, <2>2, <3>1 DEF TwiceInv
  <2> QED
    BY <1>1, <2>2, <2>3 DEF TwiceInv
<1>10. WalkSeesAll'
  BY <1>1, <1>2, <1>3 DEF WalkSeesAll
<1> QED
  BY <1>5, <1>7, <1>9, <1>10 DEF PagedInv

LEMMA StutterKeepsPaged == PagedInv /\ UNCHANGED pagedVars => PagedInv'
<1> SUFFICES ASSUME PagedInv, UNCHANGED pagedVars PROVE PagedInv'
  OBVIOUS
<1>1. /\ rows' = rows /\ walk' = walk /\ begun' = begun /\ got' = got
      /\ disturbed' = disturbed
  BY DEF pagedVars
<1>2. /\ Listed' = Listed /\ \A i : Place(i)' = Place(i)
  BY <1>1 DEF Listed, Place
<1>3. /\ Unspoilt' = Unspoilt /\ \A i : Ahead(i)' = Ahead(i)
      /\ \A i, e : Before(i, e)' <=> Before(i, e)
  BY <1>1, <1>2 DEF Unspoilt, Ahead, Before
<1>4. PagedTypes' /\ WalkSeesAll'
  BY <1>1 DEF PagedInv, PagedTypes, WalkSeesAll
<1>5. SeesInv'
  BY <1>1, <1>3 DEF PagedInv, SeesInv
<1>6. TwiceInv'
  BY <1>1, <1>3 DEF PagedInv, TwiceInv
<1> QED
  BY <1>4, <1>5, <1>6 DEF PagedInv

\* A client that follows the pages to the end is given everything, unless
\* documents are deleted on the way or a page and its total torn apart, and
\* nothing twice, unless documents are created: for any documents and limits
\* (findPaginated, base.repository.ts:22-41; pagination.util.ts:34-66).
THEOREM WalkAlwaysFaithful == PagedSpec => []WalkIsFaithful
<1>1. PagedInv /\ [PagedNext]_pagedVars => PagedInv'
  BY StartKeepsPaged, FindKeepsPaged, CountKeepsPaged, PageKeepsPaged, CreateKeepsPaged,
     DeleteKeepsPaged, StutterKeepsPaged DEF PagedNext
<1>2. PagedInv => WalkIsFaithful
  BY DEF PagedInv, TwiceInv, WalkIsFaithful, NothingTwice
<1> QED
  BY InitPaged, <1>1, <1>2, PTL DEF PagedSpec

=============================================================================
