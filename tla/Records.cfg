SPECIFICATION PartsSpec
CONSTANTS
  x1 = x1
  x2 = x2
  d1 = d1
  d2 = d2
  Vehicle = {e1, e2, e3}
  Plate = {d1, d2}
  VehicleCall = {x1, x2}
  NoVehicle = NoVehicle
  NoPlate = NoPlate
  VehicleOverlap = FALSE
  VehicleFaults = TRUE
  Owner = {o1, o2}
  Details = {d1, d2}
  NoDetails = NoDetails
  ProfileCall = {x1, x2}
  NoOwner = NoOwner
  Apart = TRUE
  ProfileFaults = TRUE
  Candidate = {e1, e2, e3}
  Issue = {"ACCIDENT", "OVERHEATING"}
  SearchRadius = 2
  Limit = 2
  Distance = {1, 2, 3}
  Reach = {1, 3}
  MaxEdits = 1
  Word = {"accident", "smoke", "fuel", "battery", "flat", "ev", "engine"}
  MAX_LIMIT = 2
  Limits = {0, 2, 3}
  MaxRows = 4
SYMMETRY Symmetry
INVARIANTS PrimaryIsTheChoice KeeperKeepsOrder BankDetailsSafe ToldIsStored NearestIsChosen DiagnosisHolds WalkIsFaithful
PROPERTY DeletedStaysDeleted
CHECK_DEADLOCK FALSE
