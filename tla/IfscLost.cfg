SPECIFICATION ProfileSpec
CONSTANTS
  Owner = {o1, o2}
  Details = {d1, d2}
  NoDetails = NoDetails
  ProfileCall = {c1, c2}
  NoOwner = NoOwner
  Apart = TRUE
  ProfileFaults = FALSE
INVARIANT IfscReadable
