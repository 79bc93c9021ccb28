SPECIFICATION WorldsSpec
CONSTANTS
  c1 = c1
  c2 = c2
  Call = {c1, c2}
  Reader = {r1}
  Customer = customer
  Provider = provider
  Admin = {a1, a2}
  Events <- AllEvents
  Overlap = FALSE
  Faults = FALSE
SYMMETRY Symmetry
INVARIANTS SendsAreWhole ToldUnlessFailed CountIsRight
PROPERTY ReadStays
