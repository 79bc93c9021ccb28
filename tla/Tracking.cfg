SPECIFICATION WorldsSpec
CONSTANTS
  p1 = p1
  p2 = p2
  s1 = s1
  s2 = s2
  sc = sc
  Provider = {p1, p2}
  NoProvider = none
  Customer = customer
  Socket = {s1, s2, sc}
  Owner <- OwnerOf
  Handler = {h1, h2}
  Interval = 2
  Overlap = FALSE
  MaxTime = 7
SYMMETRY Symmetry
INVARIANTS OnlyTheEntitled StoredKeepsUp
