SPECIFICATION Spec
CONSTANTS
  Name = {n1, n2, n3}
  Id = {d1, d2, d3}
  URL = {u1, u2}
  None = None
  IdSlots = 2
  StreamSlots = 2
  TTL = 2
  Interactive = FALSE
SYMMETRY Symmetry
PROPERTY StreamHitsAreGood
PROPERTY IdHitsAreTrue
