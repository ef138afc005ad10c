SPECIFICATION Spec
CONSTANTS
  Clients = {c1, c2}
  MaxEvents = 2
  Capacity = 2
  MaxAge = 1
  MaxAppends = 4
  MaxLosses = 2
INVARIANTS
  TypeOK
  NoSilentGap
PROPERTIES
  GapIsReal
  CatchesUp
