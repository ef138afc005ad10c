CONSTANTS
  a = a
  b = b
  c = c
  Owners <- MCOwners
  Host <- MCHost
  NoOwner = NoOwner
  Opaque = "opaque"
  TTL = 2
  MaxFence = 2
  PluginAppends = TRUE
SPECIFICATION Spec
INVARIANTS LaneExclusive
CHECK_DEADLOCK FALSE
