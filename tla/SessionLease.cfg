CONSTANTS
  a = a
  b = b
  c = c
  Owners <- MCOwners
  Host <- MCHost
  NoOwner = NoOwner
  Opaque = "opaque"
  TTL = 2
  MaxFence = 3
  PluginAppends = FALSE
SPECIFICATION FairSpec
INVARIANTS TypeOK LaneExclusive
PROPERTIES NeverStolenFromLiving LaneRefinement DeadHolderReplaced DroppedLeaseReplaced
CHECK_DEADLOCK FALSE
