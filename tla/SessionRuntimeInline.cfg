CONSTANTS
  Owners = {a, b}
  t1 = t1
  NoOwner = NoOwner
  Opaque = "opaque"
  TTL = 2
  ClaimTTL = 1
  NoClaim = NoClaim
  Batches = {"wake"}
  Inputs = {}
  NextTurn = NextTurn
  Turns = {t1, t2}
  HostTurns = {}
  NoTurn = NoTurn
  MaxBatches = 2
  Durable = FALSE
  AtomicCommit = TRUE
  PluginAppends = TRUE
  MaxFence = 2
  MaxToken = 2
  MaxHead = 3
  Host <- MCHost
  KindOf <- MCKindOf
  IngressOf <- MCIngressOf
SPECIFICATION Spec
INVARIANTS NothingLost
SYMMETRY Symmetry
CHECK_DEADLOCK FALSE
