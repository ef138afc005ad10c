CONSTANTS
  Owners = {a, b}
  t1 = t1
  NoOwner = NoOwner
  Opaque = "opaque"
  TTL = 2
  ClaimTTL = 1
  NoClaim = NoClaim
  Batches = {"wake"}
  Inputs = {"next"}
  NextTurn = NextTurn
  Turns = {t1, t2}
  HostTurns = {}
  NoTurn = NoTurn
  MaxBatches = 2
  Durable = TRUE
  AtomicCommit = TRUE
  PluginAppends = FALSE
  MaxFence = 2
  MaxToken = 2
  MaxHead = 4
  Host <- MCHost
  KindOf <- MCKindOf
  IngressOf <- MCIngressOf
SPECIFICATION Spec
INVARIANTS TypeOK NothingLost  
SYMMETRY Symmetry
CHECK_DEADLOCK FALSE
