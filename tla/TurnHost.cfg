CONSTANTS
  Owners = {a}
  Host <- MCHost
  NoOwner = NoOwner
  Opaque = "opaque"
  TTL = 1
  ClaimTTL = 1
  NoClaim = NoClaim
  MaxTurns = 2
  SyncEnvironment = TRUE
  MaxBatches = 2
  MergeKeys = {"default", "group"}
  Batches <- MCBatches
  ToolOutcomes = {"ok", "retryable", "finish"}
  ExecOutcomes = {"ran", "mismatch", "finish"}
  MaxCrashes = 1
  MaxLen = 3
SPECIFICATION MCSpec
INVARIANTS TypeOK NoReplayConflict AnsweredAll  EventsOnce TurnLimit SerialAlone OneGroupPerClaim ClaimIsMaximal IdleRunnerProgress
PROPERTY TurnEnds
CHECK_DEADLOCK FALSE
