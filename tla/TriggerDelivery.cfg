SPECIFICATION Spec
CONSTANTS
  Runners = {w1}
  ReplayOnly = {}
  Keys <- MCKeys
  SleepKeys <- MCSleepKeys
  Envelopes = {h1}
  Values = {v1, slept}
  Slept = slept
  Nobody = Nobody
  EffectTtl = 2
  SleepTicks = 1
  Processes = {p1}
  LeaseTtl = 2
  Emitters = {e1}
  Requests = {q1, q2}
  MaxFaults = 1
  MaxWakes = 1
  Usual = h1
INVARIANT EmitMeansStarted
CHECK_DEADLOCK FALSE
