SPECIFICATION Spec
CONSTANTS
  Runners = {w1, w2}
  ReplayOnly = {}
  Keys <- MCKeys
  SleepKeys <- MCSleepKeys
  Envelopes = {h1, h2}
  Values = {v1, v2, slept}
  Slept = slept
  Nobody = Nobody
  EffectTtl = 2
  SleepTicks = 1
  Processes = {p1}
  LeaseTtl = 2
  Emitters = {e1}
  Requests = {q1}
  MaxFaults = 1
  MaxWakes = 1
  Usual = h1
INVARIANTS
  TypeOK
  EffectAgreement
  LostLeaseNotRecorded
  SleepHonoured
  OneTerminal
  OneAnswer
  WakeNotLost
PROPERTIES
  RecordedForever
  TerminalForever
  EventuallyTerminal
