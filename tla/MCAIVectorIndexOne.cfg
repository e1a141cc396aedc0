SPECIFICATION FairSpec
CONSTANTS
  a = a
  b = b
  g1 = g1
  g2 = g2
  g3 = g3
  Services = {a}
  Signatures = {g1, g2}
  Bot = Bot
  Nobody = Nobody
  NoSignature = NoSignature
  NotLoaded = NotLoaded
  NoFile = NoFile
  BadFile = BadFile
  NoState = NoState
  MaxBans = 2
  MaxEvents = 2
  MaxFailures = 1
  MaxCrashes = 1
INVARIANTS
  FailedBanForgotten
  AnsweredIsEnforced
PROPERTIES
  EveryEventApplied
CHECK_DEADLOCK FALSE
