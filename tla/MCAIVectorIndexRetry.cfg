SPECIFICATION Spec
CONSTANTS
  a = a
  b = b
  g1 = g1
  g2 = g2
  g3 = g3
  Services = {a}
  Signatures = {g1, g2}
  Bot = Bot
  Nobody = Nobody
  NoSignature = NoSignature
  NotLoaded = NotLoaded
  NoFile = NoFile
  BadFile = BadFile
  NoState = NoState
  MaxBans = 2
  MaxEvents = 2
  MaxFailures = 0
  MaxCrashes = 0
INVARIANTS
  AnsweredIsActive
CHECK_DEADLOCK FALSE
