SPECIFICATION Spec
CONSTANTS
  a = a
  b = b
  g1 = g1
  g2 = g2
  g3 = g3
  Services = {a, b}
  Signatures = {g1, g2}
  Bot = Bot
  Nobody = Nobody
  NoSignature = NoSignature
  NotLoaded = NotLoaded
  NoFile = NoFile
  BadFile = BadFile
  NoState = NoState
  MaxBans = 2
  MaxEvents = 1
  MaxFailures = 0
  MaxCrashes = 1
SYMMETRY Symmetry
INVARIANTS
  TypeOK
  VectorsMatchRefs
  AppliedInIndex
CHECK_DEADLOCK FALSE
