SPECIFICATION Spec
CONSTANTS
  w1 = w1
  w2 = w2
  c1 = c1
  c2 = c2
  Workers = {w1}
  Chats = {c1, c2}
  Handlers <- AllHandlers
  Uploads <- SomeUploads
  Threshold <- AtMostOneBit
  Rule <- TwoFramesAndMost
  Limits <- SmallLimits
  MaxFrames = 4
  MaxFiles = 3
  MaxBans = 2
  MaxFaults = 1
SYMMETRY ChatSymmetry
INVARIANTS
  TypeOK
  MatchingInvariant
  VerdictSound
  RecognisableIsCaught
PROPERTIES
  BlockedStaysBlocked
CHECK_DEADLOCK FALSE
