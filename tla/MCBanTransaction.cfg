SPECIFICATION FairSpec
CONSTANTS
  w1 = w1
  w2 = w2
  w3 = w3
  s1 = s1
  photo = photo
  copy = copy
  gif = gif
  fa = fa
  fb = fb
  fc = fc
  ph = ph
  vh = vh
  av = av
  bv = bv
  NoKey = NoKey
  Workers = {w1, w2}
  Threads = {s1}
  Contents = {photo, copy, gif}
  NoContent = NoContent
  Tables <- MCTables
  Exact = 1
  AIVector = 4
  Keys = {fa, fb, fc, ph, vh, av, bv}
  KeyOf <- MCKeyOf
  MaxBans = 3
  MaxFailures = 1
INVARIANTS
  TypeOK
  SuccessMeansStored
  BansHaveArtifacts
  NoWaitCycle
PROPERTIES
  ImplementsAtomicBlacklist
  EveryBanReturns
CHECK_DEADLOCK FALSE
