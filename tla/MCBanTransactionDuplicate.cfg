SPECIFICATION Spec
CONSTANTS
  w1 = w1
  w2 = w2
  w3 = w3
  s1 = s1
  photo = photo
  copy = copy
  gif = gif
  fa = fa
  fb = fb
  fc = fc
  ph = ph
  vh = vh
  av = av
  bv = bv
  NoKey = NoKey
  Workers = {w1, w2}
  Threads = {}
  Contents = {photo, copy, gif}
  NoContent = NoContent
  Tables <- MCTables
  Exact = 1
  AIVector = 4
  Keys = {fa, fb, fc, ph, vh, av, bv}
  KeyOf <- MCKeyOf
  MaxBans = 2
  MaxFailures = 0
INVARIANTS
  BanSucceedsWithoutFailure
CHECK_DEADLOCK FALSE
