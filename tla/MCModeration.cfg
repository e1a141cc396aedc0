\* Two workers, three messages of every shape, a repeated one, one failure.
CONSTANTS
  w1 = w1  w2 = w2  c1 = c1
  Workers = {w1, w2}
  Contents = {c1}
  NoContent = NoContent
  MaxMessages = 3
  MaxRepeats = 1
  MaxDeletions = 1
  MaxFailures = 1
SPECIFICATION Spec
SYMMETRY Symmetry
CHECK_DEADLOCK FALSE
INVARIANTS TypeOK NothingRemovedUnbanned CommandGoesLast AcknowledgedIsEnforced
PROPERTIES NothingBlockedRemains
