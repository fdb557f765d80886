\* Two creators and one replacement of one path, any step fails, calls are
\* killed and the power goes off.
SPECIFICATION Spec
CONSTANTS
  w1 = w1
  w2 = w2
  w3 = w3
  None = None
  Writers = {w1, w2, w3}
  Creators = {w1, w2}
  FreshParent = FALSE
INVARIANTS
  NeverTorn
  AcknowledgedStays
  CreatorsNeverReplace
  AnswersAreOutcomes
CHECK_DEADLOCK FALSE
