\* A child with a group member and an escaped descendant, input, and a limit
\* that one stream alone can reach; the group may resist the kill.
SPECIFICATION Spec
CONSTANTS
  Members = {"member"}
  Escaped = {"escaped"}
  Limit = 2
  Chunk = 2
  MaxBytes = 2
  HasInput = TRUE
  KillFails = TRUE
INVARIANTS
  RetainedWithinLimit
  NothingLostSilently
  NoMemberSurvives
  SuccessIsTheChilds
PROPERTY
  CallEnds
CHECK_DEADLOCK FALSE
