\* Storage that works and no kill: a battle of two agents beside a run in
\* another terminal, while runs fail, HEAD moves and reports are made.
SPECIFICATION BattleSpec
CONSTANTS
  k1 = k1
  k2 = k2
  k3 = k3
  c1 = c1
  c2 = c2
  None = None
  Calls = {k1, k2, k3}
  Order <- MCOrder
  Commits = {c1, c2}
  Repeat = 1
  Racing = FALSE
  Faults = {"probe", "run", "dir"}
INVARIANTS
  NoOrphanRunning
  ReportRenders
  BattleHasEvidence
  CleanBattleIsFair
PROPERTY
  CallsReturn
CHECK_DEADLOCK FALSE
