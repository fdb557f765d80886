\* Two calls of two runs each and every fault; HEAD moves.  The report of all
\* is made when nothing runs, a group is selected at any time.
SPECIFICATION Spec
CONSTANTS
  k1 = k1
  k2 = k2
  c1 = c1
  c2 = c2
  None = None
  Calls = {k1, k2}
  Commits = {c1, c2}
  Repeat = 2
  Racing = FALSE
  Faults = {"before", "after", "probe", "run", "kill"}
INVARIANTS
  GroupsHaveEvidence
  OkMeansCompleted
  AbortedListsItsRuns
  SelectionIsWhole
  ReportFindsItsRuns
PROPERTY
  GroupFilesMoveForward
