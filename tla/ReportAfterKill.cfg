\* A kill between two writes of one call, then the report.
SPECIFICATION Spec
CONSTANTS
  k1 = k1
  k2 = k2
  c1 = c1
  None = None
  Calls = {k1, k2}
  Commits = {c1}
  Repeat = 2
  Racing = FALSE
  Faults = {"kill"}
INVARIANT
  ReportRenders
CHECK_DEADLOCK FALSE
