\* One process at a time, two cells, every fault, HEAD stays: what is kept
\* when writes fail and processes die, and that every process ends.
SPECIFICATION FairSpec
CONSTANTS
  p1 = p1
  p2 = p2
  c1 = c1
  None = None
  Procs = {p1, p2}
  Calls <- MCCalls
  Commits = {c1}
  NTasks = 2
  NAgents = 1
  Repeat = 1
  Overlap = FALSE
  Faults = {"before", "after", "probe", "run", "dir", "clock", "kill"}
INVARIANTS
  ReportedIsRecorded
  DoneMeansClosed
PROPERTIES
  DecisionsStay
  ImplementsLedger
  NeverRerunsATerminalCell
  ProcessesEnd
CHECK_DEADLOCK FALSE
