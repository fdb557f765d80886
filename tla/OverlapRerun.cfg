\* A resume may start while another process is at work.
SPECIFICATION FairSpec
CONSTANTS
  p1 = p1
  p2 = p2
  c1 = c1
  None = None
  Procs = {p1, p2}
  Calls <- MCCalls
  Commits = {c1}
  NTasks = 1
  NAgents = 1
  Repeat = 1
  Overlap = TRUE
  Faults = {}
PROPERTY
  NeverRerunsATerminalCell
CHECK_DEADLOCK FALSE
