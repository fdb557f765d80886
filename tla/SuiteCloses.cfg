\* Storage and Git work; runs fail and HEAD moves: the checkpoint is closed.
SPECIFICATION FairSpec
CONSTANTS
  p1 = p1
  c1 = c1
  c2 = c2
  None = None
  Procs = {p1}
  Calls <- MCCalls
  Commits = {c1, c2}
  NTasks = 2
  NAgents = 2
  Repeat = 1
  Overlap = FALSE
  Faults = {"run"}
PROPERTY
  CheckpointCloses
