\* A resume may start while another process is at work, and HEAD moves and
\* moves back; runs and Git inspections fail, processes are killed.
SPECIFICATION Spec
CONSTANTS
  p1 = p1
  p2 = p2
  c1 = c1
  c2 = c2
  None = None
  Procs = {p1, p2}
  Calls <- MCCalls
  Commits = {c1, c2}
  NTasks = 2
  NAgents = 1
  Repeat = 1
  Overlap = TRUE
  Faults = {"probe", "run", "kill"}
INVARIANTS
  CompletedCellsHaveEvidence
  CheckpointRenders
PROPERTY
  RenderedStaysRendered
