\* No fault at all: what a run's processes leave behind decides whether the
\* run is recorded.
SPECIFICATION RunSpec
CONSTANTS
  NSetup = 1
  NVerify = 1
  NFiles = 1
  Deeds = {"ignored", "beyond", "tracked", "oddname", "big", "escape", "refs", "head"}
  MaxDeeds = 1
  MaxEdits = 1
  Faults = {}
INVARIANT
  EndsWithRecord
CHECK_DEADLOCK FALSE
