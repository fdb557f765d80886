\* One setup and two verification commands, two instruction files, two deeds
\* of each kind of check, one instruction file rewritten by each command, and
\* every fault.
SPECIFICATION RunSpec
CONSTANTS
  NSetup = 1
  NVerify = 2
  NFiles = 2
  Deeds = {"ignored", "beyond", "tracked", "oddname", "escape", "head"}
  MaxDeeds = 2
  MaxEdits = 1
  Faults = {"before", "after", "probe", "dir", "worktree", "clock", "kill"}
INVARIANTS
  SuccessIsSound
  RecordTellsTheRun
  NothingLeftBehind
PROPERTIES
  VerifiedWithInstructions
  ImplementsPromise
CHECK_DEADLOCK FALSE
