---------------------------- MODULE Environment ----------------------------
(***************************************************************************)
(* What the world around PatchArena may do to one call: the faults a run   *)
(* of the model admits, and the outcomes they give to a file write and to  *)
(* a clock reading.  The modules that model the runner extend this one, so *)
(* that one constant decides in which world a property is checked.         *)
(***************************************************************************)
CONSTANT Faults   \* the kinds of fault that may happen

FaultKinds ==
  { "before",   \* a file write, or a check made just before it, fails and
                \* leaves the file as it was
    "after",    \* a file write, or a check made just after it, fails once
                \* the new file is in place
    "probe",    \* a Git inspection fails, or finds tracked files dirty or
                \* the task files of a suite edited since its checkpoint
    "run",      \* one benchmark run ends in an orchestration error
    "dir",      \* an artifact directory cannot be prepared
    "worktree", \* Git cannot add, remove or prune a worktree, or a file in
                \* it cannot be put back
    "clock",    \* the wall clock steps back behind the creation time
    "kill" }    \* the process is killed between two steps

ASSUME FaultsAssumption == Faults \subseteq FaultKinds

-----------------------------------------------------------------------------
(* The outcomes of core::fs::atomic_write.  AtomicFile.tla models its      *)
(* steps and shows that these are the outcomes a caller can see.           *)

WriteOutcomes == {"ok"} \cup (Faults \cap {"before", "after"})

(* Every step up to the rename leaves the old file; sync_parent, the only  *)
(* step after it, can still turn the call into an error.                   *)
Installed(outcome) == outcome \in {"ok", "after"}

(* A reading of Utc::now() is only ever compared with created_at.          *)
Stamps == {"later"} \cup (IF "clock" \in Faults THEN {"earlier"} ELSE {})
=============================================================================
