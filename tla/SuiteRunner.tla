---------------------------- MODULE SuiteRunner ----------------------------
(***************************************************************************)
(* SuiteRunner::execute and resume on one suite run.  A process is one     *)
(* invocation of the patcharena command line: the first executes the suite *)
(* and creates the checkpoint suite.json, the others resume it.  Each runs *)
(* the cells pending in its copy of the checkpoint one by one, through     *)
(* run_group of RunGroup.tla, and replaces the checkpoint after each cell. *)
(*                                                                         *)
(* A process attempts a cell at most once, so <<process, cell>> names the  *)
(* call of run_group and its group.  No lock guards a suite run: Overlap   *)
(* says whether a resume may start while another process is at work.       *)
(***************************************************************************)
EXTENDS RunGroup

CONSTANTS
  Procs,     \* the invocations of the command line
  NTasks,    \* the number of tasks of the suite
  NAgents,   \* the number of selected agents
  Overlap    \* whether invocations may overlap in time

INSTANCE SuiteMatrix WITH Groups <- Calls

(* What SuiteDefinition and SuiteRunner::new accept, and the cap of 1,000  *)
(* agent invocations that preflight and the checkpoint both check.         *)
ASSUME PlanAssumption ==
  /\ NTasks \in 1 .. 100
  /\ NAgents \in 1 .. 100
  /\ NTasks * NAgents * Repeat <= 1000
ASSUME CallsAssumption == Calls = Procs \X Cells
ASSUME OverlapAssumption == Overlap \in BOOLEAN
ASSUME NoRecordAssumption == None \notin Execution

VARIABLES
  disk,      \* what suite.json holds, None before it exists
  pc,        \* pc[p]: where process p is
  exec,      \* exec[p]: the process's copy of the execution
  todo,      \* todo[p]: the cells it has still to go through
  cur,       \* cur[p]: the cell it is at
  reported   \* the cells whose progress has been emitted

suiteVars == <<disk, pc, exec, todo, cur, reported>>
vars == <<groupVars, suiteVars>>

Idle   == {"new"}
Ended  == {"done", "failed"}
Labels == Idle \cup Ended \cup
          {"create", "loaded", "cells", "group", "store", "emit", "abort"}

Working(p) == pc[p] \notin Idle \cup Ended

Call(p) == <<p, cur[p]>>

-----------------------------------------------------------------------------
Init ==
  /\ GroupInit
  /\ disk = None
  /\ pc = [p \in Procs |-> "new"]
  /\ exec = [p \in Procs |-> None]
  /\ todo = [p \in Procs |-> {}]
  /\ cur = [p \in Procs |-> None]
  /\ reported = {}

Jump(p, label) == pc' = [pc EXCEPT ![p] = label]

(* The process exits with an error, or is killed: its memory is gone.      *)
Fail(p) ==
  /\ Jump(p, "failed")
  /\ exec' = [exec EXCEPT ![p] = None]
  /\ todo' = [todo EXCEPT ![p] = {}]
  /\ cur' = [cur EXCEPT ![p] = None]

(* validate_shared_basis: HEAD and the task's benchmark identity are read  *)
(* and compared with the plan.  A reading that fails counts as a change.   *)
BasisHolds(p) == head = exec[p].commit
BasisFails(p) == head # exec[p].commit \/ "probe" \in Faults

(* replace_checkpoint and save_new: the directory is inspected and the     *)
(* record validated, then it is written.                                   *)
Replace(e, outcome) ==
  disk' = IF Installed(outcome) /\ ValidExecution(e, "later") THEN e ELSE disk

Replaced(e, outcome) == outcome = "ok" /\ ValidExecution(e, "later")

-----------------------------------------------------------------------------
(* run_suite: preflight pins HEAD.  Another invocation of execute makes    *)
(* another suite run, so there is one here until the file exists.          *)
Preflight(p) ==
  /\ pc[p] = "new"
  /\ disk = None
  /\ \A q \in Procs : ~Working(q)
  /\ \/ /\ Jump(p, "create")
        /\ exec' = [exec EXCEPT ![p] = NewExecution(head)]
        /\ UNCHANGED <<todo, cur>>
     \/ "probe" \in Faults /\ Fail(p)
  /\ UNCHANGED <<groupVars, disk, reported>>

(* create_checkpoint: the plan is validated once more, then suite.json is  *)
(* created; execute_pending inspects it and lists the pending cells.       *)
CreateCheckpoint(p) ==
  /\ pc[p] = "create"
  /\ \/ /\ BasisHolds(p)
        /\ \E outcome \in WriteOutcomes :
             /\ Replace(exec[p], outcome)
             /\ IF Replaced(exec[p], outcome)
                  THEN /\ Jump(p, "cells")
                       /\ todo' = [todo EXCEPT ![p] = PendingCells(exec[p])]
                       /\ UNCHANGED <<exec, cur>>
                  ELSE Fail(p)
     \/ /\ BasisFails(p) \/ "dir" \in Faults
        /\ Fail(p)
        /\ UNCHANGED disk
  /\ UNCHANGED <<groupVars, reported>>

(* Mutation: resume takes up a run whatever its status.                    *)
MutLoad(p) ==
  /\ pc[p] = "new"
  /\ disk # None
  /\ Overlap \/ \A q \in Procs : ~Working(q)
  /\ Jump(p, "loaded")
  /\ exec' = [exec EXCEPT ![p] = [disk EXCEPT !.status = "Running"]]
  /\ UNCHANGED <<groupVars, disk, todo, cur, reported>>

(* load_execution: the checkpoint is read once, into the process; only a   *)
(* Running one can be resumed.                                             *)
Load(p) ==
  /\ pc[p] = "new"
  /\ disk # None
  /\ Overlap \/ \A q \in Procs : ~Working(q)
  /\ IF disk.status = "Running"
       THEN /\ Jump(p, "loaded")
            /\ exec' = [exec EXCEPT ![p] = disk]
            /\ UNCHANGED <<todo, cur>>
       ELSE Fail(p)
  /\ UNCHANGED <<groupVars, disk, reported>>

(* Mutation: resume runs every cell of the plan again.                     *)
MutRevalidate(p) ==
  /\ pc[p] = "loaded"
  /\ BasisHolds(p)
  /\ Jump(p, "cells")
  /\ todo' = [todo EXCEPT ![p] = Cells]
  /\ UNCHANGED <<groupVars, disk, exec, cur, reported>>

(* resume: preflight again, and the plan must be the recorded one.  When   *)
(* it is not, the checkpoint is left as it is.                             *)
Revalidate(p) ==
  /\ pc[p] = "loaded"
  /\ \/ /\ BasisHolds(p)
        /\ Jump(p, "cells")
        /\ todo' = [todo EXCEPT ![p] = PendingCells(exec[p])]
        /\ UNCHANGED <<exec, cur>>
     \/ /\ BasisFails(p) \/ "dir" \in Faults
        /\ Fail(p)
  /\ UNCHANGED <<groupVars, disk, reported>>

(* Mutation: the pending cells are taken in no particular order.           *)
MutStartCell(p) ==
  /\ pc[p] = "cells"
  /\ \E c \in todo[p] : cur' = [cur EXCEPT ![p] = c]
  /\ \/ BasisHolds(p) /\ Jump(p, "group")
     \/ BasisFails(p) /\ Jump(p, "abort")
  /\ UNCHANGED <<groupVars, disk, exec, todo, reported>>

(* The top of the loop of execute_pending: the basis is checked before the *)
(* group.  An artifact directory that ArenaRunner::new cannot prepare ends *)
(* the process and leaves the checkpoint Running.                          *)
StartCell(p) ==
  /\ pc[p] = "cells"
  /\ \E c \in todo[p] :
       /\ IsFirst(c, todo[p])
       /\ \/ /\ BasisHolds(p) /\ Jump(p, "group")
             /\ cur' = [cur EXCEPT ![p] = c]
             /\ UNCHANGED <<exec, todo>>
          \/ /\ BasisFails(p) /\ Jump(p, "abort")
             /\ cur' = [cur EXCEPT ![p] = c]
             /\ UNCHANGED <<exec, todo>>
          \/ BasisHolds(p) /\ "dir" \in Faults /\ Fail(p)
  /\ UNCHANGED <<groupVars, disk, reported>>

(* run_group at work for this process.                                     *)
RunCell(p) ==
  /\ pc[p] = "group"
  /\ Begin(Call(p)) \/ Advance(Call(p))
  /\ UNCHANGED suiteVars

GroupReturned(p) == pc[p] = "group" /\ gpc[Call(p)] \in Returned

(* After the group the basis is checked again, whatever the group said.    *)
BasisChanged(p) ==
  /\ GroupReturned(p)
  /\ BasisFails(p)
  /\ Jump(p, "abort")
  /\ UNCHANGED <<groupVars, disk, exec, todo, cur, reported>>

(* Mutation: the group's own benchmark identity is not looked at.          *)
MutCellCompletes(p) ==
  /\ GroupReturned(p)
  /\ BasisHolds(p)
  /\ gpc[Call(p)] = "ok"
  /\ Jump(p, "store")
  /\ exec' = [exec EXCEPT ![p] = SetCell(exec[p], cur[p], Completed(Call(p)))]
  /\ UNCHANGED <<groupVars, disk, todo, cur, reported>>

(* validate_group and complete_cell; a refusal of either aborts the run.   *)
CellCompletes(p) ==
  /\ GroupReturned(p)
  /\ BasisHolds(p)
  /\ gpc[Call(p)] = "ok"
  /\ \E stamp \in Stamps :
       LET cell == Completed(Call(p))
       IN  IF mem[Call(p)].commit = exec[p].commit
              /\ CanSetCell(exec[p], cur[p], cell, stamp)
           THEN /\ Jump(p, "store")
                /\ exec' = [exec EXCEPT ![p] = SetCell(exec[p], cur[p], cell)]
           ELSE Jump(p, "abort") /\ UNCHANGED exec
  /\ UNCHANGED <<groupVars, disk, todo, cur, reported>>

(* Mutation: a cell whose group failed is attempted again.                 *)
MutCellErrs(p) ==
  /\ GroupReturned(p)
  /\ BasisHolds(p)
  /\ gpc[Call(p)] # "ok"
  /\ Jump(p, "cells")
  /\ UNCHANGED <<groupVars, disk, exec, todo, cur, reported>>

(* error_cell; a refusal ends the process.                                 *)
CellErrs(p) ==
  /\ GroupReturned(p)
  /\ BasisHolds(p)
  /\ gpc[Call(p)] # "ok"
  /\ \E stamp \in Stamps :
       IF CanSetCell(exec[p], cur[p], Errored, stamp)
       THEN /\ Jump(p, "store")
            /\ exec' = [exec EXCEPT ![p] = SetCell(exec[p], cur[p], Errored)]
            /\ UNCHANGED <<todo, cur>>
       ELSE Fail(p)
  /\ UNCHANGED <<groupVars, disk, reported>>

(* Mutation: progress is emitted even when the replacement failed.         *)
MutStore(p) ==
  /\ pc[p] = "store"
  /\ \E outcome \in WriteOutcomes : Replace(exec[p], outcome)
  /\ Jump(p, "emit")
  /\ UNCHANGED <<groupVars, exec, todo, cur, reported>>

(* replace_checkpoint after the cell.                                      *)
Store(p) ==
  /\ pc[p] = "store"
  /\ \E outcome \in WriteOutcomes :
       /\ Replace(exec[p], outcome)
       /\ IF Replaced(exec[p], outcome)
            THEN Jump(p, "emit") /\ UNCHANGED <<exec, todo, cur>>
            ELSE Fail(p)
  /\ UNCHANGED <<groupVars, reported>>

(* emit_progress, and on to the next cell.                                 *)
Emit(p) ==
  /\ pc[p] = "emit"
  /\ reported' = reported \cup {cur[p]}
  /\ Jump(p, "cells")
  /\ todo' = [todo EXCEPT ![p] = @ \ {cur[p]}]
  /\ UNCHANGED <<groupVars, disk, exec, cur>>

(* Mutation: the run is closed before its last cells were recorded.        *)
MutFinishRun(p) ==
  /\ pc[p] = "cells"
  /\ todo[p] = {}
  /\ Jump(p, "done")
  /\ exec' = [exec EXCEPT ![p] = Finish(exec[p])]
  /\ UNCHANGED <<groupVars, disk, todo, cur, reported>>

(* mark_finished and the last replacement.                                 *)
FinishRun(p) ==
  /\ pc[p] = "cells"
  /\ todo[p] = {}
  /\ \E stamp \in Stamps, outcome \in WriteOutcomes :
       IF CanFinish(exec[p], stamp)
       THEN /\ Replace(Finish(exec[p]), outcome)
            /\ IF Replaced(Finish(exec[p]), outcome)
                 THEN /\ Jump(p, "done")
                      /\ exec' = [exec EXCEPT ![p] = Finish(exec[p])]
                      /\ UNCHANGED <<todo, cur>>
                 ELSE Fail(p)
       ELSE Fail(p) /\ UNCHANGED disk
  /\ UNCHANGED <<groupVars, reported>>

(* Mutation: the aborted run is not written back.                          *)
MutAbortCheckpoint(p) ==
  /\ pc[p] = "abort"
  /\ Fail(p)
  /\ UNCHANGED <<groupVars, disk, reported>>

(* Mutation: an aborted run takes the groups of its cells with it.         *)
MutAbortCheckpointCleans(p) ==
  /\ pc[p] = "abort"
  /\ disk' = IF CanAbort(exec[p], "later") THEN AbortRun(exec[p]) ELSE disk
  /\ file' = NoGroup
  /\ Fail(p)
  /\ UNCHANGED <<head, results, gpc, mem, reported>>

(* abort_checkpoint: mark_aborted and a replacement; the process fails     *)
(* either way.                                                             *)
AbortCheckpoint(p) ==
  /\ pc[p] = "abort"
  /\ \E stamp \in Stamps, outcome \in WriteOutcomes :
       IF CanAbort(exec[p], stamp)
         THEN Replace(AbortRun(exec[p]), outcome) ELSE UNCHANGED disk
  /\ Fail(p)
  /\ UNCHANGED <<groupVars, reported>>

(* The process is killed, and with it the group it was running.            *)
Kill(p) ==
  /\ "kill" \in Faults
  /\ Working(p)
  /\ \/ pc[p] = "group" /\ Die(Call(p))
     \/ /\ pc[p] = "group" => gpc[Call(p)] \notin Active
        /\ UNCHANGED groupVars
  /\ Fail(p)
  /\ UNCHANGED <<disk, reported>>

Step(p) ==
  \/ CreateCheckpoint(p) \/ Revalidate(p) \/ StartCell(p) \/ RunCell(p)
  \/ BasisChanged(p) \/ CellCompletes(p) \/ CellErrs(p)
  \/ Store(p) \/ Emit(p) \/ FinishRun(p) \/ AbortCheckpoint(p)

Next ==
  \/ \E p \in Procs : Preflight(p) \/ Load(p) \/ Step(p) \/ Kill(p)
  \/ MoveHead /\ UNCHANGED suiteVars

Spec == Init /\ [][Next]_vars

(* A process that was started goes on until it ends.  What it waits for    *)
(* are storage, the children that execute_process bounds and Git; nothing  *)
(* bounds Git, whose processes "do not currently have a separate deadline" *)
(* (docs/threat-model.md), so that all three return is an assumption.      *)
FairSpec == Spec /\ \A p \in Procs : WF_vars(Step(p))

-----------------------------------------------------------------------------
(* The values the variables take.                                          *)
TypeOK ==
  /\ GroupTypeOK
  /\ disk \in Execution \cup {None}
  /\ pc \in [Procs -> Labels]
  /\ exec \in [Procs -> Execution \cup {None}]
  /\ todo \in [Procs -> SUBSET Cells]
  /\ cur \in [Procs -> Cells \cup {None}]
  /\ reported \subseteq Cells

(* The group a cell names was run for that cell at the commit of the       *)
(* suite, is Completed on disk and has every result in place: a report can *)
(* always be rebuilt from it.                                              *)
HasEvidence(e, c) ==
  LET k == e.cells[c].group
  IN  /\ k \in Calls /\ k[2] = c
      /\ file[k] # None
      /\ file[k].status = "Completed"
      /\ file[k].commit = e.commit
      /\ HasRuns(k, Repeat)

Evidenced(e) ==
  e # None => \A c \in WithStatus(e, "Completed") : HasEvidence(e, c)

(* A completed cell of the checkpoint, or of the copy any process works    *)
(* on, has its evidence on disk: whatever write fails, process dies or     *)
(* HEAD moves, and even when two processes resume the same run.            *)
CompletedCellsHaveEvidence ==
  Evidenced(disk) /\ \A p \in Procs : Evidenced(exec[p])

(* A cell whose progress line was printed is decided in the checkpoint:    *)
(* progress is emitted "only after durable checkpoint writes" (CHANGELOG). *)
ReportedIsRecorded ==
  \A c \in reported : disk # None /\ disk.cells[c].status # "Pending"

(* run_suite and resume answer Ok only for a run the checkpoint closes.    *)
DoneMeansClosed ==
  \A p \in Procs : pc[p] = "done" => disk = exec[p] /\ disk.status \in Finished

(* A decided cell of the checkpoint keeps its outcome, and a closed        *)
(* checkpoint keeps its status.                                            *)
DecisionsStay ==
  [][disk # None =>
       /\ disk' # None
       /\ \A c \in Cells \ PendingCells(disk) : disk'.cells[c] = disk.cells[c]
       /\ disk.status # "Running" => disk' = disk]_vars

(* Resume "never reruns a terminal cell" (docs/architecture.md): a group   *)
(* is begun only for a cell that is pending in the checkpoint.             *)
NeverRerunsATerminalCell ==
  [][\A k \in Calls : gpc[k] = "idle" /\ gpc'[k] # "idle" =>
       disk # None /\ k[2] \in PendingCells(disk)]_vars

(* The checkpoint behaves as the ledger of SuiteLedger.tla.                *)
Ledger == INSTANCE SuiteLedger WITH ledger <- disk, Groups <- Calls

ImplementsLedger == Ledger!LedgerSpec

(* A process that was started ends, where storage, Git and the children it *)
(* waits for return.                                                       *)
ProcessesEnd == \A p \in Procs : Working(p) ~> ~Working(p)

(* While storage and Git work and return, whatever benchmark runs fail and *)
(* however HEAD moves, a checkpoint that was created is closed: Completed, *)
(* CompletedWithErrors or Aborted.                                         *)
CheckpointCloses == disk # None ~> disk # None /\ disk.status # "Running"
=============================================================================
