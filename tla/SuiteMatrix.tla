---------------------------- MODULE SuiteMatrix ----------------------------
(***************************************************************************)
(* core::suite::SuiteExecution, the record a suite checkpoint holds: one   *)
(* cell per task and agent, and the operations that decide a cell or close *)
(* the run.  Fingerprints, agent names, repeat count and instruction mode  *)
(* are fixed when the record is made and are left out; of the timestamps   *)
(* only their order with created_at is kept, as the argument stamp.        *)
(***************************************************************************)
EXTENDS Naturals

CONSTANTS NTasks, NAgents, Groups, Commits, None

Cells == (1 .. NTasks) \X (1 .. NAgents)

(* Task-major, agent-minor: the order of the plan and of the checkpoint.   *)
Precedes(c, d) == c[1] < d[1] \/ (c[1] = d[1] /\ c[2] < d[2])

IsFirst(c, S) == c \in S /\ \A d \in S : d = c \/ Precedes(c, d)

Pending      == [status |-> "Pending", group |-> None]
Errored      == [status |-> "Error", group |-> None]
Completed(g) == [status |-> "Completed", group |-> g]

CellRecord ==
  [status : {"Pending", "Completed", "Error"}, group : Groups \cup {None}]

Finished == {"Completed", "CompletedWithErrors"}

Execution ==
  [status : {"Running", "Aborted"} \cup Finished,
   commit : Commits,
   cells  : [Cells -> CellRecord]]

NewExecution(commit) ==
  [status |-> "Running", commit |-> commit, cells |-> [c \in Cells |-> Pending]]

WithStatus(e, status) == {c \in Cells : e.cells[c].status = status}

PendingCells(e) == WithStatus(e, "Pending")

(* SuiteCell::validate: only a completed cell has a group.                 *)
ValidCell(cell) == (cell.status = "Completed") <=> (cell.group # None)

(* SuiteExecution::validate: the cells, the timestamps, and a status that  *)
(* agrees with the cells.                                                  *)
ValidExecution(e, stamp) ==
  /\ \A c \in Cells : ValidCell(e.cells[c])
  /\ stamp = "later"
  /\ e.status = "Completed" =>
       PendingCells(e) = {} /\ WithStatus(e, "Error") = {}
  /\ e.status = "CompletedWithErrors" =>
       PendingCells(e) = {} /\ WithStatus(e, "Error") # {}

(* complete_cell and error_cell: refused, with the record as it was,       *)
(* unless the run is Running, the cell Pending and the result valid.       *)
SetCell(e, c, cell) == [e EXCEPT !.cells[c] = cell]

CanSetCell(e, c, cell, stamp) ==
  /\ e.status = "Running"
  /\ c \in PendingCells(e)
  /\ ValidExecution(SetCell(e, c, cell), stamp)

(* mark_finished.                                                          *)
Finish(e) ==
  [e EXCEPT !.status = IF WithStatus(e, "Error") # {}
                         THEN "CompletedWithErrors" ELSE "Completed"]

CanFinish(e, stamp) ==
  /\ e.status = "Running"
  /\ PendingCells(e) = {}
  /\ ValidExecution(Finish(e), stamp)

(* mark_aborted.                                                           *)
AbortRun(e) == [e EXCEPT !.status = "Aborted"]

CanAbort(e, stamp) ==
  e.status = "Running" /\ ValidExecution(AbortRun(e), stamp)
=============================================================================
