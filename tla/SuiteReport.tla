---------------------------- MODULE SuiteReport ----------------------------
(***************************************************************************)
(* report::suite beside the processes of a suite run: the report command   *)
(* reads a checkpoint and then the groups its completed cells name, while  *)
(* processes go on, are killed or fail.  The report takes no step of the   *)
(* system: LoadSuiteReport says what it answers for a record e and the     *)
(* files of the moment.                                                    *)
(***************************************************************************)
EXTENDS SuiteRunner

(* validate_cell_group, validate_completed_group and the aggregate: the    *)
(* group is for this task and agent, Completed, pinned to the identity the *)
(* suite recorded, and has the suite's number of runs.                     *)
CellGroupMatches(e, c, g) ==
  /\ e.cells[c].group[2] = c
  /\ g.status = "Completed"
  /\ g.commit = e.commit
  /\ g.listed = Repeat

(* load_suite_report: load_selected_group and load_selection per completed *)
(* cell, in matrix order, then SuiteReport::new, which takes each group    *)
(* once.                                                                   *)
LoadSuiteReport(e) ==
  LET shown    == WithStatus(e, "Completed")
      group[c \in Cells] == e.cells[c].group
      absent   == {c \in shown : file[group[c]] = None}
      bare     == {c \in shown \ absent : ~HasRuns(group[c], file[group[c]].listed)}
  IN  IF absent \cup bare # {} THEN "not_found"
      ELSE IF \/ \E c, d \in shown : c # d /\ group[c] = group[d]
              \/ \E c \in shown : ~CellGroupMatches(e, c, file[group[c]])
        THEN "incompatible"
        ELSE "rendered"

-----------------------------------------------------------------------------
(* Whatever moment a suite run is looked at, its checkpoint can be         *)
(* reported: the report "revalidates task, agent, benchmark identity,      *)
(* instruction policy, requested/observed counts" and finds nothing amiss  *)
(* (docs/architecture.md), beside a second resume, after kills and after   *)
(* HEAD moved.  So finish, which reports an outcome the runner answered    *)
(* with, never fails for its evidence.                                     *)
CheckpointRenders ==
  /\ disk # None => LoadSuiteReport(disk) = "rendered"
  /\ \A p \in Procs : pc[p] = "done" => LoadSuiteReport(exec[p]) = "rendered"

(* No lock stands between the read of the checkpoint and the reads of its  *)
(* groups.  No step of any process, its own or another one's, makes a      *)
(* record that could be reported unreportable: not the one in the          *)
(* checkpoint, nor one that was read from it earlier and is kept, however  *)
(* often the checkpoint has been replaced since.                           *)
RenderedStaysRendered ==
  [][\A e \in ({disk} \cup {exec[p] : p \in Procs}) \ {None} :
       LoadSuiteReport(e) = "rendered" => (LoadSuiteReport(e) = "rendered")']_vars
=============================================================================
