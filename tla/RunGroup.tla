------------------------------ MODULE RunGroup ------------------------------
(***************************************************************************)
(* ArenaRunner::run_group and the record it keeps: a group of Repeat       *)
(* benchmark runs for one task and agent.  A call creates                  *)
(* groups/<uuid>.json in state Running, replaces it after each persisted   *)
(* run and marks it Completed at the end; a handled failure marks it       *)
(* Aborted.  Each run leaves runs/<uuid>/result.json.                      *)
(*                                                                         *)
(* A call makes one group and gives UUIDs to it and to its runs, so a call *)
(* names its group and <<call, i>> names the run of its i-th iteration.    *)
(* What happens inside a run (RunOnce) is one step here: either its        *)
(* result.json is in place and the run returned, or it returned an error.  *)
(***************************************************************************)
EXTENDS Environment, Naturals

CONSTANTS
  Calls,     \* the calls of run_group, each of which makes one group
  Repeat,    \* the number of runs a group requests
  Commits,   \* the values the repository's HEAD may take
  None       \* no file, no commit

ASSUME RepeatAssumption == Repeat \in 1 .. 1000

VARIABLES
  head,      \* the commit HEAD resolves to
  file,      \* file[k]: what groups/<k>.json holds, None when it is absent
  results,   \* the runs whose result.json is in place
  gpc,       \* gpc[k]: where the call is
  mem        \* mem[k]: the call's own copy of its group

groupVars == <<head, file, results, gpc, mem>>

(* The status and the number of run_ids; the i-th of them is <<k, i>>.     *)
GroupStatus == {"Running", "Completed", "Aborted"}

Group == [status : GroupStatus, listed : 0 .. Repeat, commit : Commits \cup {None}]

ASSUME NoneAssumption == None \notin Commits /\ None \notin Group

NewGroup == [status |-> "Running", listed |-> 0, commit |-> None]

Returned == {"ok", "err", "aborted"}
Active   == {"create", "run", "save", "complete", "abort"}

NoGroup == [k \in Calls |-> None]

-----------------------------------------------------------------------------
GroupInit ==
  /\ head \in Commits
  /\ file = NoGroup
  /\ results = {}
  /\ gpc = [k \in Calls |-> "idle"]
  /\ mem = [k \in Calls |-> NewGroup]

Goto(k, label) == gpc' = [gpc EXCEPT ![k] = label]

(* A call that fails drops its copy of the group.                          *)
Quit(k, label) ==
  /\ Goto(k, label)
  /\ mem' = [mem EXCEPT ![k] = NewGroup]

(* RunGroup::validate on what the model keeps of a group.                  *)
ValidGroup(g) ==
  /\ g.listed <= Repeat
  /\ g.status = "Completed" => g.listed = Repeat

(* save_new and save_replace: the group is validated, then written; the    *)
(* call answers Ok only when both went well.                               *)
Save(k, g, outcome) ==
  file' = IF Installed(outcome) /\ ValidGroup(g)
            THEN [file EXCEPT ![k] = g] ELSE file

Saved(g, outcome) == outcome = "ok" /\ ValidGroup(g)

(* The checks before the group exists: a clean tree, HEAD and the          *)
(* benchmark identity, which pins the commit all runs use.                 *)
Begin(k) ==
  /\ gpc[k] = "idle"
  /\ \/ /\ mem' = [mem EXCEPT ![k].commit = head]
        /\ Goto(k, "create")
     \/ /\ "probe" \in Faults
        /\ Quit(k, "err")
  /\ UNCHANGED <<head, file, results>>

(* group.save_new(...)?: an error here is not turned into GroupAborted.    *)
Create(k) ==
  /\ gpc[k] = "create"
  /\ \E outcome \in WriteOutcomes :
       /\ Save(k, mem[k], outcome)
       /\ IF Saved(mem[k], outcome) THEN Goto(k, "run") /\ UNCHANGED mem
                                    ELSE Quit(k, "err")
  /\ UNCHANGED <<head, results>>

(* Mutation: the run is listed before its result is known to be in place.  *)
MutRunReturns(k) ==
  /\ gpc[k] = "run"
  /\ mem' = [mem EXCEPT ![k].listed = @ + 1]
  /\ Goto(k, "save")
  /\ \E outcome \in WriteOutcomes :
       results' = IF Installed(outcome)
                    THEN results \cup {<<k, mem[k].listed + 1>>} ELSE results
  /\ UNCHANGED <<head, file>>

(* run_once returned its result, already written by save_new; push_run_id  *)
(* lists the run in the call's copy, or refuses it and the group aborts.   *)
RunReturns(k) ==
  /\ gpc[k] = "run"
  /\ results' = results \cup {<<k, mem[k].listed + 1>>}
  /\ IF mem[k].status = "Running" /\ mem[k].listed < Repeat
       THEN mem' = [mem EXCEPT ![k].listed = @ + 1] /\ Goto(k, "save")
       ELSE Goto(k, "abort") /\ UNCHANGED mem
  /\ UNCHANGED <<head, file>>

(* Mutation: an error of run_once is passed on as it is.                   *)
MutRunFails(k) ==
  /\ gpc[k] = "run"
  /\ "run" \in Faults
  /\ Quit(k, "err")
  /\ UNCHANGED <<head, file, results>>

(* Mutation: a group whose run failed is started over.                     *)
MutRunFailsRestart(k) ==
  /\ gpc[k] = "run"
  /\ "run" \in Faults
  /\ mem' = [mem EXCEPT ![k].listed = 0]
  /\ Goto(k, "create")
  /\ UNCHANGED <<head, file, results>>

(* Mutation: a run writes its result before the last step that can fail.   *)
MutRunFailsLate(k) ==
  /\ gpc[k] = "run"
  /\ "run" \in Faults
  /\ results' = results \cup {<<k, mem[k].listed + 1>>}
  /\ Goto(k, "abort")
  /\ UNCHANGED <<head, file, mem>>

(* run_once failed: before its result was in place, or in the very write   *)
(* that put it there.                                                      *)
RunFails(k) ==
  /\ gpc[k] = "run"
  /\ \/ /\ Faults \cap {"run", "before"} # {}
        /\ UNCHANGED results
     \/ /\ "after" \in Faults
        /\ results' = results \cup {<<k, mem[k].listed + 1>>}
  /\ Goto(k, "abort")
  /\ UNCHANGED <<head, file, mem>>

(* Mutation: a failed replacement is ignored and the loop goes on.         *)
MutSaveRunsIgnore(k) ==
  /\ gpc[k] = "save"
  /\ \E outcome \in WriteOutcomes :
       /\ Save(k, mem[k], outcome)
       /\ Goto(k, IF mem[k].listed = Repeat THEN "ok" ELSE "run")
  /\ UNCHANGED <<head, results, mem>>

(* group.save_replace after each run; the loop ends after Repeat runs.     *)
SaveRuns(k) ==
  /\ gpc[k] = "save"
  /\ \E outcome \in WriteOutcomes :
       /\ Save(k, mem[k], outcome)
       /\ Goto(k, IF ~Saved(mem[k], outcome) THEN "abort"
                  ELSE IF mem[k].listed = Repeat THEN "complete" ELSE "run")
  /\ UNCHANGED <<head, results, mem>>

(* mark_completed and the last save_replace.                               *)
Complete(k) ==
  /\ gpc[k] = "complete"
  /\ mem' = [mem EXCEPT ![k].status = "Completed"]
  /\ \E outcome \in WriteOutcomes :
       /\ Save(k, mem'[k], outcome)
       /\ Goto(k, IF Saved(mem'[k], outcome) THEN "ok" ELSE "abort")
  /\ UNCHANGED <<head, results>>

(* Mutation: the aborted record is made afresh and forgets the runs.       *)
MutAbort(k) ==
  /\ gpc[k] = "abort"
  /\ \E outcome \in WriteOutcomes :
       Save(k, [mem[k] EXCEPT !.status = "Aborted", !.listed = 0], outcome)
  /\ Quit(k, "aborted")
  /\ UNCHANGED <<head, results>>

(* abort_group: mark_aborted, one save_replace whose failure is only       *)
(* logged, and GroupAborted to the caller.                                 *)
Abort(k) ==
  /\ gpc[k] = "abort"
  /\ \E outcome \in WriteOutcomes :
       Save(k, [mem[k] EXCEPT !.status = "Aborted"], outcome)
  /\ Quit(k, "aborted")
  /\ UNCHANGED <<head, results>>

(* The process is killed: files stay as they are.                          *)
Die(k) ==
  /\ "kill" \in Faults
  /\ gpc[k] \in Active
  /\ Quit(k, "dead")
  /\ UNCHANGED <<head, file, results>>

(* Somebody commits, checks out or resets while the call runs.             *)
MoveHead ==
  /\ head' \in Commits \ {head}
  /\ UNCHANGED <<file, results, gpc, mem>>

Advance(k) ==
  Create(k) \/ RunReturns(k) \/ RunFails(k) \/ SaveRuns(k) \/ Complete(k) \/ Abort(k)

GroupNext ==
  \/ \E k \in Calls : Begin(k) \/ Advance(k) \/ Die(k)
  \/ MoveHead

GroupSpec == GroupInit /\ [][GroupNext]_groupVars

(* A call that has begun goes on.  It awaits storage, the children that    *)
(* execute_process bounds by their deadlines (but for the exception that   *)
(* Process.CallEnds states) and Git, whose processes "do not currently     *)
(* have a separate deadline" (docs/threat-model.md): that Git and storage  *)
(* return is an assumption, not something the code ensures.                *)
GroupFairness == \A k \in Calls : WF_groupVars(Advance(k))

-----------------------------------------------------------------------------
(* The values the variables take.                                          *)
GroupTypeOK ==
  /\ head \in Commits
  /\ file \in [Calls -> Group \cup {None}]
  /\ results \subseteq Calls \X (1 .. Repeat)
  /\ gpc \in [Calls -> {"idle", "dead"} \cup Active \cup Returned]
  /\ mem \in [Calls -> Group]

HasRuns(k, n) == \A i \in 1 .. n : <<k, i>> \in results

(* Every run a group record on disk lists has its result.json in place,    *)
(* and a Completed record lists every requested run ("Every requested run  *)
(* was persisted successfully", core/src/result.rs), at whatever moment a  *)
(* write fails, the process dies or another process reads the directory.   *)
GroupsHaveEvidence ==
  \A k \in Calls : file[k] # None =>
    /\ HasRuns(k, file[k].listed)
    /\ file[k].status = "Completed" => file[k].listed = Repeat

(* run_group answers Ok only when the record on disk says Completed and is *)
(* the one the caller holds.                                               *)
OkMeansCompleted ==
  \A k \in Calls : gpc[k] = "ok" =>
    /\ file[k] = mem[k]
    /\ file[k].status = "Completed"

(* An Aborted record lists every run that returned before the failure: a   *)
(* later hard failure "leaves earlier completed evidence discoverable      *)
(* under the group ID" (README).  The one result it may miss is that of a  *)
(* run whose last write reported an error although the file was in place.  *)
AbortedListsItsRuns ==
  \A k \in Calls : file[k] # None /\ file[k].status = "Aborted" =>
    \A i \in 1 .. Repeat : <<k, i>> \in results =>
      i <= file[k].listed \/ ("after" \in Faults /\ i = file[k].listed + 1)

(* A group that says Running while nothing is executing it was left by a   *)
(* killed process or by writes that failed: with storage that works and no *)
(* kill, a call never leaves one behind.                                   *)
NoOrphanRunning ==
  \A k \in Calls :
    file[k] # None /\ file[k].status = "Running" => gpc[k] \in Active

(* What one step may do to a group file that exists: runs are only added,  *)
(* the commit stays, and the status only moves forward; a Completed record *)
(* turns Aborted only in the call that was refused its last write, so what *)
(* a caller was given as Completed never changes again.                    *)
GroupFilesMoveForward ==
  [][\A k \in Calls : file[k] # None /\ file'[k] # file[k] =>
       /\ file'[k] # None
       /\ file'[k].commit = file[k].commit
       /\ file'[k].listed >= file[k].listed
       /\ file[k].status # "Aborted"
       /\ file[k].status = "Completed" =>
            file'[k].status = "Aborted" /\ gpc[k] = "abort"]_groupVars

(* A call that has begun returns, where storage, Git and the children it   *)
(* waits for return: every error path leads to a return.                   *)
CallsReturn ==
  \A k \in Calls : gpc[k] \in Active ~> gpc[k] \in Returned \cup {"dead"}
=============================================================================
