------------------------- MODULE SuiteRunner_proofs -------------------------
(***************************************************************************)
(* Theorems about SuiteRunner.tla, for every number of processes, tasks,   *)
(* agents and repeats, every combination of faults, and whether or not     *)
(* invocations overlap.  A suite run drives run_group as RunGroup.tla      *)
(* specifies it, so what is proved there holds here; with it, a completed  *)
(* cell is traced to a call that answered Ok at the commit of the suite,   *)
(* and the report of a checkpoint finds the group of every such cell.      *)
(***************************************************************************)
EXTENDS SuiteReport, RunGroup_proofs

(* The types, and what a process at work holds.                            *)
Shape ==
  /\ disk \in Execution \cup {None}
  /\ pc \in [Procs -> Labels]
  /\ exec \in [Procs -> Execution \cup {None}]
  /\ todo \in [Procs -> SUBSET Cells]
  /\ cur \in [Procs -> Cells \cup {None}]
  /\ reported \subseteq Cells
  /\ \A p \in Procs :
       /\ Working(p) \/ pc[p] = "done" => exec[p] \in Execution
       /\ pc[p] \in {"group", "store", "emit"} => cur[p] \in Cells

(* The group of a completed cell answered Ok for that cell, at the commit  *)
(* of the suite; where the calls are and what they hold are arguments, so  *)
(* that the same record can be looked at before and after a step.          *)
BackedIn(e, where, copy) ==
  e # None => \A c \in WithStatus(e, "Completed") :
    LET k == e.cells[c].group
    IN  /\ k \in Calls /\ k[2] = c
        /\ where[k] = "ok"
        /\ copy[k].commit = e.commit

Backed(e) == BackedIn(e, gpc, mem)

SInv ==
  /\ Shape
  /\ Backed(disk)
  /\ \A p \in Procs : Backed(exec[p])

-----------------------------------------------------------------------------
(* The operations on the record give records.                              *)
LEMMA NewExecutionType ==
  ASSUME NEW commit \in Commits
  PROVE  /\ NewExecution(commit) \in Execution
         /\ \A c \in Cells : NewExecution(commit).cells[c].status = "Pending"
  BY DEF NewExecution, Execution, Pending, CellRecord, Finished

LEMMA SetCellType ==
  ASSUME NEW e \in Execution, NEW c \in Cells, NEW cell \in CellRecord
  PROVE  /\ SetCell(e, c, cell) \in Execution
         /\ SetCell(e, c, cell).commit = e.commit
         /\ \A d \in Cells : SetCell(e, c, cell).cells[d] = IF d = c THEN cell ELSE e.cells[d]
  BY DEF SetCell, Execution

LEMMA FinishType ==
  ASSUME NEW e \in Execution
  PROVE  /\ Finish(e) \in Execution
         /\ Finish(e).commit = e.commit
         /\ Finish(e).cells = e.cells
  BY DEF Finish, Execution, Finished

LEMMA AbortRunType ==
  ASSUME NEW e \in Execution
  PROVE  /\ AbortRun(e) \in Execution
         /\ AbortRun(e).commit = e.commit
         /\ AbortRun(e).cells = e.cells
  BY DEF AbortRun, Execution, Finished

LEMMA CompletedType ==
  ASSUME NEW g \in Calls
  PROVE  Completed(g) \in CellRecord
  BY DEF Completed, CellRecord

LEMMA ErroredType == Errored \in CellRecord
  BY DEF Errored, CellRecord

(* What they say of the groups of completed cells.                         *)
LEMMA SameCellsBacked ==
  ASSUME NEW where, NEW copy, NEW e \in Execution, BackedIn(e, where, copy),
         NEW f, f.cells = e.cells, f.commit = e.commit, e # None
  PROVE  BackedIn(f, where, copy)
  BY DEF BackedIn, WithStatus

LEMMA BackedPasses ==
  ASSUME NEW e, NEW where, NEW copy, NEW where2, NEW copy2,
         BackedIn(e, where, copy),
         \A k \in Calls : where[k] = "ok" => where2[k] = "ok" /\ copy2[k] = copy[k]
  PROVE  BackedIn(e, where2, copy2)
  BY DEF BackedIn

(* An answer of Ok is final, and so is what the call then holds.           *)
OkStays == \A k \in Calls : gpc[k] = "ok" => gpc'[k] = "ok" /\ mem'[k] = mem[k]

LEMMA OkIsFinal ==
  ASSUME GroupTypeOK, [GroupNext]_groupVars
  PROVE  OkStays
  <1> SUFFICES ASSUME NEW k \in Calls, gpc[k] = "ok"
               PROVE  gpc'[k] = "ok" /\ mem'[k] = mem[k]
    BY DEF OkStays
  <1>1. ~(Begin(k) \/ Advance(k) \/ Die(k))
    BY DEF Begin, Advance, Die, Create, RunReturns, RunFails, SaveRuns, Complete, Abort, Active
  <1>2. CASE MoveHead \/ UNCHANGED groupVars
    BY <1>2 DEF MoveHead, groupVars
  <1>3. ASSUME NEW j \in Calls, Begin(j) \/ Advance(j) \/ Die(j)
        PROVE  Untouched(k)
    BY <1>1, <1>3, StepTouchesOneCall
  <1>4. QED
    BY <1>2, <1>3 DEF GroupNext, Untouched

-----------------------------------------------------------------------------
(* A suite run drives its groups as RunGroup.tla specifies.                *)
LEMMA SuiteStepIsGroupStep ==
  ASSUME Shape, [Next]_vars
  PROVE  [GroupNext]_groupVars
  <1>1. ASSUME NEW p \in Procs, pc[p] = "group"
        PROVE  Call(p) \in Calls
    BY <1>1, CallsAssumption DEF Shape, Call
  <1>2. ASSUME NEW p \in Procs, RunCell(p)
        PROVE  GroupNext
    BY <1>1, <1>2 DEF RunCell, GroupNext
  <1>3. ASSUME NEW p \in Procs, Kill(p)
        PROVE  [GroupNext]_groupVars
    BY <1>1, <1>3 DEF Kill, GroupNext
  <1>4. ASSUME NEW p \in Procs, Preflight(p) \/ Load(p) \/ Step(p), ~RunCell(p)
        PROVE  UNCHANGED groupVars
    BY <1>4 DEF Preflight, Load, Step, CreateCheckpoint, Revalidate, StartCell,
       BasisChanged, CellCompletes, CellErrs, Store, Emit, FinishRun, AbortCheckpoint
  <1>5. QED
    BY <1>2, <1>3, <1>4 DEF Next, GroupNext, vars
-----------------------------------------------------------------------------
(* Each action keeps the shape, and writes or holds only records whose     *)
(* completed cells are backed.                                             *)
Keeps ==
  /\ Shape'
  /\ BackedIn(disk', gpc, mem)
  /\ \A q \in Procs : BackedIn(exec'[q], gpc, mem)

LEMMA NoneIsBacked == Backed(None)
  BY DEF Backed, BackedIn

LEMMA ReplaceKeeps ==
  ASSUME SInv, NEW e \in Execution, Backed(e), NEW outcome \in WriteOutcomes, Replace(e, outcome)
  PROVE  disk' \in Execution \cup {None} /\ BackedIn(disk', gpc, mem)
  BY DEF SInv, Shape, Replace, Backed

(* A process that fails forgets its copy; what is left is the checkpoint.  *)
LEMMA FailKeeps ==
  ASSUME SInv, NEW p \in Procs, Fail(p), reported' = reported,
         disk' \in Execution \cup {None}, BackedIn(disk', gpc, mem)
  PROVE  Keeps
  <1>1. Shape'
    BY DEF SInv, Shape, Fail, Jump, Labels, Ended, Idle, Working
  <1>2. \A q \in Procs : BackedIn(exec'[q], gpc, mem)
    BY NoneIsBacked DEF SInv, Shape, Fail, Backed
  <1>3. QED
    BY <1>1, <1>2 DEF Keeps

LEMMA PreflightKeeps ==
  ASSUME SInv, NEW p \in Procs, head \in Commits, Preflight(p)
  PROVE  Keeps
  <1>1. CASE Fail(p)
    BY <1>1, FailKeeps DEF Preflight, SInv, Shape, Backed
  <1>2. CASE ~Fail(p)
    <2>1. /\ Jump(p, "create")
          /\ exec' = [exec EXCEPT ![p] = NewExecution(head)]
          /\ UNCHANGED <<groupVars, disk, todo, cur, reported>>
      BY <1>2 DEF Preflight
    <2>2. BackedIn(NewExecution(head), gpc, mem)
      BY NewExecutionType DEF BackedIn, WithStatus
    <2>3. Shape'
      BY <2>1, NewExecutionType DEF SInv, Shape, Jump, Labels, Ended, Idle, Working
    <2>4. QED
      BY <2>1, <2>2, <2>3 DEF Keeps, SInv, Shape, Backed
  <1>3. QED
    BY <1>1, <1>2

LEMMA CreateCheckpointKeeps ==
  ASSUME SInv, NEW p \in Procs, CreateCheckpoint(p)
  PROVE  Keeps
  <1>1. exec[p] \in Execution /\ Backed(exec[p])
    BY DEF CreateCheckpoint, SInv, Shape, Working, Idle, Ended
  <1>2. disk' \in Execution \cup {None} /\ BackedIn(disk', gpc, mem) /\ reported' = reported
    BY <1>1, ReplaceKeeps DEF CreateCheckpoint, SInv, Shape, Backed
  <1>3. CASE Fail(p)
    BY <1>2, <1>3, FailKeeps
  <1>4. CASE ~Fail(p)
    <2>1. /\ Jump(p, "cells")
          /\ todo' = [todo EXCEPT ![p] = PendingCells(exec[p])]
          /\ UNCHANGED <<exec, cur>>
      BY <1>4 DEF CreateCheckpoint
    <2>2. PendingCells(exec[p]) \subseteq Cells
      BY DEF PendingCells, WithStatus
    <2>3. Shape'
      BY <1>1, <1>2, <2>1, <2>2 DEF SInv, Shape, Jump, Labels, Ended, Idle, Working
    <2>4. QED
      BY <1>2, <2>1, <2>3 DEF Keeps, SInv, Shape, Backed
  <1>5. QED
    BY <1>3, <1>4

LEMMA LoadKeeps ==
  ASSUME SInv, NEW p \in Procs, Load(p)
  PROVE  Keeps
  <1>1. CASE Fail(p)
    BY <1>1, FailKeeps DEF Load, SInv, Shape, Backed
  <1>2. CASE ~Fail(p)
    <2>1. /\ disk # None
          /\ Jump(p, "loaded")
          /\ exec' = [exec EXCEPT ![p] = disk]
          /\ UNCHANGED <<groupVars, disk, todo, cur, reported>>
      BY <1>2 DEF Load
    <2>2. Shape'
      BY <2>1 DEF SInv, Shape, Jump, Labels, Ended, Idle, Working
    <2>3. QED
      BY <2>1, <2>2 DEF Keeps, SInv, Shape, Backed
  <1>3. QED
    BY <1>1, <1>2

LEMMA RevalidateKeeps ==
  ASSUME SInv, NEW p \in Procs, Revalidate(p)
  PROVE  Keeps
  <1>1. CASE Fail(p)
    BY <1>1, FailKeeps DEF Revalidate, SInv, Shape, Backed
  <1>2. CASE ~Fail(p)
    <2>1. /\ exec[p] \in Execution
          /\ Jump(p, "cells")
          /\ todo' = [todo EXCEPT ![p] = PendingCells(exec[p])]
          /\ UNCHANGED <<groupVars, disk, exec, cur, reported>>
      BY <1>2 DEF Revalidate, SInv, Shape, Working, Idle, Ended
    <2>2. PendingCells(exec[p]) \subseteq Cells
      BY DEF PendingCells, WithStatus
    <2>3. Shape'
      BY <2>1, <2>2 DEF SInv, Shape, Jump, Labels, Ended, Idle, Working
    <2>4. QED
      BY <2>1, <2>3 DEF Keeps, SInv, Shape, Backed
  <1>3. QED
    BY <1>1, <1>2

LEMMA StartCellKeeps ==
  ASSUME SInv, NEW p \in Procs, StartCell(p)
  PROVE  Keeps
  <1>1. CASE Fail(p)
    BY <1>1, FailKeeps DEF StartCell, SInv, Shape, Backed
  <1>2. CASE ~Fail(p)
    <2>1. PICK c \in todo[p], label \in {"group", "abort"} :
            /\ Jump(p, label)
            /\ cur' = [cur EXCEPT ![p] = c]
            /\ UNCHANGED <<groupVars, disk, exec, todo, reported>>
      BY <1>2 DEF StartCell
    <2>2. c \in Cells /\ exec[p] \in Execution
      BY DEF StartCell, SInv, Shape, Working, Idle, Ended
    <2>3. Shape'
      BY <2>1, <2>2 DEF SInv, Shape, Jump, Labels, Ended, Idle, Working
    <2>4. QED
      BY <2>1, <2>3 DEF Keeps, SInv, Shape, Backed
  <1>3. QED
    BY <1>1, <1>2
(* Steps that only move a process, or leave the suite alone.               *)
LEMMA BasisChangedKeeps ==
  ASSUME SInv, NEW p \in Procs, BasisChanged(p)
  PROVE  Keeps
  <1>1. Shape'
    BY DEF BasisChanged, GroupReturned, SInv, Shape, Jump, Labels, Ended, Idle, Working
  <1>2. QED
    BY <1>1 DEF BasisChanged, Keeps, SInv, Backed

LEMMA UnchangedKeeps ==
  ASSUME SInv, UNCHANGED suiteVars
  PROVE  Keeps
  <1>1. Shape'
    BY DEF suiteVars, SInv, Shape, Working
  <1>2. QED
    BY <1>1 DEF suiteVars, Keeps, SInv, Backed

(* A cell completes with the group of this very call, which answered Ok at *)
(* the commit of the suite.                                                *)
LEMMA CellCompletesKeeps ==
  ASSUME SInv, NEW p \in Procs, CellCompletes(p)
  PROVE  Keeps
  <1> DEFINE new == SetCell(exec[p], cur[p], Completed(Call(p)))
  <1>1. /\ pc[p] = "group"
        /\ gpc[Call(p)] = "ok"
        /\ cur[p] \in Cells
        /\ exec[p] \in Execution
        /\ Backed(exec[p])
        /\ UNCHANGED <<groupVars, disk, todo, cur, reported>>
    BY DEF CellCompletes, GroupReturned, SInv, Shape, Working, Idle, Ended
  <1>2. Call(p) \in Calls /\ Call(p)[2] = cur[p]
    BY <1>1, CallsAssumption DEF Call
  <1>3. \/ mem[Call(p)].commit = exec[p].commit /\ Jump(p, "store") /\ exec' = [exec EXCEPT ![p] = new]
        \/ Jump(p, "abort") /\ UNCHANGED exec
    BY DEF CellCompletes
  <1>4. new \in Execution
    BY <1>1, <1>2, SetCellType, CompletedType
  <1>5. mem[Call(p)].commit = exec[p].commit => BackedIn(new, gpc, mem)
    <2> SUFFICES ASSUME mem[Call(p)].commit = exec[p].commit,
                        NEW c \in WithStatus(new, "Completed")
                 PROVE  LET k == new.cells[c].group
                        IN  k \in Calls /\ k[2] = c /\ gpc[k] = "ok" /\ mem[k].commit = new.commit
      BY DEF BackedIn
    <2>1. /\ c \in Cells
          /\ new.commit = exec[p].commit
          /\ new.cells[c] = IF c = cur[p] THEN Completed(Call(p)) ELSE exec[p].cells[c]
          /\ new.cells[c].status = "Completed"
      BY <1>1, <1>2, SetCellType, CompletedType DEF WithStatus
    <2>2. CASE c = cur[p]
      BY <1>1, <1>2, <2>1, <2>2 DEF Completed
    <2>3. CASE c # cur[p]
      <3>1. c \in WithStatus(exec[p], "Completed") /\ exec[p] # None
        BY <1>1, <2>1, <2>3, NoRecordAssumption DEF WithStatus
      <3>2. QED
        BY <1>1, <2>1, <2>3, <3>1 DEF Backed, BackedIn
    <2>4. QED
      BY <2>2, <2>3
  <1> HIDE DEF new
  <1>6. Shape'
    BY <1>1, <1>3, <1>4 DEF SInv, Shape, Jump, Labels, Ended, Idle, Working
  <1>7. QED
    BY <1>1, <1>3, <1>5, <1>6 DEF Keeps, SInv, Shape, Backed

LEMMA CellErrsKeeps ==
  ASSUME SInv, NEW p \in Procs, CellErrs(p)
  PROVE  Keeps
  <1>1. CASE Fail(p)
    BY <1>1, FailKeeps DEF CellErrs, SInv, Shape, Backed
  <1>2. CASE ~Fail(p)
    <2> DEFINE new == SetCell(exec[p], cur[p], Errored)
    <2>1. /\ cur[p] \in Cells
          /\ exec[p] \in Execution
          /\ Backed(exec[p])
          /\ Jump(p, "store")
          /\ exec' = [exec EXCEPT ![p] = new]
          /\ UNCHANGED <<groupVars, disk, todo, cur, reported>>
      BY <1>2 DEF CellErrs, GroupReturned, SInv, Shape, Working, Idle, Ended
    <2>2. new \in Execution
      BY <2>1, SetCellType, ErroredType
    <2>3. BackedIn(new, gpc, mem)
      <3> SUFFICES ASSUME NEW c \in WithStatus(new, "Completed")
                   PROVE  LET k == new.cells[c].group
                          IN  k \in Calls /\ k[2] = c /\ gpc[k] = "ok" /\ mem[k].commit = new.commit
        BY DEF BackedIn
      <3>1. /\ c \in Cells
            /\ new.commit = exec[p].commit
            /\ new.cells[c] = IF c = cur[p] THEN Errored ELSE exec[p].cells[c]
            /\ new.cells[c].status = "Completed"
        BY <2>1, SetCellType, ErroredType DEF WithStatus
      <3>2. c # cur[p]
        BY <3>1 DEF Errored
      <3>3. c \in WithStatus(exec[p], "Completed") /\ exec[p] # None
        BY <2>1, <3>1, <3>2, NoRecordAssumption DEF WithStatus
      <3>4. QED
        BY <2>1, <3>1, <3>2, <3>3 DEF Backed, BackedIn
    <2> HIDE DEF new
    <2>4. Shape'
      BY <2>1, <2>2 DEF SInv, Shape, Jump, Labels, Ended, Idle, Working
    <2>5. QED
      BY <2>1, <2>3, <2>4 DEF Keeps, SInv, Shape, Backed
  <1>3. QED
    BY <1>1, <1>2

LEMMA StoreKeeps ==
  ASSUME SInv, NEW p \in Procs, Store(p)
  PROVE  Keeps
  <1>1. exec[p] \in Execution /\ Backed(exec[p]) /\ cur[p] \in Cells
    BY DEF Store, SInv, Shape, Working, Idle, Ended
  <1>2. disk' \in Execution \cup {None} /\ BackedIn(disk', gpc, mem) /\ reported' = reported
    BY <1>1, ReplaceKeeps DEF Store
  <1>3. CASE Fail(p)
    BY <1>2, <1>3, FailKeeps
  <1>4. CASE ~Fail(p)
    <2>1. Jump(p, "emit") /\ UNCHANGED <<exec, todo, cur>>
      BY <1>4 DEF Store
    <2>2. Shape'
      BY <1>1, <1>2, <2>1 DEF SInv, Shape, Jump, Labels, Ended, Idle, Working
    <2>3. QED
      BY <1>2, <2>1, <2>2 DEF Keeps, SInv, Backed
  <1>5. QED
    BY <1>3, <1>4

LEMMA EmitKeeps ==
  ASSUME SInv, NEW p \in Procs, Emit(p)
  PROVE  Keeps
  <1>1. /\ cur[p] \in Cells
        /\ exec[p] \in Execution
        /\ todo[p] \ {cur[p]} \subseteq Cells
    BY DEF Emit, SInv, Shape, Working, Idle, Ended
  <1>2. Shape'
    BY <1>1 DEF Emit, SInv, Shape, Jump, Labels, Ended, Idle, Working
  <1>3. QED
    BY <1>2 DEF Emit, Keeps, SInv, Backed

LEMMA FinishRunKeeps ==
  ASSUME SInv, NEW p \in Procs, FinishRun(p)
  PROVE  Keeps
  <1>1. exec[p] \in Execution /\ Backed(exec[p]) /\ exec[p] # None
    BY NoRecordAssumption DEF FinishRun, SInv, Shape, Working, Idle, Ended
  <1>2. Finish(exec[p]) \in Execution /\ Backed(Finish(exec[p]))
    BY <1>1, FinishType, SameCellsBacked DEF Backed
  <1>3. disk' \in Execution \cup {None} /\ BackedIn(disk', gpc, mem) /\ reported' = reported
    BY <1>2, ReplaceKeeps DEF FinishRun, SInv, Shape, Backed
  <1>4. CASE Fail(p)
    BY <1>3, <1>4, FailKeeps
  <1>5. CASE ~Fail(p)
    <2>1. /\ Jump(p, "done")
          /\ exec' = [exec EXCEPT ![p] = Finish(exec[p])]
          /\ UNCHANGED <<todo, cur>>
      BY <1>5 DEF FinishRun
    <2>2. Shape'
      BY <1>2, <1>3, <2>1 DEF SInv, Shape, Jump, Labels, Ended, Idle, Working
    <2>3. QED
      BY <1>2, <1>3, <2>1, <2>2 DEF Keeps, SInv, Shape, Backed
  <1>6. QED
    BY <1>4, <1>5

LEMMA AbortCheckpointKeeps ==
  ASSUME SInv, NEW p \in Procs, AbortCheckpoint(p)
  PROVE  Keeps
  <1>1. exec[p] \in Execution /\ Backed(exec[p]) /\ exec[p] # None
    BY NoRecordAssumption DEF AbortCheckpoint, SInv, Shape, Working, Idle, Ended
  <1>2. AbortRun(exec[p]) \in Execution /\ Backed(AbortRun(exec[p]))
    BY <1>1, AbortRunType, SameCellsBacked DEF Backed
  <1>3. disk' \in Execution \cup {None} /\ BackedIn(disk', gpc, mem) /\ reported' = reported
    BY <1>2, ReplaceKeeps DEF AbortCheckpoint, SInv, Shape, Backed
  <1>4. QED
    BY <1>3, FailKeeps DEF AbortCheckpoint

LEMMA KillKeeps ==
  ASSUME SInv, NEW p \in Procs, Kill(p)
  PROVE  Keeps
  BY FailKeeps DEF Kill, SInv, Shape, Backed

-----------------------------------------------------------------------------
LEMMA SInvInit == Init => SInv
  BY NoneIsBacked DEF Init, SInv, Shape, Labels, Idle, Ended, Working

LEMMA NextKeeps ==
  ASSUME SInv, GroupTypeOK, [Next]_vars
  PROVE  Keeps
  <1>1. head \in Commits
    BY DEF GroupTypeOK
  <1>2. ASSUME NEW p \in Procs, Preflight(p) \/ Load(p) \/ Step(p) \/ Kill(p)
        PROVE  Keeps
    <2>1. CASE Preflight(p) \/ Load(p) \/ Kill(p)
      BY <1>1, <2>1, PreflightKeeps, LoadKeeps, KillKeeps
    <2>2. CASE CreateCheckpoint(p) \/ Revalidate(p) \/ StartCell(p) \/ RunCell(p)
      BY <2>2, CreateCheckpointKeeps, RevalidateKeeps, StartCellKeeps, UnchangedKeeps DEF RunCell
    <2>3. CASE BasisChanged(p) \/ CellCompletes(p) \/ CellErrs(p) \/ Store(p)
      BY <2>3, BasisChangedKeeps, CellCompletesKeeps, CellErrsKeeps, StoreKeeps
    <2>4. CASE Emit(p) \/ FinishRun(p) \/ AbortCheckpoint(p)
      BY <2>4, EmitKeeps, FinishRunKeeps, AbortCheckpointKeeps
    <2>5. QED
      BY <1>2, <2>1, <2>2, <2>3, <2>4 DEF Step
  <1>3. CASE UNCHANGED suiteVars
    BY <1>3, UnchangedKeeps
  <1>4. QED
    BY <1>2, <1>3 DEF Next, vars

LEMMA SInvStep == IInv /\ SInv /\ [Next]_vars => IInv' /\ SInv'
  <1> SUFFICES ASSUME IInv, SInv, [Next]_vars PROVE IInv' /\ SInv'
    OBVIOUS
  <1>1. GroupTypeOK
    BY DEF IInv
  <1>2. [GroupNext]_groupVars
    BY SuiteStepIsGroupStep DEF SInv
  <1>3. IInv'
    BY <1>2, IInvStep
  <1>4. Keeps /\ OkStays
    BY <1>1, <1>2, NextKeeps, OkIsFinal
  <1>5. BackedIn(disk', gpc', mem') /\ \A q \in Procs : BackedIn(exec'[q], gpc', mem')
    BY <1>4, BackedPasses DEF Keeps, OkStays
  <1>6. QED
    BY <1>3, <1>4, <1>5 DEF Keeps, SInv, Backed

THEOREM SuiteInvariant == Spec => [](IInv /\ SInv)
  <1>1. Init => IInv /\ SInv
    BY IInvInit, SInvInit DEF Init
  <1>2. QED
    BY <1>1, SInvStep, PTL DEF Spec

-----------------------------------------------------------------------------
(* Every variable of a suite run keeps its type, whatever fails and        *)
(* however many invocations overlap.                                       *)
THEOREM SuiteTypes == Spec => []TypeOK
  <1>1. IInv /\ SInv => TypeOK
    BY DEF IInv, SInv, Shape, TypeOK
  <1>2. QED
    BY <1>1, SuiteInvariant, PTL

(* A suite run drives its groups as RunGroup.tla specifies.                *)
THEOREM SuiteRunsGroups == Spec => GroupSpec
  <1>1. Init => GroupInit
    BY DEF Init
  <1>2. SInv /\ [Next]_vars => [GroupNext]_groupVars
    BY SuiteStepIsGroupStep DEF SInv
  <1>3. QED
    BY <1>1, <1>2, SuiteInvariant, PTL DEF Spec, GroupSpec

(* A completed cell, in the checkpoint or in the copy of any process,      *)
(* names a group that was run for it at the commit of the suite, says      *)
(* Completed on disk and has every result in place: for every combination  *)
(* of failed writes, kills, clock steps and moves of HEAD, and also when   *)
(* invocations overlap.                                                    *)
THEOREM SuiteEvidence == Spec => []CompletedCellsHaveEvidence
  <1>1. ASSUME IInv, NEW e, Backed(e)
        PROVE  Evidenced(e)
    <2> SUFFICES ASSUME e # None, NEW c \in WithStatus(e, "Completed")
                 PROVE  HasEvidence(e, c)
      BY DEF Evidenced
    <2> DEFINE k == e.cells[c].group
    <2>1. k \in Calls /\ k[2] = c /\ gpc[k] = "ok" /\ mem[k].commit = e.commit
      BY <1>1 DEF Backed, BackedIn
    <2>2. file[k] = mem[k] /\ file[k].status = "Completed" /\ mem[k] \in Group
      BY <1>1, <2>1 DEF IInv, CallInv, FileInv, GroupTypeOK
    <2>3. file[k] # None
      BY <2>2, NoneAssumption
    <2>4. HasRuns(k, Repeat)
      BY <1>1, <2>1, <2>2, <2>3 DEF IInv, CallInv, FileInv, ValidGroup
    <2>5. QED
      BY <2>1, <2>2, <2>3, <2>4 DEF HasEvidence
  <1>2. IInv /\ SInv => CompletedCellsHaveEvidence
    BY <1>1 DEF SInv, CompletedCellsHaveEvidence
  <1>3. QED
    BY <1>2, SuiteInvariant, PTL

-----------------------------------------------------------------------------
(* The report of a suite run.                                              *)

(* A record all of whose completed cells name such calls is reported.      *)
BackedAreRendered ==
  \A e \in Execution : Backed(e) => LoadSuiteReport(e) = "rendered"

(* The groups of such calls are Completed, whole and each another one's.   *)
LEMMA BackedRenders == IInv => BackedAreRendered
<1> SUFFICES ASSUME IInv, NEW e \in Execution, Backed(e)
             PROVE  LoadSuiteReport(e) = "rendered"
  BY DEF BackedAreRendered
<1> DEFINE shown == WithStatus(e, "Completed")
           group[c \in Cells] == e.cells[c].group
<1>1. ASSUME NEW c \in shown
      PROVE  /\ c \in Cells /\ group[c] = e.cells[c].group
             /\ group[c] \in Calls /\ group[c][2] = c
             /\ file[group[c]] # None
             /\ HasRuns(group[c], file[group[c]].listed)
             /\ CellGroupMatches(e, c, file[group[c]])
  <2>1. c \in Cells /\ group[c] = e.cells[c].group BY DEF WithStatus
  <2>2. group[c] \in Calls /\ group[c][2] = c /\ gpc[group[c]] = "ok"
        /\ mem[group[c]].commit = e.commit
    BY <2>1, NoRecordAssumption DEF Backed, BackedIn
  <2> HIDE DEF group
  <2>3. file[group[c]] = mem[group[c]] /\ mem[group[c]] \in Group
        /\ mem[group[c]].status = "Completed"
    BY <2>2 DEF IInv, CallInv, FileInv, GroupTypeOK
  <2>4. file[group[c]] # None BY <2>3, NoneAssumption
  <2>5. HasRuns(group[c], file[group[c]].listed) /\ file[group[c]].listed = Repeat
    BY <2>2, <2>3, <2>4 DEF IInv, CallInv, FileInv, ValidGroup
  <2> QED BY <2>1, <2>2, <2>3, <2>4, <2>5 DEF CellGroupMatches
<1>2. {c \in shown : file[group[c]] = None} = {} BY <1>1
<1>3. {c \in shown : ~HasRuns(group[c], file[group[c]].listed)} = {} BY <1>1
<1>4. \A c, d \in shown : c # d => group[c] # group[d] BY <1>1
<1>5. \A c \in shown : CellGroupMatches(e, c, file[group[c]]) BY <1>1
<1> HIDE DEF group
<1> QED BY <1>2, <1>3, <1>4, <1>5 DEF LoadSuiteReport, group

(* Whatever moment a suite run is looked at, its record can be reported.   *)
THEOREM SuiteRenders == Spec => []CheckpointRenders
<1>1. IInv /\ SInv => CheckpointRenders
  BY BackedRenders, NoRecordAssumption
  DEF BackedAreRendered, SInv, Shape, CheckpointRenders
<1> QED BY SuiteInvariant, <1>1, PTL

(* And so it remains while the groups of a record are read, without a      *)
(* lock, beside the processes: for the record in the checkpoint and for    *)
(* every one that some process holds.                                      *)
THEOREM SuiteStaysRendered == Spec => RenderedStaysRendered
<1>1. IInv' => BackedAreRendered' BY BackedRenders, PTL
<1>2. IInv /\ SInv /\ [Next]_vars =>
        [\A e \in ({disk} \cup {exec[p] : p \in Procs}) \ {None} :
           LoadSuiteReport(e) = "rendered" => (LoadSuiteReport(e) = "rendered")']_vars
  <2> SUFFICES ASSUME IInv, SInv, [Next]_vars, NEW e, e # None,
                      e = disk \/ \E p \in Procs : e = exec[p]
               PROVE  LoadSuiteReport(e)' = "rendered"
    OBVIOUS
  <2>1. e \in Execution /\ BackedIn(e, gpc, mem) BY DEF SInv, Shape, Backed
  <2>2. OkStays
    BY SuiteStepIsGroupStep, OkIsFinal DEF SInv, IInv
  <2>3. BackedIn(e, gpc', mem') BY <2>1, <2>2, BackedPasses DEF OkStays
  <2> QED BY <1>1, <2>1, <2>3, SInvStep DEF BackedAreRendered, Backed
<1> QED BY SuiteInvariant, <1>2, PTL DEF Spec, RenderedStaysRendered

-----------------------------------------------------------------------------
(***************************************************************************)
(* What a suite checkpoint promises when invocations do not overlap, for   *)
(* every size of the matrix and every combination of faults: it behaves as *)
(* the ledger of SuiteLedger.tla, decided cells keep their outcome, only   *)
(* pending cells are run, and progress is printed only for recorded cells. *)
(*                                                                         *)
(* The argument: at most one process works, its copy is the checkpoint or  *)
(* one decided cell ahead of it, and what it has still to do is exactly    *)
(* what is pending.  The run OverlapRerun shows that this does not hold    *)
(* once two processes work on the same run.                                *)
(***************************************************************************)
Outcomes == {Errored} \cup {Completed(g) : g \in Calls}

(* How the copy of process p relates to the checkpoint.                    *)
CopyInv(p) ==
  /\ pc[p] = "create" => disk = None /\ \E c \in Commits : exec[p] = NewExecution(c)
  /\ pc[p] \in {"loaded", "cells", "group", "abort", "emit"} =>
       disk = exec[p] /\ disk.status = "Running"
  /\ pc[p] = "store" =>
       /\ disk \in Execution /\ disk.status = "Running"
       /\ IsFirst(cur[p], PendingCells(disk))
       /\ \E cell \in Outcomes : exec[p] = SetCell(disk, cur[p], cell)
  /\ pc[p] = "done" => disk = exec[p] /\ disk.status \in Finished

(* What process p has still to do.                                         *)
TodoInv(p) ==
  /\ pc[p] \in {"cells", "group"} => todo[p] = PendingCells(exec[p])
  /\ pc[p] = "group" => IsFirst(cur[p], todo[p])
  /\ pc[p] \in {"store", "emit"} =>
       /\ cur[p] \notin PendingCells(exec[p])
       /\ todo[p] \ {cur[p]} = PendingCells(exec[p])

Exclusive == \A p, q \in Procs : Working(p) /\ Working(q) => p = q

SeqInv ==
  /\ Exclusive
  /\ \A p \in Procs : CopyInv(p) /\ TodoInv(p)
  /\ ReportedIsRecorded

-----------------------------------------------------------------------------
(* The steps of the checkpoint.                                            *)
Opens == disk = None /\ \E c \in Commits : disk' = NewExecution(c)

Decides ==
  /\ disk \in Execution /\ disk.status = "Running"
  /\ \E c \in Cells, cell \in Outcomes :
       IsFirst(c, PendingCells(disk)) /\ disk' = SetCell(disk, c, cell)

Closes ==
  /\ disk \in Execution /\ disk.status = "Running"
  /\ \/ PendingCells(disk) = {} /\ disk' = Finish(disk)
     \/ disk' = AbortRun(disk)

Evolves == Opens \/ Decides \/ Closes \/ disk' = disk

LEMMA OutcomeFact ==
  ASSUME NEW cell \in Outcomes
  PROVE  cell \in CellRecord /\ cell.status # "Pending"
  BY CompletedType, ErroredType DEF Outcomes, Errored, Completed

LEMMA SetCellPending ==
  ASSUME NEW e \in Execution, NEW c \in Cells, NEW cell \in Outcomes
  PROVE  PendingCells(SetCell(e, c, cell)) = PendingCells(e) \ {c}
  <1>1. \A d \in Cells : SetCell(e, c, cell).cells[d] = IF d = c THEN cell ELSE e.cells[d]
    BY OutcomeFact, SetCellType
  <1>2. QED
    BY <1>1, OutcomeFact DEF PendingCells, WithStatus

(* A step of the checkpoint decides cells and never takes a decision back. *)
LEMMA EvolvesKeepsDecisions ==
  ASSUME SInv, Evolves, disk # None
  PROVE  /\ disk' # None
         /\ \A c \in Cells \ PendingCells(disk) : disk'.cells[c] = disk.cells[c]
         /\ disk.status # "Running" => disk' = disk
  <1>1. disk \in Execution
    BY DEF SInv, Shape
  <1>2. CASE Decides
    <2>1. PICK c \in Cells, cell \in Outcomes :
            IsFirst(c, PendingCells(disk)) /\ disk' = SetCell(disk, c, cell)
      BY <1>2 DEF Decides
    <2>2. c \in PendingCells(disk) /\ disk' \in Execution
      BY <1>1, <2>1, OutcomeFact, SetCellType DEF IsFirst
    <2>3. \A d \in Cells : disk'.cells[d] = IF d = c THEN cell ELSE disk.cells[d]
      BY <1>1, <2>1, OutcomeFact, SetCellType
    <2>4. QED
      BY <1>2, <2>2, <2>3, NoRecordAssumption DEF Decides
  <1>3. CASE Closes
    BY <1>1, <1>3, FinishType, AbortRunType, NoRecordAssumption DEF Closes
  <1>4. CASE Opens \/ disk' = disk
    BY <1>4 DEF Opens
  <1>5. QED
    BY <1>2, <1>3, <1>4 DEF Evolves

-----------------------------------------------------------------------------
(* While p works nobody else does, and no process has closed the run.      *)
LEMMA Alone ==
  ASSUME SInv, SeqInv, NEW p \in Procs, NEW q \in Procs, Working(p), q # p
  PROVE  pc[q] \in {"new", "failed"}
  <1>1. ~Working(q)
    BY DEF SeqInv, Exclusive
  <1>2. pc[q] # "done"
    <2> SUFFICES ASSUME pc[q] = "done" PROVE FALSE
      OBVIOUS
    <2>1. disk = exec[q] /\ disk.status \in Finished /\ exec[q] \in Execution
      BY DEF SeqInv, CopyInv, SInv, Shape
    <2>2. disk = None \/ disk.status = "Running"
      BY DEF SeqInv, CopyInv, Working, SInv, Shape, Labels, Idle, Ended
    <2>3. QED
      BY <2>1, <2>2, NoRecordAssumption DEF Finished
  <1>3. QED
    BY <1>1, <1>2 DEF SInv, Shape, Labels, Idle, Ended, Working

(* Only p's own variables change.                                          *)
Only(p) ==
  \A q \in Procs : q # p =>
    /\ pc'[q] = pc[q]
    /\ exec'[q] = exec[q]
    /\ todo'[q] = todo[q]
    /\ cur'[q] = cur[q]

(* A step of the one process that works, or of the first to work, keeps    *)
(* the invariant when it keeps that process's part of it.                  *)
LEMMA SeqStep ==
  ASSUME SInv, SeqInv, NEW p \in Procs, Shape', Only(p), Evolves,
         Working(p) \/ (disk' = disk /\ \A q \in Procs : ~Working(q)),
         CopyInv(p)', TodoInv(p)',
         reported' = reported \/ ReportedIsRecorded'
  PROVE  SeqInv'
  <1>1. ASSUME NEW q \in Procs, q # p
        PROVE  CopyInv(q)' /\ TodoInv(q)' /\ ~Working(q)'
    <2>1. CASE Working(p)
      <3>1. pc[q] \in {"new", "failed"}
        BY <1>1, <2>1, Alone
      <3>2. pc'[q] \in {"new", "failed"}
        BY <1>1, <3>1 DEF Only
      <3>3. QED
        BY <3>2 DEF CopyInv, TodoInv, Working, Idle, Ended
    <2>2. CASE disk' = disk /\ \A r \in Procs : ~Working(r)
      <3>1. pc[q] \in {"new", "done", "failed"} /\ pc'[q] = pc[q] /\ exec'[q] = exec[q]
        BY <1>1, <2>2 DEF Only, Working, Idle, Ended
      <3>2. QED
        BY <2>2, <3>1 DEF SeqInv, CopyInv, TodoInv, Working, Idle, Ended
    <2>3. QED
      BY <2>1, <2>2
  <1>2. Exclusive'
    BY <1>1 DEF Exclusive
  <1>3. ReportedIsRecorded'
    <2>1. CASE reported' = reported
      <3> SUFFICES ASSUME NEW c \in reported
                   PROVE  disk' # None /\ disk'.cells[c].status # "Pending"
        BY <2>1 DEF ReportedIsRecorded
      <3>1. disk # None /\ disk.cells[c].status # "Pending" /\ c \in Cells
        BY DEF SeqInv, ReportedIsRecorded, SInv, Shape
      <3>2. c \in Cells \ PendingCells(disk)
        BY <3>1 DEF PendingCells, WithStatus
      <3>3. QED
        BY <3>1, <3>2, EvolvesKeepsDecisions
    <2>2. QED
      BY <2>1
  <1>4. QED
    BY <1>1, <1>2, <1>3 DEF SeqInv
-----------------------------------------------------------------------------
(* Action by action: the checkpoint evolves, and the invariant stays.      *)
SeqKeeps == Evolves /\ SeqInv'

LEMMA SeqFail ==
  ASSUME SInv, SeqInv, NEW p \in Procs, Shape', Fail(p), Evolves, reported' = reported,
         Working(p) \/ (disk' = disk /\ \A q \in Procs : ~Working(q))
  PROVE  SeqKeeps
  <1>1. Only(p) /\ pc'[p] = "failed"
    BY DEF Only, Fail, Jump, SInv, Shape
  <1>2. CopyInv(p)' /\ TodoInv(p)'
    BY <1>1 DEF CopyInv, TodoInv
  <1>3. QED
    BY <1>1, <1>2, SeqStep DEF SeqKeeps

LEMMA SeqPreflight ==
  ASSUME SInv, SeqInv, NEW p \in Procs, Shape', head \in Commits, Preflight(p)
  PROVE  SeqKeeps
  <1>1. disk' = disk /\ reported' = reported /\ Evolves /\ \A q \in Procs : ~Working(q)
    BY DEF Preflight, Evolves
  <1>2. CASE Fail(p)
    BY <1>1, <1>2, SeqFail
  <1>3. CASE ~Fail(p)
    <2>1. /\ pc'[p] = "create" /\ exec'[p] = NewExecution(head) /\ disk' = None
          /\ Only(p)
      BY <1>3 DEF Preflight, Jump, Only, SInv, Shape
    <2>2. CopyInv(p)' /\ TodoInv(p)'
      BY <2>1 DEF CopyInv, TodoInv
    <2>3. QED
      BY <1>1, <2>1, <2>2, SeqStep DEF SeqKeeps
  <1>4. QED
    BY <1>2, <1>3

LEMMA SeqCreateCheckpoint ==
  ASSUME SInv, SeqInv, NEW p \in Procs, Shape', CreateCheckpoint(p)
  PROVE  SeqKeeps
  <1>1. Working(p) /\ disk = None /\ exec[p] \in Execution /\ reported' = reported
    BY DEF CreateCheckpoint, Working, Idle, Ended, SeqInv, CopyInv, SInv, Shape
  <1>2. PICK c \in Commits : exec[p] = NewExecution(c)
    BY DEF CreateCheckpoint, SeqInv, CopyInv
  <1>3. Evolves
    BY <1>1, <1>2 DEF CreateCheckpoint, Evolves, Opens, Replace
  <1>4. CASE Fail(p)
    BY <1>1, <1>3, <1>4, SeqFail
  <1>5. CASE ~Fail(p)
    <2>1. PICK outcome \in WriteOutcomes :
            /\ Replace(exec[p], outcome)
            /\ Replaced(exec[p], outcome)
            /\ Jump(p, "cells")
            /\ todo' = [todo EXCEPT ![p] = PendingCells(exec[p])]
            /\ UNCHANGED <<exec, cur>>
      BY <1>5 DEF CreateCheckpoint
    <2>2. /\ disk' = exec[p] /\ exec'[p] = exec[p] /\ pc'[p] = "cells"
          /\ todo'[p] = PendingCells(exec[p])
          /\ Only(p)
      BY <2>1 DEF Replace, Replaced, Installed, Jump, Only, SInv, Shape
    <2>3. exec[p].status = "Running"
      BY <1>2 DEF NewExecution
    <2>4. CopyInv(p)' /\ TodoInv(p)'
      BY <2>2, <2>3 DEF CopyInv, TodoInv
    <2>5. QED
      BY <1>1, <1>3, <2>2, <2>4, SeqStep DEF SeqKeeps
  <1>6. QED
    BY <1>4, <1>5

LEMMA SeqLoad ==
  ASSUME SInv, SeqInv, ~Overlap, NEW p \in Procs, Shape', Load(p)
  PROVE  SeqKeeps
  <1>1. disk' = disk /\ reported' = reported /\ Evolves /\ \A q \in Procs : ~Working(q)
    BY DEF Load, Evolves
  <1>2. CASE Fail(p)
    BY <1>1, <1>2, SeqFail
  <1>3. CASE ~Fail(p)
    <2>1. /\ pc'[p] = "loaded" /\ exec'[p] = disk /\ disk.status = "Running"
          /\ Only(p)
      BY <1>3 DEF Load, Jump, Only, SInv, Shape
    <2>2. CopyInv(p)' /\ TodoInv(p)'
      BY <1>1, <2>1 DEF CopyInv, TodoInv
    <2>3. QED
      BY <1>1, <2>1, <2>2, SeqStep DEF SeqKeeps
  <1>4. QED
    BY <1>2, <1>3

LEMMA SeqRevalidate ==
  ASSUME SInv, SeqInv, NEW p \in Procs, Shape', Revalidate(p)
  PROVE  SeqKeeps
  <1>1. Working(p) /\ disk' = disk /\ reported' = reported /\ Evolves
    BY DEF Revalidate, Working, Idle, Ended, Evolves
  <1>2. CASE Fail(p)
    BY <1>1, <1>2, SeqFail
  <1>3. CASE ~Fail(p)
    <2>1. /\ pc'[p] = "cells" /\ exec'[p] = exec[p] /\ todo'[p] = PendingCells(exec[p])
          /\ Only(p)
      BY <1>3 DEF Revalidate, Jump, Only, SInv, Shape
    <2>2. disk = exec[p] /\ disk.status = "Running"
      BY DEF Revalidate, SeqInv, CopyInv
    <2>3. CopyInv(p)' /\ TodoInv(p)'
      BY <1>1, <2>1, <2>2 DEF CopyInv, TodoInv
    <2>4. QED
      BY <1>1, <2>1, <2>3, SeqStep DEF SeqKeeps
  <1>4. QED
    BY <1>2, <1>3

LEMMA SeqStartCell ==
  ASSUME SInv, SeqInv, NEW p \in Procs, Shape', StartCell(p)
  PROVE  SeqKeeps
  <1>1. Working(p) /\ disk' = disk /\ reported' = reported /\ Evolves
    BY DEF StartCell, Working, Idle, Ended, Evolves
  <1>2. CASE Fail(p)
    BY <1>1, <1>2, SeqFail
  <1>3. CASE ~Fail(p)
    <2>1. PICK c \in todo[p], label \in {"group", "abort"} :
            /\ IsFirst(c, todo[p])
            /\ Jump(p, label)
            /\ cur' = [cur EXCEPT ![p] = c]
            /\ UNCHANGED <<exec, todo>>
      BY <1>3 DEF StartCell
    <2>2. /\ pc'[p] = label /\ exec'[p] = exec[p] /\ todo'[p] = todo[p] /\ cur'[p] = c
          /\ Only(p)
      BY <2>1 DEF Jump, Only, SInv, Shape
    <2>3. disk = exec[p] /\ disk.status = "Running" /\ todo[p] = PendingCells(exec[p])
      BY DEF StartCell, SeqInv, CopyInv, TodoInv
    <2>4. CopyInv(p)' /\ TodoInv(p)'
      BY <1>1, <2>1, <2>2, <2>3 DEF CopyInv, TodoInv
    <2>5. QED
      BY <1>1, <2>2, <2>4, SeqStep DEF SeqKeeps
  <1>4. QED
    BY <1>2, <1>3

LEMMA SeqUnchanged ==
  ASSUME SInv, SeqInv, UNCHANGED suiteVars
  PROVE  SeqKeeps
  <1>1. ReportedIsRecorded'
    BY DEF SeqInv, ReportedIsRecorded, suiteVars
  <1>2. \A q \in Procs : CopyInv(q)' /\ TodoInv(q)'
    BY DEF SeqInv, CopyInv, TodoInv, suiteVars
  <1>3. Exclusive' /\ Evolves
    BY DEF SeqInv, Exclusive, Working, suiteVars, Evolves
  <1>4. QED
    BY <1>1, <1>2, <1>3 DEF SeqKeeps, SeqInv

LEMMA SeqBasisChanged ==
  ASSUME SInv, SeqInv, NEW p \in Procs, Shape', BasisChanged(p)
  PROVE  SeqKeeps
  <1>1. Working(p) /\ disk' = disk /\ reported' = reported /\ Evolves
    BY DEF BasisChanged, GroupReturned, Working, Idle, Ended, Evolves
  <1>2. /\ pc'[p] = "abort" /\ exec'[p] = exec[p]
        /\ Only(p)
        /\ disk = exec[p] /\ disk.status = "Running"
    BY DEF BasisChanged, GroupReturned, Jump, Only, SInv, Shape, SeqInv, CopyInv
  <1>3. CopyInv(p)' /\ TodoInv(p)'
    BY <1>1, <1>2 DEF CopyInv, TodoInv
  <1>4. QED
    BY <1>1, <1>2, <1>3, SeqStep DEF SeqKeeps

(* A decided cell puts the copy one cell ahead of the checkpoint.          *)
LEMMA SeqDecided ==
  ASSUME SInv, SeqInv, NEW p \in Procs, Shape', NEW cell \in Outcomes,
         pc[p] = "group", Jump(p, "store"),
         exec' = [exec EXCEPT ![p] = SetCell(exec[p], cur[p], cell)],
         UNCHANGED <<disk, todo, cur, reported>>
  PROVE  SeqKeeps
  <1>1. Working(p) /\ Evolves
    BY DEF Working, Idle, Ended, Evolves
  <1>2. /\ pc'[p] = "store" /\ exec'[p] = SetCell(exec[p], cur[p], cell)
        /\ todo'[p] = todo[p] /\ cur'[p] = cur[p]
        /\ Only(p)
    BY DEF Jump, Only, SInv, Shape
  <1>3. /\ disk = exec[p] /\ disk.status = "Running" /\ exec[p] \in Execution
        /\ todo[p] = PendingCells(exec[p])
        /\ IsFirst(cur[p], todo[p])
        /\ cur[p] \in Cells
    BY <1>1 DEF SInv, Shape, SeqInv, CopyInv, TodoInv
  <1>4. PendingCells(SetCell(exec[p], cur[p], cell)) = PendingCells(exec[p]) \ {cur[p]}
    BY <1>3, SetCellPending
  <1>5. CopyInv(p)'
    BY <1>2, <1>3 DEF CopyInv
  <1>6. TodoInv(p)'
    BY <1>2, <1>3, <1>4 DEF TodoInv
  <1>7. QED
    BY <1>1, <1>2, <1>5, <1>6, SeqStep DEF SeqKeeps

LEMMA SeqCellCompletes ==
  ASSUME SInv, SeqInv, NEW p \in Procs, Shape', CellCompletes(p)
  PROVE  SeqKeeps
  <1>1. pc[p] = "group" /\ UNCHANGED <<disk, todo, cur, reported>>
    BY DEF CellCompletes, GroupReturned
  <1>2. CASE Jump(p, "store") /\ exec' = [exec EXCEPT ![p] = SetCell(exec[p], cur[p], Completed(Call(p)))]
    <2>1. Call(p) \in Calls
      BY <1>1, CallsAssumption DEF SInv, Shape, Call
    <2>2. Completed(Call(p)) \in Outcomes
      BY <2>1 DEF Outcomes
    <2>3. QED
      BY <1>1, <1>2, <2>2, SeqDecided
  <1>3. CASE Jump(p, "abort") /\ UNCHANGED exec
    <2>1. /\ pc'[p] = "abort" /\ exec'[p] = exec[p] /\ disk' = disk
          /\ Only(p) /\ Working(p) /\ Evolves
          /\ disk = exec[p] /\ disk.status = "Running"
      BY <1>1, <1>3 DEF Jump, Only, SInv, Shape, SeqInv, CopyInv, Working, Idle, Ended, Evolves
    <2>2. CopyInv(p)' /\ TodoInv(p)'
      BY <2>1 DEF CopyInv, TodoInv
    <2>3. QED
      BY <1>1, <2>1, <2>2, SeqStep DEF SeqKeeps
  <1>4. QED
    BY <1>2, <1>3 DEF CellCompletes

LEMMA SeqCellErrs ==
  ASSUME SInv, SeqInv, NEW p \in Procs, Shape', CellErrs(p)
  PROVE  SeqKeeps
  <1>1. pc[p] = "group" /\ Working(p) /\ disk' = disk /\ reported' = reported /\ Evolves
    BY DEF CellErrs, GroupReturned, Working, Idle, Ended, Evolves
  <1>2. CASE Fail(p)
    BY <1>1, <1>2, SeqFail
  <1>3. CASE ~Fail(p)
    <2>1. Errored \in Outcomes
      BY DEF Outcomes
    <2>2. /\ Jump(p, "store")
          /\ exec' = [exec EXCEPT ![p] = SetCell(exec[p], cur[p], Errored)]
          /\ UNCHANGED <<disk, todo, cur, reported>>
      BY <1>3 DEF CellErrs
    <2>3. QED
      BY <1>1, <2>1, <2>2, SeqDecided
  <1>4. QED
    BY <1>2, <1>3
LEMMA SeqStore ==
  ASSUME SInv, SeqInv, NEW p \in Procs, Shape', Store(p)
  PROVE  SeqKeeps
  <1>1. /\ Working(p) /\ reported' = reported
        /\ disk \in Execution /\ disk.status = "Running"
        /\ IsFirst(cur[p], PendingCells(disk))
        /\ cur[p] \in Cells /\ exec[p] \in Execution
    BY DEF Store, Working, Idle, Ended, SeqInv, CopyInv, SInv, Shape
  <1>2. PICK cell \in Outcomes : exec[p] = SetCell(disk, cur[p], cell)
    BY DEF Store, SeqInv, CopyInv
  <1>3. disk' = exec[p] \/ disk' = disk
    BY DEF Store, Replace
  <1>4. Evolves
    BY <1>1, <1>2, <1>3 DEF Evolves, Decides
  <1>5. CASE Fail(p)
    BY <1>1, <1>4, <1>5, SeqFail
  <1>6. CASE ~Fail(p)
    <2>1. PICK outcome \in WriteOutcomes :
            /\ Replace(exec[p], outcome)
            /\ Replaced(exec[p], outcome)
            /\ Jump(p, "emit")
            /\ UNCHANGED <<exec, todo, cur>>
      BY <1>6 DEF Store
    <2>2. /\ disk' = exec[p] /\ exec'[p] = exec[p] /\ pc'[p] = "emit"
          /\ todo'[p] = todo[p] /\ cur'[p] = cur[p]
          /\ Only(p)
      BY <2>1 DEF Replace, Replaced, Installed, Jump, Only, SInv, Shape
    <2>3. exec[p].status = "Running"
      BY <1>1, <1>2 DEF SetCell, Execution
    <2>4. CopyInv(p)'
      BY <2>2, <2>3 DEF CopyInv
    <2>5. TodoInv(p)'
      BY <2>2 DEF Store, SeqInv, TodoInv
    <2>6. QED
      BY <1>1, <1>4, <2>2, <2>4, <2>5, SeqStep DEF SeqKeeps
  <1>7. QED
    BY <1>5, <1>6

LEMMA SeqEmit ==
  ASSUME SInv, SeqInv, NEW p \in Procs, Shape', Emit(p)
  PROVE  SeqKeeps
  <1>1. /\ Working(p) /\ disk' = disk /\ Evolves
        /\ disk = exec[p] /\ disk.status = "Running" /\ exec[p] \in Execution
        /\ cur[p] \in Cells
        /\ cur[p] \notin PendingCells(exec[p])
        /\ todo[p] \ {cur[p]} = PendingCells(exec[p])
    BY DEF Emit, Working, Idle, Ended, Evolves, SeqInv, CopyInv, TodoInv, SInv, Shape
  <1>2. /\ pc'[p] = "cells" /\ exec'[p] = exec[p] /\ todo'[p] = todo[p] \ {cur[p]}
        /\ Only(p)
    BY DEF Emit, Jump, Only, SInv, Shape
  <1>3. ReportedIsRecorded'
    BY <1>1, NoRecordAssumption DEF Emit, SeqInv, ReportedIsRecorded, PendingCells, WithStatus
  <1>4. CopyInv(p)' /\ TodoInv(p)'
    BY <1>1, <1>2 DEF CopyInv, TodoInv
  <1>5. QED
    BY <1>1, <1>2, <1>3, <1>4, SeqStep DEF SeqKeeps

LEMMA SeqFinishRun ==
  ASSUME SInv, SeqInv, NEW p \in Procs, Shape', FinishRun(p)
  PROVE  SeqKeeps
  <1>1. /\ Working(p) /\ reported' = reported
        /\ disk = exec[p] /\ disk.status = "Running" /\ exec[p] \in Execution
        /\ PendingCells(disk) = {}
    BY DEF FinishRun, Working, Idle, Ended, SeqInv, CopyInv, TodoInv, SInv, Shape
  <1>2. disk' = Finish(exec[p]) \/ disk' = disk
    BY DEF FinishRun, Replace
  <1>3. Evolves
    BY <1>1, <1>2 DEF Evolves, Closes
  <1>4. CASE Fail(p)
    BY <1>1, <1>3, <1>4, SeqFail
  <1>5. CASE ~Fail(p)
    <2>1. PICK outcome \in WriteOutcomes :
            /\ Replace(Finish(exec[p]), outcome)
            /\ Replaced(Finish(exec[p]), outcome)
            /\ Jump(p, "done")
            /\ exec' = [exec EXCEPT ![p] = Finish(exec[p])]
            /\ UNCHANGED <<todo, cur>>
      BY <1>5 DEF FinishRun
    <2>2. /\ disk' = Finish(exec[p]) /\ exec'[p] = Finish(exec[p]) /\ pc'[p] = "done"
          /\ Only(p)
      BY <2>1 DEF Replace, Replaced, Installed, Jump, Only, SInv, Shape
    <2>3. Finish(exec[p]).status \in Finished
      BY <1>1 DEF Finish, Finished, Execution
    <2>4. CopyInv(p)' /\ TodoInv(p)'
      BY <2>2, <2>3 DEF CopyInv, TodoInv
    <2>5. QED
      BY <1>1, <1>3, <2>2, <2>4, SeqStep DEF SeqKeeps
  <1>6. QED
    BY <1>4, <1>5

LEMMA SeqAbortCheckpoint ==
  ASSUME SInv, SeqInv, NEW p \in Procs, Shape', AbortCheckpoint(p)
  PROVE  SeqKeeps
  <1>1. /\ Working(p) /\ reported' = reported
        /\ disk = exec[p] /\ disk.status = "Running" /\ exec[p] \in Execution
    BY DEF AbortCheckpoint, Working, Idle, Ended, SeqInv, CopyInv, SInv, Shape
  <1>2. disk' = AbortRun(exec[p]) \/ disk' = disk
    BY DEF AbortCheckpoint, Replace
  <1>3. Evolves
    BY <1>1, <1>2 DEF Evolves, Closes
  <1>4. QED
    BY <1>1, <1>3, SeqFail DEF AbortCheckpoint

LEMMA SeqNext ==
  ASSUME SInv, SeqInv, GroupTypeOK, ~Overlap, [Next]_vars
  PROVE  SeqKeeps
  <1>1. Shape' /\ head \in Commits
    BY NextKeeps DEF Keeps, GroupTypeOK
  <1>2. ASSUME NEW p \in Procs, Preflight(p) \/ Load(p) \/ Step(p) \/ Kill(p)
        PROVE  SeqKeeps
    <2>1. CASE Preflight(p) \/ Load(p)
      BY <1>1, <2>1, SeqPreflight, SeqLoad
    <2>2. CASE Kill(p)
      BY <1>1, <2>2, SeqFail DEF Kill, Evolves
    <2>3. CASE CreateCheckpoint(p) \/ Revalidate(p) \/ StartCell(p) \/ RunCell(p)
      BY <1>1, <2>3, SeqCreateCheckpoint, SeqRevalidate, SeqStartCell, SeqUnchanged DEF RunCell
    <2>4. CASE BasisChanged(p) \/ CellCompletes(p) \/ CellErrs(p) \/ Store(p)
      BY <1>1, <2>4, SeqBasisChanged, SeqCellCompletes, SeqCellErrs, SeqStore
    <2>5. CASE Emit(p) \/ FinishRun(p) \/ AbortCheckpoint(p)
      BY <1>1, <2>5, SeqEmit, SeqFinishRun, SeqAbortCheckpoint
    <2>6. QED
      BY <1>2, <2>1, <2>2, <2>3, <2>4, <2>5 DEF Step
  <1>3. CASE UNCHANGED suiteVars
    BY <1>3, SeqUnchanged
  <1>4. QED
    BY <1>2, <1>3 DEF Next, vars

LEMMA SeqInit == Init => SeqInv
  BY DEF Init, SeqInv, Exclusive, CopyInv, TodoInv, ReportedIsRecorded, Working, Idle, Ended

THEOREM SequentialInvariant ==
  ASSUME ~Overlap
  PROVE  Spec => []SeqInv
  <1>1. IInv /\ SInv /\ SeqInv /\ [Next]_vars => SeqInv'
    BY SeqNext DEF SeqKeeps, IInv
  <1>2. QED
    BY <1>1, SeqInit, SuiteInvariant, PTL DEF Spec

-----------------------------------------------------------------------------
(* When invocations do not overlap, the checkpoint of a suite run behaves  *)
(* as the ledger: opened once, its cells decided one by one in plan order, *)
(* closed once; whatever write fails, process dies, clock steps back or    *)
(* commit comes in between.                                                *)
THEOREM SuiteImplementsLedger ==
  ASSUME ~Overlap
  PROVE  Spec => ImplementsLedger
  <1>1. Init => Ledger!LedgerInit
    BY DEF Init, Ledger!LedgerInit
  <1>2. Evolves => [Ledger!LedgerNext]_disk
    <2>1. CASE Opens
      BY <2>1 DEF Opens, Ledger!LedgerNext, Ledger!Open, Ledger!NewExecution, Ledger!Cells,
         Ledger!Pending, NewExecution, Cells, Pending
    <2>2. CASE Decides
      <3>1. PICK c \in Cells, cell \in Outcomes :
              IsFirst(c, PendingCells(disk)) /\ disk' = SetCell(disk, c, cell)
        BY <2>2 DEF Decides
      <3>2. Ledger!IsFirst(c, Ledger!PendingCells(disk)) /\ disk' = Ledger!SetCell(disk, c, cell)
        BY <3>1 DEF Ledger!IsFirst, Ledger!Precedes, Ledger!PendingCells, Ledger!WithStatus,
           Ledger!Cells, Ledger!SetCell, IsFirst, Precedes, PendingCells, WithStatus, Cells, SetCell
      <3>3. cell \in {Ledger!Errored} \cup {Ledger!Completed(g) : g \in Calls}
        BY DEF Outcomes, Errored, Completed, Ledger!Errored, Ledger!Completed
      <3>4. Ledger!Running
        BY <2>2, NoRecordAssumption DEF Decides, Ledger!Running
      <3>5. c \in Ledger!Cells
        BY DEF Cells, Ledger!Cells
      <3>6. QED
        BY <3>2, <3>3, <3>4, <3>5 DEF Ledger!LedgerNext, Ledger!Decide
    <2>3. CASE Closes
      BY <2>3, NoRecordAssumption DEF Closes, Ledger!LedgerNext, Ledger!Close, Ledger!Running,
         Ledger!PendingCells, Ledger!WithStatus, Ledger!Cells, Ledger!Finish, Ledger!AbortRun,
         PendingCells, WithStatus, Cells, Finish, AbortRun
    <2>4. QED
      BY <2>1, <2>2, <2>3 DEF Evolves
  <1>3. IInv /\ SInv /\ SeqInv /\ [Next]_vars => [Ledger!LedgerNext]_disk
    BY <1>2, SeqNext DEF SeqKeeps, IInv
  <1>4. QED
    BY <1>1, <1>3, SuiteInvariant, SequentialInvariant, PTL
    DEF Spec, ImplementsLedger, Ledger!LedgerSpec

(* A decided cell keeps its outcome and a closed checkpoint its status.    *)
THEOREM SuiteDecisionsStay ==
  ASSUME ~Overlap
  PROVE  Spec => DecisionsStay
  <1>1. IInv /\ SInv /\ SeqInv /\ [Next]_vars =>
          [disk # None =>
             /\ disk' # None
             /\ \A c \in Cells \ PendingCells(disk) : disk'.cells[c] = disk.cells[c]
             /\ disk.status # "Running" => disk' = disk]_vars
    BY SeqNext, EvolvesKeepsDecisions DEF SeqKeeps, IInv
  <1>2. QED
    BY <1>1, SuiteInvariant, SequentialInvariant, PTL DEF Spec, DecisionsStay

(* Progress is printed only for cells the checkpoint has recorded.         *)
THEOREM SuiteReports ==
  ASSUME ~Overlap
  PROVE  Spec => []ReportedIsRecorded
  <1>1. SeqInv => ReportedIsRecorded
    BY DEF SeqInv
  <1>2. QED
    BY <1>1, SequentialInvariant, PTL

(* run_suite and resume answer Ok only for a run the checkpoint closes.    *)
THEOREM SuiteDone ==
  ASSUME ~Overlap
  PROVE  Spec => []DoneMeansClosed
  <1>1. SeqInv => DoneMeansClosed
    BY DEF SeqInv, CopyInv, DoneMeansClosed
  <1>2. QED
    BY <1>1, SequentialInvariant, PTL

(* A group is begun only for a cell that is pending in the checkpoint.     *)
THEOREM SuiteNeverReruns ==
  ASSUME ~Overlap
  PROVE  Spec => NeverRerunsATerminalCell
  <1>1. ASSUME IInv, SInv, SeqInv, [Next]_vars, NEW k \in Calls, gpc[k] = "idle", gpc'[k] # "idle"
        PROVE  disk # None /\ k[2] \in PendingCells(disk)
    <2>1. PICK p \in Procs :
            /\ pc[p] = "group"
            /\ Begin(Call(p)) \/ Advance(Call(p)) \/ Die(Call(p))
      <3>1. gpc' # gpc
        BY <1>1
      <3>2. PICK p \in Procs : Preflight(p) \/ Load(p) \/ Step(p) \/ Kill(p)
        BY <1>1, <3>1 DEF Next, MoveHead, vars, groupVars
      <3>3. CASE Kill(p)
        BY <3>1, <3>3 DEF Kill, groupVars
      <3>4. CASE Step(p)
        <4>1. ~CreateCheckpoint(p) /\ ~Revalidate(p) /\ ~StartCell(p) /\ ~BasisChanged(p)
          BY <3>1 DEF CreateCheckpoint, Revalidate, StartCell, BasisChanged, groupVars
        <4>2. ~CellCompletes(p) /\ ~CellErrs(p) /\ ~Store(p) /\ ~Emit(p)
          BY <3>1 DEF CellCompletes, CellErrs, Store, Emit, groupVars
        <4>3. ~FinishRun(p) /\ ~AbortCheckpoint(p)
          BY <3>1 DEF FinishRun, AbortCheckpoint, groupVars
        <4>4. RunCell(p)
          BY <3>4, <4>1, <4>2, <4>3 DEF Step
        <4>5. QED
          BY <4>4 DEF RunCell
      <3>5. QED
        BY <3>1, <3>2, <3>3, <3>4 DEF Preflight, Load, groupVars
    <2>2. pc[p] = "group" /\ Call(p) \in Calls /\ Call(p)[2] = cur[p]
      BY <1>1, <2>1, CallsAssumption DEF RunCell, SInv, Shape, Call
    <2>3. k = Call(p)
      BY <1>1, <2>1, <2>2, StepTouchesOneCall DEF IInv, Untouched
    <2>4. cur[p] \in PendingCells(disk) /\ disk \in Execution
      BY <1>1, <2>2 DEF SeqInv, CopyInv, TodoInv, IsFirst, SInv, Shape, Working, Idle, Ended
    <2>5. QED
      BY <2>2, <2>3, <2>4, NoRecordAssumption
  <1>2. IInv /\ SInv /\ SeqInv /\ [Next]_vars =>
          [\A k \in Calls : gpc[k] = "idle" /\ gpc'[k] # "idle" =>
             disk # None /\ k[2] \in PendingCells(disk)]_vars
    BY <1>1
  <1>3. QED
    BY <1>2, SuiteInvariant, SequentialInvariant, PTL DEF Spec, NeverRerunsATerminalCell
=============================================================================
