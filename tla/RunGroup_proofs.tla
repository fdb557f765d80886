--------------------------- MODULE RunGroup_proofs ---------------------------
(***************************************************************************)
(* What run_group promises about its files, for every number of calls and  *)
(* repeats and every combination of faults.  The invariants of             *)
(* RunGroup.tla are not inductive: that a record lists only runs whose     *)
(* results are in place holds because the copy in memory does, and that a  *)
(* record moves forward because the copy is never behind the file.         *)
(* CallInv states both, call by call; a step of one call leaves CallInv of *)
(* the others alone.                                                       *)
(***************************************************************************)
EXTENDS RunGroup, TLAPS

(* The copy in memory: what it lists is in place, and it is still Running  *)
(* until the call is about to close the group.                             *)
MemInv(k) ==
  /\ HasRuns(k, mem[k].listed)
  /\ gpc[k] \in {"idle", "create", "run", "save", "complete"} => mem[k].status = "Running"
  /\ gpc[k] \in {"idle", "create"} => mem[k].listed = 0
  /\ gpc[k] = "run" => mem[k].listed < Repeat
  /\ gpc[k] = "complete" => mem[k].listed = Repeat

(* The file: it lists what is in place, and is never ahead of the copy of  *)
(* the call that is still writing it.                                      *)
FileInv(k) ==
  /\ gpc[k] \in {"idle", "create"} => file[k] = None
  /\ file[k] # None =>
       /\ HasRuns(k, file[k].listed)
       /\ ValidGroup(file[k])
       /\ file[k].status = "Aborted" => gpc[k] = "aborted"
       /\ gpc[k] \in Active =>
            /\ file[k].listed <= mem[k].listed
            /\ file[k].commit = mem[k].commit
       /\ gpc[k] \in {"run", "save", "complete"} => file[k].status = "Running"
  /\ gpc[k] = "ok" => file[k] = mem[k] /\ mem[k].status = "Completed"

(* The results: the call has none beyond those it lists, but for one whose *)
(* write reported an error although the file was in place.                 *)
ResultInv(k) ==
  \A i \in 1 .. Repeat : <<k, i>> \in results =>
    /\ gpc[k] \in {"idle", "create", "run", "save", "complete"} => i <= mem[k].listed
    /\ gpc[k] = "abort" =>
         i <= mem[k].listed \/ ("after" \in Faults /\ i = mem[k].listed + 1)
    /\ file[k] # None /\ file[k].status = "Aborted" =>
         i <= file[k].listed \/ ("after" \in Faults /\ i = file[k].listed + 1)

CallInv(k) == MemInv(k) /\ FileInv(k) /\ ResultInv(k)

IInv == GroupTypeOK /\ \A k \in Calls : CallInv(k)
-----------------------------------------------------------------------------
(* What every step on call k leaves alone: the records, positions and      *)
(* results of the other calls.                                             *)
Untouched(j) ==
  /\ file'[j] = file[j]
  /\ gpc'[j] = gpc[j]
  /\ mem'[j] = mem[j]
  /\ \A i \in 1 .. Repeat : <<j, i>> \in results' <=> <<j, i>> \in results

LEMMA RepeatFact == Repeat \in Nat /\ Repeat >= 1
  BY RepeatAssumption

(* A call nobody touched keeps its invariant.                              *)
LEMMA UntouchedInv ==
  ASSUME GroupTypeOK, NEW j \in Calls, CallInv(j), Untouched(j)
  PROVE  CallInv(j)'
  <1>1. MemInv(j)'
    BY RepeatFact DEF CallInv, MemInv, Untouched, HasRuns, GroupTypeOK, Group
  <1>2. FileInv(j)'
    <2>1. file[j] # None => file[j] \in Group
      BY DEF GroupTypeOK
    <2>2. QED
      BY <2>1, RepeatFact DEF CallInv, FileInv, Untouched, HasRuns, GroupTypeOK, Group, ValidGroup
  <1>3. ResultInv(j)'
    BY DEF CallInv, ResultInv, Untouched
  <1>4. QED
    BY <1>1, <1>2, <1>3 DEF CallInv

LEMMA StepTouchesOneCall ==
  ASSUME GroupTypeOK, NEW k \in Calls, Begin(k) \/ Advance(k) \/ Die(k),
         NEW j \in Calls, j # k
  PROVE  Untouched(j)
  <1>1. \A i : <<j, i>> # <<k, mem[k].listed + 1>>
    OBVIOUS
  <1>2. CASE Begin(k)
    BY <1>2 DEF Begin, Untouched, Goto, Quit, GroupTypeOK
  <1>3. CASE Create(k)
    BY <1>3 DEF Create, Untouched, Goto, Quit, Save, GroupTypeOK
  <1>4. CASE RunReturns(k)
    BY <1>1, <1>4 DEF RunReturns, Untouched, Goto, GroupTypeOK
  <1>5. CASE RunFails(k)
    BY <1>1, <1>5 DEF RunFails, Untouched, Goto, GroupTypeOK
  <1>6. CASE SaveRuns(k)
    BY <1>6 DEF SaveRuns, Untouched, Goto, Save, GroupTypeOK
  <1>7. CASE Complete(k)
    BY <1>7 DEF Complete, Untouched, Goto, Save, GroupTypeOK
  <1>8. CASE Abort(k)
    BY <1>8 DEF Abort, Untouched, Goto, Quit, Save, GroupTypeOK
  <1>9. CASE Die(k)
    BY <1>9 DEF Die, Untouched, Goto, Quit, GroupTypeOK
  <1>10. QED
    BY <1>2, <1>3, <1>4, <1>5, <1>6, <1>7, <1>8, <1>9 DEF Advance

-----------------------------------------------------------------------------
(* Each action of call k keeps the types and the invariant of k.           *)
KInv(k) == GroupTypeOK /\ CallInv(k)

LEMMA NewGroupFact == NewGroup \in Group
  BY RepeatFact DEF NewGroup, Group, GroupStatus

LEMMA BeginKeeps ==
  ASSUME NEW k \in Calls, KInv(k), Begin(k)
  PROVE  KInv(k)'
  <1>1. GroupTypeOK'
    <2>1. CASE mem' = [mem EXCEPT ![k].commit = head] /\ Goto(k, "create")
      <3>1. mem[k] \in Group /\ head \in Commits
        BY DEF KInv, GroupTypeOK
      <3>2. [mem[k] EXCEPT !.commit = head] \in Group
        BY <3>1 DEF Group
      <3>3. mem' \in [Calls -> Group]
        BY <2>1, <3>2 DEF KInv, GroupTypeOK
      <3>4. QED
        BY <2>1, <3>3 DEF KInv, GroupTypeOK, Begin, Goto, Active
    <2>2. CASE Quit(k, "err")
      BY <2>2, NewGroupFact DEF KInv, GroupTypeOK, Begin, Goto, Quit, Returned
    <2>3. QED
      BY <2>1, <2>2 DEF Begin
  <1>2. MemInv(k)'
    BY RepeatFact DEF KInv, CallInv, MemInv, GroupTypeOK, Begin, Goto, Quit, HasRuns, NewGroup, Group
  <1>3. FileInv(k)'
    BY DEF KInv, CallInv, FileInv, GroupTypeOK, Begin, Goto, Quit
  <1>4. ResultInv(k)'
    BY DEF KInv, CallInv, FileInv, ResultInv, GroupTypeOK, Begin, Goto, Quit, Group
  <1>5. QED
    BY <1>1, <1>2, <1>3, <1>4 DEF KInv, CallInv

LEMMA CreateKeeps ==
  ASSUME NEW k \in Calls, KInv(k), Create(k)
  PROVE  KInv(k)'
  <1>1. PICK outcome \in WriteOutcomes :
          /\ Save(k, mem[k], outcome)
          /\ IF Saved(mem[k], outcome) THEN Goto(k, "run") /\ UNCHANGED mem
                                       ELSE Quit(k, "err")
    BY DEF Create
  <1>2. gpc[k] = "create" /\ file[k] = None /\ mem[k].listed = 0 /\ mem[k].status = "Running"
    BY DEF Create, KInv, CallInv, MemInv, FileInv
  <1>3. GroupTypeOK'
    BY <1>1, NewGroupFact DEF KInv, GroupTypeOK, Create, Goto, Quit, Save, Active, Returned
  <1>4. MemInv(k)'
    BY <1>1, <1>2, RepeatFact DEF KInv, CallInv, MemInv, GroupTypeOK, Create, Goto, Quit, HasRuns, NewGroup, Group
  <1>5. FileInv(k)'
    BY <1>1, <1>2, RepeatFact DEF KInv, CallInv, MemInv, FileInv, GroupTypeOK, Create, Goto, Quit, Save, HasRuns, Group, Active
  <1>6. ResultInv(k)'
    BY <1>1, <1>2 DEF KInv, CallInv, ResultInv, GroupTypeOK, Create, Goto, Quit, Save, Group
  <1>7. QED
    BY <1>3, <1>4, <1>5, <1>6 DEF KInv, CallInv

LEMMA RunReturnsKeeps ==
  ASSUME NEW k \in Calls, KInv(k), RunReturns(k)
  PROVE  KInv(k)'
  <1>1. /\ gpc[k] = "run"
        /\ mem[k].status = "Running"
        /\ mem[k].listed \in 0 .. Repeat - 1
        /\ mem' = [mem EXCEPT ![k].listed = mem[k].listed + 1]
        /\ Goto(k, "save")
        /\ results' = results \cup {<<k, mem[k].listed + 1>>}
        /\ UNCHANGED <<head, file>>
    BY RepeatFact DEF RunReturns, KInv, CallInv, MemInv, GroupTypeOK, Group
  <1>2. GroupTypeOK'
    <2>1. mem[k] \in Group /\ mem[k].listed + 1 \in 0 .. Repeat
      BY <1>1, RepeatFact DEF KInv, GroupTypeOK
    <2>2. [mem[k] EXCEPT !.listed = mem[k].listed + 1] \in Group
      BY <2>1 DEF Group
    <2>3. mem' \in [Calls -> Group]
      BY <1>1, <2>2 DEF KInv, GroupTypeOK
    <2>4. <<k, mem[k].listed + 1>> \in Calls \X (1 .. Repeat)
      BY <1>1, RepeatFact
    <2>5. QED
      BY <1>1, <2>3, <2>4 DEF KInv, GroupTypeOK, Goto, Active
  <1>3. MemInv(k)'
    <2>1. mem'[k].listed = mem[k].listed + 1 /\ mem'[k].status = "Running" /\ gpc'[k] = "save"
      BY <1>1 DEF KInv, GroupTypeOK, Goto, Group
    <2>2. \A i \in 1 .. mem[k].listed + 1 : i \in 1 .. mem[k].listed \/ i = mem[k].listed + 1
      BY <1>1, RepeatFact
    <2>3. HasRuns(k, mem[k].listed)
      BY DEF KInv, CallInv, MemInv
    <2>4. \A i \in 1 .. mem[k].listed + 1 : <<k, i>> \in results'
      BY <1>1, <2>1, <2>2, <2>3 DEF HasRuns
    <2>5. QED
      BY <2>1, <2>4 DEF MemInv, HasRuns
  <1>4. FileInv(k)'
    BY <1>1, RepeatFact DEF KInv, CallInv, FileInv, GroupTypeOK, Goto, HasRuns, Group, Active
  <1>5. ResultInv(k)'
    BY <1>1, RepeatFact DEF KInv, CallInv, FileInv, ResultInv, GroupTypeOK, Goto, Group
  <1>6. QED
    BY <1>2, <1>3, <1>4, <1>5 DEF KInv, CallInv

LEMMA RunFailsKeeps ==
  ASSUME NEW k \in Calls, KInv(k), RunFails(k)
  PROVE  KInv(k)'
  <1>1. /\ gpc[k] = "run"
        /\ mem[k].listed \in 0 .. Repeat - 1
        /\ Goto(k, "abort")
        /\ \/ UNCHANGED results
           \/ "after" \in Faults /\ results' = results \cup {<<k, mem[k].listed + 1>>}
        /\ UNCHANGED <<head, file, mem>>
    BY RepeatFact DEF RunFails, KInv, CallInv, MemInv, GroupTypeOK, Group
  <1>2. GroupTypeOK'
    BY <1>1, RepeatFact DEF KInv, GroupTypeOK, Goto, Active
  <1>3. MemInv(k)'
    BY <1>1, RepeatFact DEF KInv, CallInv, MemInv, GroupTypeOK, Goto, HasRuns
  <1>4. FileInv(k)'
    BY <1>1, RepeatFact DEF KInv, CallInv, FileInv, GroupTypeOK, Goto, HasRuns, Group, Active
  <1>5. ResultInv(k)'
    BY <1>1, RepeatFact DEF KInv, CallInv, FileInv, ResultInv, GroupTypeOK, Goto, Group
  <1>6. QED
    BY <1>2, <1>3, <1>4, <1>5 DEF KInv, CallInv

LEMMA SaveRunsKeeps ==
  ASSUME NEW k \in Calls, KInv(k), SaveRuns(k)
  PROVE  KInv(k)'
  <1>1. PICK outcome \in WriteOutcomes :
          /\ Save(k, mem[k], outcome)
          /\ Goto(k, IF ~Saved(mem[k], outcome) THEN "abort"
                     ELSE IF mem[k].listed = Repeat THEN "complete" ELSE "run")
    BY DEF SaveRuns
  <1>2. /\ gpc[k] = "save"
        /\ mem[k] \in Group
        /\ mem[k].status = "Running"
        /\ gpc'[k] \in {"abort", "complete", "run"}
        /\ gpc'[k] = "complete" => mem[k].listed = Repeat
        /\ gpc'[k] = "run" => mem[k].listed # Repeat
        /\ UNCHANGED <<head, results, mem>>
    BY <1>1 DEF SaveRuns, KInv, CallInv, MemInv, GroupTypeOK, Goto
  <1>3. GroupTypeOK'
    BY <1>1, <1>2 DEF KInv, GroupTypeOK, Goto, Save, Active
  <1>4. MemInv(k)'
    BY <1>2, RepeatFact DEF KInv, CallInv, MemInv, HasRuns, Group
  <1>5. file'[k] = file[k] \/ (file'[k] = mem[k] /\ ValidGroup(mem[k]))
    BY <1>1 DEF Save, KInv, GroupTypeOK
  <1>6. FileInv(k)'
    BY <1>2, <1>5, RepeatFact DEF KInv, CallInv, MemInv, FileInv, HasRuns, ValidGroup, Group, Active
  <1>7. ResultInv(k)'
    BY <1>2, <1>5, RepeatFact DEF KInv, CallInv, FileInv, ResultInv, Group
  <1>8. QED
    BY <1>3, <1>4, <1>6, <1>7 DEF KInv, CallInv

LEMMA CompleteKeeps ==
  ASSUME NEW k \in Calls, KInv(k), Complete(k)
  PROVE  KInv(k)'
  <1>1. PICK outcome \in WriteOutcomes :
          /\ Save(k, mem'[k], outcome)
          /\ Goto(k, IF Saved(mem'[k], outcome) THEN "ok" ELSE "abort")
    BY DEF Complete
  <1>2. /\ gpc[k] = "complete"
        /\ mem[k] \in Group
        /\ mem' = [mem EXCEPT ![k].status = "Completed"]
        /\ mem[k].listed = Repeat
        /\ gpc'[k] \in {"abort", "ok"}
        /\ UNCHANGED <<head, results>>
    BY <1>1 DEF Complete, KInv, CallInv, MemInv, GroupTypeOK, Goto
  <1>3. /\ mem'[k] \in Group
        /\ mem'[k].status = "Completed"
        /\ mem'[k].listed = mem[k].listed
        /\ mem'[k].commit = mem[k].commit
    BY <1>2 DEF KInv, GroupTypeOK, Group, GroupStatus
  <1>4. GroupTypeOK'
    BY <1>1, <1>2, <1>3 DEF KInv, GroupTypeOK, Goto, Save, Active, Returned, Group, GroupStatus
  <1>5. MemInv(k)'
    BY <1>2, <1>3, RepeatFact DEF KInv, CallInv, MemInv, HasRuns, Group
  <1>6. /\ file'[k] = file[k] \/ file'[k] = mem'[k]
        /\ gpc'[k] = "ok" => file'[k] = mem'[k]
    BY <1>1 DEF Save, Saved, Installed, Goto, KInv, GroupTypeOK
  <1>7. ValidGroup(mem'[k])
    BY <1>2, <1>3, RepeatFact DEF ValidGroup
  <1>8. FileInv(k)'
    BY <1>2, <1>3, <1>6, <1>7, RepeatFact DEF KInv, CallInv, MemInv, FileInv, HasRuns, ValidGroup, Group, Active
  <1>9. ResultInv(k)'
    BY <1>2, <1>3, <1>6, RepeatFact DEF KInv, CallInv, FileInv, ResultInv, Group, Active
  <1>10. QED
    BY <1>4, <1>5, <1>8, <1>9 DEF KInv, CallInv

LEMMA AbortKeeps ==
  ASSUME NEW k \in Calls, KInv(k), Abort(k)
  PROVE  KInv(k)'
  <1> DEFINE aborted == [mem[k] EXCEPT !.status = "Aborted"]
  <1>1. PICK outcome \in WriteOutcomes : Save(k, aborted, outcome)
    BY DEF Abort
  <1>2. /\ gpc[k] = "abort"
        /\ mem[k] \in Group
        /\ gpc' = [gpc EXCEPT ![k] = "aborted"]
        /\ mem' = [mem EXCEPT ![k] = NewGroup]
        /\ UNCHANGED <<head, results>>
    BY DEF Abort, Quit, Goto, KInv, GroupTypeOK
  <1>3. /\ aborted \in Group
        /\ aborted.status = "Aborted"
        /\ aborted.listed = mem[k].listed
        /\ aborted.commit = mem[k].commit
    BY <1>2 DEF Group, GroupStatus
  <1>4. GroupTypeOK'
    <2> HIDE DEF aborted
    <2>1. QED
      BY <1>1, <1>2, <1>3, NewGroupFact DEF KInv, GroupTypeOK, Save, Active, Returned
  <1>5. MemInv(k)'
    BY <1>2, RepeatFact DEF KInv, CallInv, MemInv, HasRuns, NewGroup, GroupTypeOK
  <1>6. gpc'[k] = "aborted" /\ (file'[k] = file[k] \/ file'[k] = aborted)
    <2> HIDE DEF aborted
    <2>1. QED
      BY <1>1, <1>2 DEF Save, KInv, GroupTypeOK
  <1>7. ValidGroup(aborted)
    <2> HIDE DEF aborted
    <2>1. QED
      BY <1>3, RepeatFact DEF ValidGroup, Group
  <1>8. FileInv(k)'
    <2> HIDE DEF aborted
    <2>1. QED
      BY <1>2, <1>3, <1>6, <1>7, RepeatFact DEF KInv, CallInv, MemInv, FileInv, HasRuns, ValidGroup, Active
  <1>9. ResultInv(k)'
    <2> HIDE DEF aborted
    <2>1. QED
      BY <1>2, <1>3, <1>6, RepeatFact DEF KInv, CallInv, FileInv, ResultInv
  <1>10. QED
    BY <1>4, <1>5, <1>8, <1>9 DEF KInv, CallInv

LEMMA DieKeeps ==
  ASSUME NEW k \in Calls, KInv(k), Die(k)
  PROVE  KInv(k)'
  <1>1. /\ gpc[k] \in Active
        /\ gpc' = [gpc EXCEPT ![k] = "dead"]
        /\ mem' = [mem EXCEPT ![k] = NewGroup]
        /\ UNCHANGED <<head, file, results>>
    BY DEF Die, Quit, Goto
  <1>2. GroupTypeOK'
    BY <1>1, NewGroupFact DEF KInv, GroupTypeOK
  <1>3. MemInv(k)'
    BY <1>1, RepeatFact DEF KInv, CallInv, MemInv, HasRuns, NewGroup, GroupTypeOK
  <1>4. FileInv(k)'
    BY <1>1 DEF KInv, CallInv, FileInv, HasRuns, GroupTypeOK, Active
  <1>5. ResultInv(k)'
    BY <1>1 DEF KInv, CallInv, ResultInv, GroupTypeOK
  <1>6. QED
    BY <1>2, <1>3, <1>4, <1>5 DEF KInv, CallInv
-----------------------------------------------------------------------------
LEMMA IInvInit == GroupInit => IInv
  <1> SUFFICES ASSUME GroupInit PROVE IInv
    OBVIOUS
  <1>1. GroupTypeOK
    BY NewGroupFact DEF GroupInit, GroupTypeOK, NoGroup
  <1>2. \A k \in Calls : CallInv(k)
    BY RepeatFact DEF GroupInit, CallInv, MemInv, FileInv, ResultInv, HasRuns, NewGroup, NoGroup, Active
  <1>3. QED
    BY <1>1, <1>2 DEF IInv

LEMMA CallStepKeeps ==
  ASSUME NEW k \in Calls, KInv(k), Begin(k) \/ Advance(k) \/ Die(k)
  PROVE  KInv(k)'
  BY BeginKeeps, CreateKeeps, RunReturnsKeeps, RunFailsKeeps, SaveRunsKeeps,
     CompleteKeeps, AbortKeeps, DieKeeps DEF Advance

LEMMA IInvStep == IInv /\ [GroupNext]_groupVars => IInv'
  <1> SUFFICES ASSUME IInv, [GroupNext]_groupVars PROVE IInv'
    OBVIOUS
  <1>1. ASSUME NEW k \in Calls, Begin(k) \/ Advance(k) \/ Die(k)
        PROVE  IInv'
    <2>1. KInv(k)'
      BY <1>1, CallStepKeeps DEF IInv, KInv
    <2>2. ASSUME NEW j \in Calls, j # k
          PROVE  CallInv(j)'
      <3>1. Untouched(j)
        BY <1>1, <2>2, StepTouchesOneCall DEF IInv
      <3>2. QED
        BY <2>2, <3>1, UntouchedInv DEF IInv
    <2>3. QED
      BY <2>1, <2>2 DEF IInv, KInv
  <1>2. ASSUME MoveHead \/ UNCHANGED groupVars
        PROVE  IInv'
    <2>1. GroupTypeOK'
      BY <1>2 DEF IInv, GroupTypeOK, MoveHead, groupVars
    <2>2. \A j \in Calls : Untouched(j)
      BY <1>2 DEF Untouched, MoveHead, groupVars
    <2>3. QED
      BY <2>1, <2>2, UntouchedInv DEF IInv
  <1>3. QED
    BY <1>1, <1>2 DEF GroupNext

THEOREM GroupInvariant == GroupSpec => []IInv
  BY IInvInit, IInvStep, PTL DEF GroupSpec

-----------------------------------------------------------------------------
(* The variables of run_group keep their types, whatever fails.            *)
THEOREM GroupTypes == GroupSpec => []GroupTypeOK
  <1>1. IInv => GroupTypeOK
    BY DEF IInv
  <1>2. QED
    BY <1>1, GroupInvariant, PTL

(* A group record on disk never lists a run whose result.json is not in    *)
(* place, and one that says Completed lists every requested run.           *)
THEOREM GroupEvidence == GroupSpec => []GroupsHaveEvidence
  <1>1. IInv => GroupsHaveEvidence
    BY DEF IInv, CallInv, FileInv, ValidGroup, GroupsHaveEvidence
  <1>2. QED
    BY <1>1, GroupInvariant, PTL

(* run_group answers Ok only for a group whose record says Completed.      *)
THEOREM GroupOk == GroupSpec => []OkMeansCompleted
  <1>1. IInv => OkMeansCompleted
    BY DEF IInv, CallInv, FileInv, OkMeansCompleted
  <1>2. QED
    BY <1>1, GroupInvariant, PTL

(* An Aborted record lists the runs that returned before the failure.      *)
THEOREM GroupAborts == GroupSpec => []AbortedListsItsRuns
  <1>1. IInv => AbortedListsItsRuns
    BY DEF IInv, CallInv, ResultInv, AbortedListsItsRuns
  <1>2. QED
    BY <1>1, GroupInvariant, PTL

-----------------------------------------------------------------------------
(* What a step does to a file that exists, from IInv.                      *)
Forward(k) ==
  file[k] # None /\ file'[k] # file[k] =>
    /\ file'[k] # None
    /\ file'[k].commit = file[k].commit
    /\ file'[k].listed >= file[k].listed
    /\ file[k].status # "Aborted"
    /\ file[k].status = "Completed" =>
         file'[k].status = "Aborted" /\ gpc[k] = "abort"

(* Only the calls that save can change the file, and they save their copy, *)
(* or the copy with the status the step gives it.                          *)
LEMMA SavesItsCopy ==
  ASSUME NEW k \in Calls, KInv(k), Begin(k) \/ Advance(k) \/ Die(k),
         file'[k] # file[k]
  PROVE  \E g \in Group :
           /\ file'[k] = g
           /\ g.listed = mem[k].listed
           /\ g.commit = mem[k].commit
           /\ gpc[k] \in {"create", "save", "complete", "abort"}
           /\ gpc[k] = "abort" => g.status = "Aborted"
  <1>1. mem[k] \in Group /\ file \in [Calls -> Group \cup {None}]
    BY DEF KInv, GroupTypeOK
  <1>2. CASE Begin(k) \/ RunReturns(k) \/ RunFails(k) \/ Die(k)
    BY <1>2 DEF Begin, RunReturns, RunFails, Die
  <1>3. CASE Create(k)
    BY <1>1, <1>3 DEF Create, Save
  <1>4. CASE SaveRuns(k)
    BY <1>1, <1>4 DEF SaveRuns, Save
  <1>5. CASE Complete(k)
    <2>1. /\ mem'[k] \in Group
          /\ mem'[k].listed = mem[k].listed
          /\ mem'[k].commit = mem[k].commit
      BY <1>5 DEF Complete, KInv, GroupTypeOK, Group, GroupStatus
    <2>2. PICK outcome \in WriteOutcomes : Save(k, mem'[k], outcome)
      BY <1>5 DEF Complete
    <2>3. file'[k] = mem'[k] /\ gpc[k] = "complete"
      BY <1>1, <1>5, <2>2 DEF Save, Complete
    <2>4. QED
      BY <2>1, <2>3
  <1>6. CASE Abort(k)
    <2> DEFINE aborted == [mem[k] EXCEPT !.status = "Aborted"]
    <2>1. PICK outcome \in WriteOutcomes : Save(k, aborted, outcome)
      BY <1>6 DEF Abort
    <2>2. /\ aborted \in Group
          /\ aborted.status = "Aborted"
          /\ aborted.listed = mem[k].listed
          /\ aborted.commit = mem[k].commit
      BY <1>1 DEF Group, GroupStatus
    <2> HIDE DEF aborted
    <2>3. file'[k] = aborted /\ gpc[k] = "abort"
      BY <1>1, <1>6, <2>1 DEF Save, Abort
    <2>4. QED
      BY <2>2, <2>3
  <1>7. QED
    BY <1>2, <1>3, <1>4, <1>5, <1>6 DEF Advance

LEMMA StepForward ==
  ASSUME IInv, [GroupNext]_groupVars, NEW k \in Calls
  PROVE  Forward(k)
  <1> SUFFICES ASSUME file[k] # None, file'[k] # file[k]
               PROVE  Forward(k)
    BY DEF Forward
  <1>1. Begin(k) \/ Advance(k) \/ Die(k)
    BY StepTouchesOneCall DEF IInv, GroupNext, MoveHead, groupVars, Untouched
  <1>2. PICK g \in Group :
          /\ file'[k] = g
          /\ g.listed = mem[k].listed
          /\ g.commit = mem[k].commit
          /\ gpc[k] \in {"create", "save", "complete", "abort"}
          /\ gpc[k] = "abort" => g.status = "Aborted"
    BY <1>1, SavesItsCopy DEF IInv, KInv
  <1>3. /\ gpc[k] \in {"save", "complete", "abort"}
        /\ file[k].listed <= mem[k].listed
        /\ file[k].commit = mem[k].commit
        /\ file[k].status # "Aborted"
        /\ gpc[k] # "abort" => file[k].status = "Running"
    BY <1>2 DEF IInv, CallInv, FileInv, Active
  <1>4. file[k].listed \in Nat /\ mem[k].listed \in Nat
    BY RepeatFact DEF IInv, GroupTypeOK, Group
  <1>5. g # None
    BY <1>2, NoneAssumption
  <1>6. QED
    BY <1>2, <1>3, <1>4, <1>5 DEF Forward

(* A group file only moves forward, and what run_group answered Ok for     *)
(* never changes again.                                                    *)
THEOREM GroupMoves == GroupSpec => GroupFilesMoveForward
  <1>1. IInv /\ [GroupNext]_groupVars =>
          [\A k \in Calls : file[k] # None /\ file'[k] # file[k] =>
             /\ file'[k] # None
             /\ file'[k].commit = file[k].commit
             /\ file'[k].listed >= file[k].listed
             /\ file[k].status # "Aborted"
             /\ file[k].status = "Completed" =>
                  file'[k].status = "Aborted" /\ gpc[k] = "abort"]_groupVars
    BY StepForward DEF Forward
  <1>2. QED
    BY <1>1, GroupInvariant, PTL DEF GroupSpec, GroupFilesMoveForward
=============================================================================
