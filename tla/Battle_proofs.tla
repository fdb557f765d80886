---------------------------- MODULE Battle_proofs ----------------------------
(***************************************************************************)
(* Proofs about what is read from run groups: by the two reports, and by a *)
(* battle, which relies on the groups its agents leave.  Both rest on the  *)
(* invariant of RunGroup_proofs and on two facts about it: what a call     *)
(* that returned left behind stays (Settled), and results only grow        *)
(* (ResultsGrow).  The reader's invariants say that what was read is still *)
(* what is there.                                                          *)
(***************************************************************************)
EXTENDS Battle, RunGroup_proofs

(* A call that returned or was killed.                                     *)
Quiet(k) == gpc[k] \notin Active \cup {"idle"}

(* What load_selection holds.                                              *)
SelectInv ==
  /\ chosen \in Calls
  /\ picked \in Group \cup {None}
  /\ spc \in {"start", "found", "rendered", "not_found"}
  /\ spc = "found" => picked # None /\ HasRuns(chosen, picked.listed)

(* What load_report holds.                                                 *)
ReadInv ==
  /\ rpc \in {"start", "list", "load", "rendered", "not_found", "incompatible"}
  /\ seen \subseteq Calls \X (1 .. Repeat)
  /\ unread \subseteq Calls
  /\ read \in [Calls -> Group \cup {None}]
  /\ rpc \in {"start", "list"} => read = NoGroup

(* Started when nothing runs, it reads what is there until it ends.        *)
StillInv ==
  rpc # "start" =>
    /\ \A k \in Calls : Quiet(k)
    /\ seen = results
    /\ \A k \in Calls : read[k] # None => read[k] = file[k]
    /\ rpc = "load" => \A k \in Calls \ unread : read[k] = file[k]
    /\ rpc # "not_found"

-----------------------------------------------------------------------------
(* What a call that returned left behind stays as it is.                   *)
LEMMA Settled ==
  ASSUME GroupTypeOK, [GroupNext]_groupVars, NEW k \in Calls, Quiet(k)
  PROVE  Untouched(k) /\ Quiet(k)'
<1>1. ~(Begin(k) \/ Advance(k) \/ Die(k))
  BY DEF Quiet, Begin, Advance, Die, Create, RunReturns, RunFails, SaveRuns, Complete,
      Abort, Active
<1>2. CASE MoveHead \/ UNCHANGED groupVars
  BY <1>2 DEF MoveHead, groupVars, Untouched, Quiet
<1>3. ASSUME NEW j \in Calls, Begin(j) \/ Advance(j) \/ Die(j)
      PROVE  Untouched(k)
  BY <1>1, <1>3, StepTouchesOneCall
<1> QED BY <1>2, <1>3 DEF GroupNext, Untouched, Quiet

(* No result ever goes away.                                               *)
LEMMA ResultsGrow ==
  ASSUME [GroupNext]_groupVars
  PROVE  results \subseteq results'
BY DEF GroupNext, groupVars, MoveHead, Begin, Advance, Die, Create, RunReturns, RunFails,
       SaveRuns, Complete, Abort

(* A record on disk is a group whose listed results are in place.          *)
LEMMA FilesAreWhole ==
  ASSUME IInv, NEW k \in Calls, file[k] # None
  PROVE  file[k] \in Group /\ HasRuns(k, file[k].listed)
BY DEF IInv, CallInv, FileInv, GroupTypeOK

(* A step of the writers keeps what a selected group lists in place.       *)
LEMMA SelectGroupStep ==
  ASSUME IInv, SelectInv, [GroupNext]_groupVars, UNCHANGED selectVars
  PROVE  SelectInv'
BY ResultsGrow DEF SelectInv, selectVars, HasRuns

(* A selection takes a whole group or finds none.                          *)
LEMMA SelectReadStep ==
  ASSUME IInv, SelectInv, Read
  PROVE  SelectInv'
<1>1. CASE SelectGroup
  BY <1>1, FilesAreWhole, NoneAssumption
  DEF SelectInv, SelectGroup, reportVars, groupVars, HasRuns
<1>2. CASE SelectResults
  BY <1>2 DEF SelectInv, SelectResults
<1>3. CASE UNCHANGED <<groupVars, selectVars>>
  BY <1>3 DEF SelectInv, groupVars, selectVars, HasRuns
<1> QED
  BY <1>1, <1>2, <1>3 DEF Read, LoadResults, ListGroups, LoadGroup, Conclude

(* The report of all holds groups, whichever it reads.                     *)
LEMMA ReadReadStep ==
  ASSUME IInv, ReadInv, Read
  PROVE  ReadInv'
<1>1. file \in [Calls -> Group \cup {None}] /\ results \subseteq Calls \X (1 .. Repeat)
  BY DEF IInv, GroupTypeOK
<1>2. CASE LoadResults BY <1>1, <1>2 DEF ReadInv, LoadResults
<1>3. CASE ListGroups BY <1>3 DEF ReadInv, ListGroups
<1>4. ASSUME NEW k \in Calls, LoadGroup(k) PROVE ReadInv'
  BY <1>1, <1>4 DEF ReadInv, LoadGroup
<1>5. CASE Conclude BY <1>5 DEF ReadInv, Conclude
<1>6. CASE UNCHANGED reportVars BY <1>6 DEF ReadInv, reportVars
<1> QED BY <1>2, <1>3, <1>4, <1>5, <1>6 DEF Read, SelectGroup, SelectResults

(* Nothing changes what the report of all reads once nothing runs.         *)
LEMMA StillGroupStep ==
  ASSUME IInv, ReadInv, StillInv, [GroupNext]_groupVars, UNCHANGED reportVars
  PROVE  StillInv'
<1> SUFFICES ASSUME rpc # "start" PROVE StillInv' BY DEF StillInv, reportVars
<1>1. \A k \in Calls : Untouched(k) /\ Quiet(k)'
  BY Settled DEF StillInv, IInv
<1>2. results \subseteq Calls \X (1 .. Repeat) /\ results' \subseteq Calls \X (1 .. Repeat)
  BY IInvStep DEF IInv, GroupTypeOK
<1>3. results' = results BY <1>1, <1>2 DEF Untouched
<1> QED BY <1>1, <1>3 DEF StillInv, Untouched, reportVars

(* So what it read is what is there, and lists what it has seen.           *)
LEMMA StillReadStep ==
  ASSUME IInv, ReadInv, StillInv, ~Racing, Read
  PROVE  StillInv'
<1> USE DEF groupVars
<1>1. CASE LoadResults
  BY <1>1 DEF StillInv, ReadInv, LoadResults, Quiet, NoGroup
<1>2. CASE ListGroups
  BY <1>2 DEF StillInv, ReadInv, ListGroups, Quiet, NoGroup
<1>3. ASSUME NEW k \in Calls, LoadGroup(k) PROVE StillInv'
  BY <1>3 DEF StillInv, ReadInv, LoadGroup, Quiet
<1>4. CASE Conclude
  <2>1. \A k \in Calls : Listed(k) \subseteq seen
    <3> SUFFICES ASSUME NEW k \in Calls, read[k] # None
                 PROVE  \A i \in 1 .. read[k].listed : <<k, i>> \in seen
      BY DEF Listed
    <3>1. read[k] = file[k] /\ seen = results BY <1>4 DEF StillInv, Conclude
    <3> QED BY <3>1, FilesAreWhole DEF HasRuns
  <2> QED BY <1>4, <2>1 DEF StillInv, Conclude, Quiet
<1>5. CASE UNCHANGED <<groupVars, reportVars>>
  BY <1>5 DEF StillInv, reportVars, Quiet
<1> QED BY <1>1, <1>2, <1>3, <1>4, <1>5 DEF Read, SelectGroup, SelectResults

(* The readers beside the writers.                                         *)
ReaderInv == IInv /\ SelectInv /\ ReadInv /\ (~Racing => StillInv)

(* Nothing is read at first.                                               *)
LEMMA ReaderInit == Init => ReaderInv
<1> SUFFICES ASSUME Init PROVE ReaderInv OBVIOUS
<1>1. IInv BY IInvInit DEF Init
<1> QED BY <1>1 DEF Init, ReaderInv, SelectInv, ReadInv, StillInv, NoGroup

(* The writers keep the readers' invariant.                                *)
LEMMA ReaderGroupStep ==
  ASSUME ReaderInv, [GroupNext]_groupVars, UNCHANGED <<reportVars, selectVars>>
  PROVE  ReaderInv'
<1>1. IInv' BY IInvStep DEF ReaderInv
<1>2. SelectInv' BY SelectGroupStep DEF ReaderInv
<1>3. ReadInv' BY DEF ReaderInv, ReadInv, reportVars
<1>4. ~Racing => StillInv' BY StillGroupStep DEF ReaderInv
<1> QED BY <1>1, <1>2, <1>3, <1>4 DEF ReaderInv

(* The readers keep it, and leave the files alone.                         *)
LEMMA ReaderReadStep ==
  ASSUME ReaderInv, Read
  PROVE  ReaderInv' /\ UNCHANGED groupVars
<1>1. UNCHANGED groupVars
  BY DEF Read, LoadResults, ListGroups, LoadGroup, Conclude, SelectGroup, SelectResults
<1>2. IInv' BY <1>1, IInvStep DEF ReaderInv
<1>3. SelectInv' /\ ReadInv' BY SelectReadStep, ReadReadStep DEF ReaderInv
<1>4. ~Racing => StillInv' BY StillReadStep DEF ReaderInv
<1> QED BY <1>1, <1>2, <1>3, <1>4 DEF ReaderInv

(* Whatever is written while it is read, the readers' invariant holds.     *)
THEOREM ReaderInvariant == Spec => []ReaderInv
<1>1. ReaderInv /\ [Next]_allVars => ReaderInv'
  BY ReaderGroupStep, ReaderReadStep DEF Next, allVars
<1> QED BY ReaderInit, <1>1, PTL DEF Spec

(* The readers hold groups and results.                                    *)
THEOREM ReaderTypes == Spec => []ReaderTypeOK
<1>1. ReaderInv => ReaderTypeOK BY DEF ReaderInv, ReadInv, SelectInv, ReaderTypeOK
<1> QED BY ReaderInvariant, <1>1, PTL

(* A group selected by its UUID is whole at whatever moment it is read.    *)
THEOREM ReaderSelects == Spec => []SelectionIsWhole
<1>1. ReaderInv => SelectionIsWhole BY DEF ReaderInv, SelectInv, SelectionIsWhole
<1> QED BY ReaderInvariant, <1>1, PTL

(* The report of all misses no run, when nothing runs as it begins.        *)
THEOREM ReaderFinds == ASSUME ~Racing PROVE Spec => []ReportFindsItsRuns
<1>1. ReaderInv => ReportFindsItsRuns BY DEF ReaderInv, StillInv, ReportFindsItsRuns
<1> QED BY ReaderInvariant, <1>1, PTL

-----------------------------------------------------------------------------
(* With storage that works and no kill, a call that returned left no group *)
(* or one that is closed and lists all its results.                        *)
Tidy(k) ==
  /\ gpc[k] # "dead"
  /\ gpc[k] = "err" => file[k] = None /\ \A i \in 1 .. Repeat : <<k, i>> \notin results
  /\ gpc[k] \in {"run", "save", "complete", "abort"} => file[k] # None
  /\ gpc[k] = "aborted" => file[k] # None /\ file[k].status = "Aborted"

(* Storage works and nobody kills the process.                             *)
ToolsWork == Faults \cap {"before", "after", "kill"} = {}

(* Whatever the calls do, the others are none of its concern.              *)
LEMMA TidyStep ==
  ASSUME ToolsWork, IInv, NEW k \in Calls, Tidy(k), [GroupNext]_groupVars
  PROVE  Tidy(k)'
<1>1. WriteOutcomes = {"ok"} /\ ~Die(k)
  BY DEF ToolsWork, WriteOutcomes, Die
<1>2. GroupTypeOK /\ CallInv(k) /\ mem[k] \in Group BY DEF IInv, GroupTypeOK
<1>3. CASE Begin(k)
  BY <1>1, <1>2, <1>3, RepeatFact
  DEF Tidy, Begin, Quit, Goto, GroupTypeOK, CallInv, MemInv, FileInv, ResultInv
<1>4. CASE Create(k)
  BY <1>1, <1>2, <1>4, NoneAssumption, RepeatFact
  DEF Tidy, Create, Save, Saved, Installed, ValidGroup, Goto, Quit, GroupTypeOK,
      CallInv, MemInv, Group
<1>5. CASE RunReturns(k)
  BY <1>2, <1>5 DEF Tidy, RunReturns, Goto, GroupTypeOK
<1>6. CASE RunFails(k)
  BY <1>2, <1>6 DEF Tidy, RunFails, Goto, GroupTypeOK
<1>7. CASE SaveRuns(k)
  BY <1>1, <1>2, <1>7, NoneAssumption
  DEF Tidy, SaveRuns, Save, Installed, Goto, GroupTypeOK
<1>8. CASE Complete(k)
  BY <1>1, <1>2, <1>8, NoneAssumption
  DEF Tidy, Complete, Save, Saved, Installed, ValidGroup, Goto, GroupTypeOK, CallInv,
      MemInv, Group, GroupStatus
<1>9. CASE Abort(k)
  BY <1>1, <1>2, <1>9, NoneAssumption
  DEF Tidy, Abort, Save, Installed, ValidGroup, Quit, Goto, GroupTypeOK, Group,
      GroupStatus
<1>10. CASE Untouched(k)
  BY <1>10 DEF Tidy, Untouched
<1>11. ASSUME NEW j \in Calls, j # k, Begin(j) \/ Advance(j) \/ Die(j)
       PROVE  Untouched(k)
  BY <1>2, <1>11, StepTouchesOneCall
<1>12. MoveHead \/ UNCHANGED groupVars => Untouched(k)
  BY DEF MoveHead, groupVars, Untouched
<1> QED
  BY <1>1, <1>3, <1>4, <1>5, <1>6, <1>7, <1>8, <1>9, <1>10, <1>11, <1>12
  DEF GroupNext, Advance

(* What a tidy call left is no orphan, and every result is listed.         *)
LEMMA TidyListsAll ==
  ASSUME ToolsWork, IInv, NEW k \in Calls, Tidy(k), Quiet(k),
         NEW i \in 1 .. Repeat, <<k, i>> \in results
  PROVE  file[k] # None /\ i <= file[k].listed
<1>1. gpc[k] \in {"ok", "aborted"}
  BY DEF Tidy, Quiet, IInv, GroupTypeOK, Returned
<1>2. CASE gpc[k] = "ok"
  BY <1>2, NoneAssumption DEF IInv, CallInv, FileInv, GroupTypeOK, ValidGroup, Group
<1>3. CASE gpc[k] = "aborted"
  BY <1>3 DEF Tidy, IInv, CallInv, ResultInv, ToolsWork
<1> QED BY <1>1, <1>2, <1>3

(* The readers and the writers together, when storage works.               *)
CleanInv ==
  /\ ReaderInv
  /\ \A k \in Calls : Tidy(k)
  /\ ~Racing => ReportRenders

(* Nothing is read or written at first.                                    *)
LEMMA CleanInit == Init => CleanInv
<1> SUFFICES ASSUME Init PROVE CleanInv OBVIOUS
<1> QED BY ReaderInit DEF Init, GroupInit, NoGroup, CleanInv, Tidy, ReportRenders

(* The calls keep their groups tidy.                                       *)
LEMMA CleanGroupStep ==
  ASSUME ToolsWork, CleanInv, [GroupNext]_groupVars, UNCHANGED <<reportVars, selectVars>>
  PROVE  CleanInv'
<1>1. ReaderInv' BY ReaderGroupStep DEF CleanInv
<1>2. \A k \in Calls : Tidy(k)' BY TidyStep DEF CleanInv, ReaderInv
<1>3. ~Racing => ReportRenders' BY DEF CleanInv, ReportRenders, reportVars
<1> QED BY <1>1, <1>2, <1>3 DEF CleanInv

(* A report that begins when nothing runs finds every result listed.       *)
LEMMA CleanReadStep ==
  ASSUME ToolsWork, CleanInv, Read
  PROVE  CleanInv' /\ UNCHANGED groupVars
<1>1. ReaderInv' /\ UNCHANGED groupVars BY ReaderReadStep DEF CleanInv
<1>2. \A k \in Calls : Tidy(k)' BY <1>1 DEF CleanInv, Tidy, groupVars
<1>3. ASSUME ~Racing PROVE ReportRenders'
  <2>1. CASE Conclude
    <3>1. \A k \in Calls : Quiet(k) /\ read[k] = file[k]
      BY <1>3, <2>1 DEF CleanInv, ReaderInv, StillInv, Conclude
    <3>2. seen = results /\ seen \subseteq Calls \X (1 .. Repeat)
      BY <1>3, <2>1 DEF CleanInv, ReaderInv, StillInv, ReadInv, Conclude
    <3>3. ASSUME NEW r \in seen PROVE \E k \in Calls : r \in Listed(k)
      <4>1. PICK k \in Calls, i \in 1 .. Repeat : r = <<k, i>> BY <3>2, <3>3
      <4>2. file[k] # None /\ i <= file[k].listed
        BY <3>1, <3>2, <3>3, <4>1, TidyListsAll DEF CleanInv, ReaderInv
      <4>3. file[k].listed \in Nat
        BY <4>2, RepeatFact, FilesAreWhole DEF CleanInv, ReaderInv, Group
      <4>4. i \in 1 .. file[k].listed BY <4>2, <4>3
      <4> QED BY <3>1, <4>1, <4>2, <4>4 DEF Listed
    <3>4. seen \ UNION {Listed(k) : k \in Calls} = {} BY <3>3
    <3>5. rpc' # "not_found" BY <1>1, <1>3, <2>1 DEF ReaderInv, StillInv, Conclude
    <3> QED BY <2>1, <3>4, <3>5 DEF Conclude, ReportRenders
  <2>2. CASE LoadResults \/ ListGroups BY <2>2 DEF LoadResults, ListGroups, ReportRenders
  <2>3. CASE UNCHANGED rpc BY <1>3, <2>3 DEF CleanInv, ReportRenders
  <2> QED BY <2>1, <2>2, <2>3 DEF Read, LoadGroup, SelectGroup, SelectResults, reportVars
<1> QED BY <1>1, <1>2, <1>3 DEF CleanInv

(* Storage that works leaves no orphan: a group that says Running is being *)
(* written.                                                                *)
LEMMA TidyIsNoOrphan ==
  ASSUME ToolsWork, IInv, \A k \in Calls : Tidy(k)
  PROVE  NoOrphanRunning
<1> SUFFICES ASSUME NEW k \in Calls, file[k] # None, file[k].status = "Running"
             PROVE  gpc[k] \in Active
  BY DEF NoOrphanRunning
<1>1. gpc[k] \notin {"idle", "ok", "err", "aborted", "dead"}
  BY DEF IInv, CallInv, FileInv, Tidy
<1> QED BY <1>1 DEF IInv, GroupTypeOK, Returned

-----------------------------------------------------------------------------
(* What a battle relies on: an entry names the group of a call that        *)
(* answered Ok, which is final, or has an error and names none.            *)
EntryInv(i) ==
  /\ entries[i] \in Entry
  /\ LET k == entries[i].group
     IN  IF k = None
           THEN entries[i].error /\ gpc[Order[i]] \in {"err", "aborted"}
           ELSE /\ k = Order[i] /\ gpc[k] = "ok"
                /\ ~entries[i].error => mem[k].commit = base

(* The battle itself.                                                      *)
BattleInv ==
  /\ bpc \in {"start", "agent", "save", "err", "success", "benchmark_failed"}
  /\ base \in Commits \cup {None}
  /\ entries \in Seq(Entry)
  /\ \A i \in 1 .. Len(entries) : EntryInv(i)
  /\ Len(entries) <= Len(Order)
  /\ bpc = "start" => entries = <<>>
  /\ bpc = "agent" => Len(entries) < Len(Order)
  /\ bpc \in {"save", "success"} => Len(entries) = Len(Order)
  /\ bpc = "success" =>
       /\ battle = [base |-> base, entries |-> entries]
       /\ \A i \in 1 .. Len(entries) : ~entries[i].error

(* What an entry says of its call stays true whatever the calls do.        *)
LEMMA BattleGroupStep ==
  ASSUME GroupTypeOK, BattleInv, [GroupNext]_groupVars, UNCHANGED battleVars
  PROVE  BattleInv'
<1>1. ASSUME NEW i \in 1 .. Len(entries) PROVE EntryInv(i)'
  <2>1. i \in DOMAIN Order /\ Order[i] \in Calls
    BY OrderAssumption DEF BattleInv
  <2>2. EntryInv(i) BY DEF BattleInv
  <2>3. Quiet(Order[i])
    BY <2>2 DEF EntryInv, Quiet, Active
  <2>4. gpc'[Order[i]] = gpc[Order[i]] /\ mem'[Order[i]] = mem[Order[i]]
    BY <2>1, <2>3, Settled DEF Untouched
  <2> QED BY <2>2, <2>4 DEF EntryInv, battleVars
<1> QED BY <1>1 DEF BattleInv, battleVars

(* An entry is true when it is made.                                       *)
LEMMA BattleOwnStep ==
  ASSUME GroupTypeOK, BattleInv, BattleStep
  PROVE  BattleInv' /\ UNCHANGED allVars
<1>1. Order \in Seq(Calls) /\ Len(Order) \in Nat \ {0} BY OrderAssumption
<1>2. CASE BattleBegin
  BY <1>1, <1>2 DEF BattleInv, EntryInv, BattleBegin, GroupTypeOK, allVars, groupVars
<1>3. CASE NoRunner
  BY <1>3 DEF BattleInv, EntryInv, NoRunner, allVars, groupVars
<1>4. CASE RecordAgent
  <2>1. Turn \in Calls /\ Len(entries) \in Nat /\ gpc[Turn] \in Returned
    BY <1>1, <1>4 DEF RecordAgent, BattleInv, Turn
  <2>2. PICK failed \in BOOLEAN :
          entries' = Append(entries,
            IF gpc[Turn] = "ok"
              THEN [group |-> Turn, error |-> mem[Turn].commit # base \/ failed]
              ELSE [group |-> None, error |-> TRUE])
    BY <1>4 DEF RecordAgent
  <2> DEFINE e == IF gpc[Turn] = "ok"
                    THEN [group |-> Turn, error |-> mem[Turn].commit # base \/ failed]
                    ELSE [group |-> None, error |-> TRUE]
  <2>3. e \in Entry
    <3>1. (mem[Turn].commit # base \/ failed) \in BOOLEAN BY Zenon
    <3>2. [group |-> Turn, error |-> mem[Turn].commit # base \/ failed] \in Entry
      BY <2>1, <3>1, Zenon DEF Entry
    <3>3. [group |-> None, error |-> TRUE] \in Entry BY Zenon DEF Entry
    <3> QED BY <3>2, <3>3
  <2>4. IF gpc[Turn] = "ok" THEN e.group = Turn /\ (~e.error => mem[Turn].commit = base)
                            ELSE e.group = None /\ e.error
    OBVIOUS
  <2> HIDE DEF e
  <2>5. /\ entries' \in Seq(Entry) /\ Len(entries') = Len(entries) + 1
        /\ \A i \in 1 .. Len(entries) : entries'[i] = entries[i]
        /\ entries'[Len(entries) + 1] = e
    BY <2>2, <2>3 DEF BattleInv, e
  <2>6. ASSUME NEW i \in 1 .. Len(entries') PROVE EntryInv(i)'
    <3>1. UNCHANGED <<gpc, mem, base>> BY <1>4 DEF RecordAgent, allVars, groupVars
    <3>2. CASE i \in 1 .. Len(entries)
      BY <2>5, <3>1, <3>2 DEF BattleInv, EntryInv
    <3>3. CASE i = Len(entries) + 1
      BY <2>1, <2>3, <2>4, <2>5, <3>1, <3>3, NoCallAssumption DEF EntryInv, Turn, Returned
    <3> QED BY <2>1, <2>5, <3>2, <3>3
  <2> QED
    BY <1>1, <1>4, <2>1, <2>5, <2>6 DEF BattleInv, RecordAgent, allVars, groupVars
<1>5. CASE SaveBattle
  BY <1>5
  DEF BattleInv, EntryInv, SaveBattle, Clean, allVars, groupVars, WriteOutcomes,
      Installed
<1> QED BY <1>2, <1>3, <1>4, <1>5 DEF BattleStep

(* A battle beside other runs and beside readers.                          *)
Invariant == ReaderInv /\ BattleInv

(* It holds whatever fails, is killed or commits in the meantime.          *)
THEOREM BattleInvariant == BattleSpec => []Invariant
<1>1. BattleInit => Invariant
  <2> SUFFICES ASSUME BattleInit PROVE Invariant OBVIOUS
  <2>1. ReaderInv BY ReaderInit DEF BattleInit
  <2>2. entries = <<>> /\ bpc = "start" /\ base = None BY DEF BattleInit
  <2>3. Len(Order) \in Nat BY OrderAssumption
  <2> QED BY <2>1, <2>2, <2>3 DEF Invariant, BattleInv
<1>2. Invariant /\ [BattleNext]_battleAllVars => Invariant'
  <2> SUFFICES ASSUME Invariant, [BattleNext]_battleAllVars PROVE Invariant' OBVIOUS
  <2>1. CASE GroupNext /\ UNCHANGED <<reportVars, selectVars, battleVars>>
    BY <2>1, ReaderGroupStep, BattleGroupStep DEF Invariant, ReaderInv, IInv
  <2>2. CASE Read /\ UNCHANGED battleVars
    BY <2>2, ReaderReadStep, BattleGroupStep DEF Invariant, ReaderInv, IInv
  <2>3. CASE BattleStep
    BY <2>3, BattleOwnStep, ReaderGroupStep DEF Invariant, ReaderInv, IInv, allVars
  <2>4. CASE UNCHANGED battleAllVars
    BY <2>4, ReaderGroupStep, BattleGroupStep
    DEF Invariant, ReaderInv, IInv, battleAllVars, allVars
  <2> QED BY <2>1, <2>2, <2>3, <2>4 DEF BattleNext
<1> QED BY <1>1, <1>2, PTL DEF BattleSpec

(* A group a battle names is Completed and whole, now and later.           *)
THEOREM BattleEvidence == BattleSpec => []BattleHasEvidence
<1>1. ASSUME Invariant PROVE BattleHasEvidence
  <2> SUFFICES ASSUME NEW i \in 1 .. Len(entries),
                      NEW k \in Calls, k = entries[i].group, k = Order[i], gpc[k] = "ok"
               PROVE  file[k] # None /\ file[k].status = "Completed" /\ HasRuns(k, Repeat)
    <3>1. \A i \in 1 .. Len(entries) : EntryInv(i) /\ Order[i] \in Calls
      BY <1>1, OrderAssumption DEF Invariant, BattleInv
    <3> QED BY <3>1, <1>1 DEF BattleHasEvidence, EntryInv, Invariant, BattleInv
  <2>1. file[k] = mem[k] /\ mem[k] \in Group /\ mem[k].status = "Completed"
    BY <1>1 DEF Invariant, ReaderInv, IInv, CallInv, FileInv, GroupTypeOK
  <2>2. file[k] # None BY <2>1, NoneAssumption
  <2> QED
    BY <1>1, <2>1, <2>2
    DEF Invariant, ReaderInv, IInv, CallInv, FileInv, ValidGroup
<1> QED BY BattleInvariant, <1>1, PTL

(* A battle that succeeds compared its agents on one commit.               *)
THEOREM BattleFair == BattleSpec => []CleanBattleIsFair
<1>1. ASSUME Invariant, bpc = "success" PROVE CleanBattleIsFair
  <2>1. /\ battle = [base |-> base, entries |-> entries]
        /\ Len(entries) = Len(Order) /\ Len(Order) \in Nat
        /\ \A i \in 1 .. Len(entries) : EntryInv(i) /\ ~entries[i].error /\ Order[i] \in Calls
    BY <1>1, OrderAssumption DEF Invariant, BattleInv
  <2>2. ASSUME NEW k \in Contestants PROVE file[k] # None /\ file[k].commit = base
    <3>1. PICK i \in 1 .. Len(Order) : k = Order[i]
      BY OrderAssumption DEF Contestants
    <3>2. k \in Calls /\ gpc[k] = "ok" /\ mem[k].commit = base
      BY <2>1, <3>1 DEF EntryInv
    <3>3. file[k] = mem[k] /\ mem[k] \in Group
      BY <1>1, <3>2 DEF Invariant, ReaderInv, IInv, CallInv, FileInv, GroupTypeOK
    <3> QED BY <3>2, <3>3, NoneAssumption
  <2>3. battle \in Summary BY <1>1, <2>1 DEF Summary, Invariant, BattleInv
  <2>4. battle # None BY <2>3, NoSummaryAssumption
  <2> QED BY <2>1, <2>2, <2>4 DEF CleanBattleIsFair
<1>2. Invariant => CleanBattleIsFair BY <1>1 DEF CleanBattleIsFair
<1> QED BY BattleInvariant, <1>2, PTL

(* The same battle when storage works and nobody kills it.                 *)
THEOREM BattleCleanInvariant == ASSUME ToolsWork PROVE BattleSpec => []CleanInv
<1>1. BattleInit => CleanInv BY CleanInit DEF BattleInit
<1>2. CleanInv /\ [BattleNext]_battleAllVars => CleanInv'
  <2> SUFFICES ASSUME CleanInv, [BattleNext]_battleAllVars PROVE CleanInv' OBVIOUS
  <2>1. CASE GroupNext /\ UNCHANGED <<reportVars, selectVars, battleVars>>
    BY <2>1, CleanGroupStep
  <2>2. CASE Read BY <2>2, CleanReadStep
  <2>3. CASE BattleStep \/ UNCHANGED battleAllVars
    <3>1. UNCHANGED allVars
      BY <2>3
      DEF BattleStep, BattleBegin, NoRunner, RecordAgent, SaveBattle, battleAllVars
    <3> QED BY <3>1, CleanGroupStep DEF allVars
  <2> QED BY <2>1, <2>2, <2>3 DEF BattleNext
<1> QED BY <1>1, <1>2, PTL DEF BattleSpec

(* A battle and the runs beside it leave no group that says Running.       *)
THEOREM BattleNoOrphan == ASSUME ToolsWork PROVE BattleSpec => []NoOrphanRunning
<1>1. CleanInv => NoOrphanRunning BY TidyIsNoOrphan DEF CleanInv, ReaderInv
<1> QED BY BattleCleanInvariant, <1>1, PTL

(* What they leave can be rendered by a report that begins when nothing    *)
(* runs.                                                                   *)
THEOREM BattleRenders == ASSUME ToolsWork, ~Racing PROVE BattleSpec => []ReportRenders
<1>1. CleanInv => ReportRenders BY DEF CleanInv
<1> QED BY BattleCleanInvariant, <1>1, PTL
=============================================================================
