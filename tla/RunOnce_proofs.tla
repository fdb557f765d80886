--------------------------- MODULE RunOnce_proofs ---------------------------
(***************************************************************************)
(* Proofs about run_once, for any number of setup and verification         *)
(* commands and of instruction files, whatever the run's processes do and  *)
(* whatever fails.  The invariant says, phase by phase, what is settled:   *)
(* which commands were counted (Told), when instruction files are hidden   *)
(* (InPlace), what the inventories and the diff would have reported        *)
(* (Uncovered), and what is on disk (OnDisk).                              *)
(***************************************************************************)
EXTENDS RunOnce, TLAPS

Finishing == {"after", "diff", "judge", "close", "artifacts", "record"}

(* The commands, by the time the run is past a phase.                      *)
Told ==
  /\ rpc \in {"start", "add", "inventory"} => done.setup = 0
  /\ rpc = "setup" => done.setup < NSetup
  /\ rpc \in {"hide", "agent", "restore", "verify"} => done.setup = NSetup
  /\ rpc \in {"start", "add", "inventory", "setup", "hide", "agent"} =>
       done.setupOk /\ done.agent = "notrun" /\ done.verify = 0
  /\ rpc \in {"restore", "verify"} => done.setupOk /\ done.agent # "notrun"
  /\ rpc = "restore" => done.verify = 0
  /\ rpc = "verify" => done.verify < NVerify
  /\ rpc \in Finishing =>
       /\ done.agent # "notrun" <=> done.setupOk
       /\ done.verify = IF done.setupOk THEN NVerify ELSE 0
       /\ done.setupOk => done.setup = NSetup

(* A mask lives only while an agent works that is not to see the files.    *)
InPlace ==
  rpc \notin {"agent", "restore"} \/ ~masking => hidden = Everywhere("none")

(* As long as nothing is reported, nothing was missed: the inventories are *)
(* there to compare, then the deeds they show are none, then the diff      *)
(* shows the others, then there are no others.                             *)
Uncovered ==
  violations = {} /\ errors = {} =>
    /\ rpc \in {"setup", "hide", "agent", "restore", "verify", "after"} => before = {"paths", "git"}
    /\ rpc \in {"diff", "judge", "close", "artifacts", "record"} =>
         deeds \cap ({"ignored"} \cup GitData) = {}
    /\ rpc \in {"judge", "close", "artifacts", "record"} => seen = deeds \cap InDiff
    /\ rpc \in {"close", "artifacts", "record"} => seen = {}

(* The run's directory, its worktree and what was answered.                *)
OnDisk ==
  /\ rpc \notin {"drop", "end"} => record = "none" /\ answer = "none"
  /\ rpc \notin {"start", "drop", "end", "dead"} => runDir
  /\ rpc = "record" => artifacts = 4
  /\ rpc \in {"judge", "close", "artifacts", "record"} /\ seen = Nobody => "diff" \in errors
  /\ rpc \in {"artifacts", "record"} /\ (tree \/ registered) => "cleanup" \in errors
  /\ rpc \in {"drop", "end"} /\ (tree \/ registered) =>
       "cleanup" \in errors \/ (answer = "err" /\ record = "none")
  /\ record = "success" => errors = {}

(* Its parts, each of which an action's lemma shows kept.                  *)
RunInv ==
  /\ RunTypeOK /\ Told /\ InPlace /\ Uncovered /\ OnDisk
  /\ SuccessIsSound /\ RecordTellsTheRun

-----------------------------------------------------------------------------
(* What lies at the paths of the files, what a mask keeps of them, and the *)
(* tallies of the commands.                                                *)
Contents == [1 .. NFiles -> Things]

Maskings == [1 .. NFiles -> Regular \cup {"none"}]

Tallies == [setup : 0 .. NSetup, setupOk : BOOLEAN, agent : AgentEnds,
            verify : 0 .. NVerify, verifyOk : BOOLEAN]

(* Putting files back leaves one of the things at every path, and all that *)
(* was kept in its place when it says that it succeeded.                   *)
LEMMA RestoresFiles ==
  ASSUME NEW f \in Contents, NEW kept \in Maskings, NEW r \in Restores(f, kept)
  PROVE  /\ r.files \in Contents
         /\ r.ok => \A i \in 1 .. NFiles : kept[i] # "none" => r.files[i] = kept[i]
<1>1. \A i \in 1 .. NFiles : kept[i] # "none" => kept[i] \in Things
  BY DEF Maskings, Regular, Things
<1>2. "gone" \in Things /\ "blocked" \in Things BY DEF Things
<1> DEFINE Kept    == {i \in 1 .. NFiles : kept[i] # "none"}
           Blocked == {i \in Kept : f[i] = "blocked"}
           Stops   == {j \in Kept :
                         /\ \A i \in Blocked : j <= i
                         /\ j \in Blocked \/ "worktree" \in Faults}
           Left(j) == IF j \in Blocked THEN {"blocked"} ELSE {f[j], "gone", kept[j]}
           UpTo(j, left) == [i \in 1 .. NFiles |-> CASE i < j /\ i \in Kept -> kept[i]
                                                    [] i = j -> left
                                                    [] OTHER -> f[i]]
           Whole   == [i \in 1 .. NFiles |-> IF i \in Kept THEN kept[i] ELSE f[i]]
<1>3. \/ r = [files |-> Whole, ok |-> TRUE]
      \/ \E j \in Kept : \E left \in Left(j) : r = [files |-> UpTo(j, left), ok |-> FALSE]
  <2>1. r \in (IF Blocked = {} THEN {[files |-> Whole, ok |-> TRUE]} ELSE {})
               \cup UNION {{[files |-> UpTo(j, left), ok |-> FALSE] : left \in Left(j)} : j \in Stops}
    BY Zenon DEF Restores
  <2>2. \A j \in Stops : j \in Kept OBVIOUS
  <2> HIDE DEF Kept, Blocked, Stops, Left, UpTo, Whole
  <2>3. CASE r \in (IF Blocked = {} THEN {[files |-> Whole, ok |-> TRUE]} ELSE {})
    BY <2>3
  <2>4. CASE r \in UNION {{[files |-> UpTo(j, left), ok |-> FALSE] : left \in Left(j)} : j \in Stops}
    <3>1. PICK j \in Stops : r \in {[files |-> UpTo(j, left), ok |-> FALSE] : left \in Left(j)}
      BY <2>4, Zenon
    <3> QED BY <3>1, <2>2, Zenon
  <2> QED BY <2>1, <2>3, <2>4
<1>4. CASE r = [files |-> Whole, ok |-> TRUE]
  <2>1. r.files = Whole BY <1>4
  <2> QED BY <2>1, <1>1 DEF Contents
<1>5. ASSUME NEW j \in Kept, NEW left \in Left(j), r = [files |-> UpTo(j, left), ok |-> FALSE]
      PROVE  r.files \in Contents /\ ~r.ok
  <2>1. r.files = UpTo(j, left) /\ ~r.ok BY <1>5
  <2>2. left \in Things BY <1>1, <1>2 DEF Contents
  <2>3. \A i \in 1 .. NFiles : (CASE i < j /\ i \in Kept -> kept[i]
                                  [] i = j -> left
                                  [] OTHER -> f[i]) \in Things
    BY <2>2, <1>1 DEF Contents
  <2> QED BY <2>1, <2>3 DEF Contents
<1> QED BY <1>3, <1>4, <1>5

(* What a mask takes and leaves.                                           *)
LEMMA TakenFiles ==
  ASSUME NEW n \in 0 .. NFiles, files \in Contents
  PROVE  Taken(n) \in Maskings /\ Without(n) \in Contents
BY DEF Taken, Without, Contents, Maskings, Regular, Things

(* A setup command that was due is counted within the number there is.     *)
LEMMA SetupCounted ==
  ASSUME NEW d \in Tallies, NEW b \in BOOLEAN, d.setup < NSetup
  PROVE  [d EXCEPT !.setup = @ + 1, !.setupOk = b] \in Tallies
<1>1. d.setup + 1 \in 0 .. NSetup BY CommandsAssumption DEF Tallies
<1> QED BY <1>1, Zenon DEF Tallies

(* So is a verification command.                                           *)
LEMMA VerifyCounted ==
  ASSUME NEW d \in Tallies, NEW b \in BOOLEAN, d.verify < NVerify
  PROVE  [d EXCEPT !.verify = @ + 1, !.verifyOk = @ /\ b] \in Tallies
<1>1. d.verify + 1 \in 0 .. NVerify BY CommandsAssumption DEF Tallies
<1> QED BY <1>1, Zenon DEF Tallies

-----------------------------------------------------------------------------
(* A run begins with nothing done, nothing found and nothing on disk.      *)
LEMMA InitInvariant == RunInit => RunInv
<1> SUFFICES ASSUME RunInit PROVE RunInv OBVIOUS
<1>1. RunTypeOK
  <2>1. files \in Contents /\ hidden \in Maskings
    BY DEF RunInit, Everywhere, Contents, Maskings, Things, Regular
  <2>2. done \in Tallies
    BY CommandsAssumption DEF RunInit, NotRun, Tallies, AgentEnds
  <2>3. {masking, runDir, tree, registered} \subseteq BOOLEAN BY Zenon DEF RunInit
  <2> QED BY <2>1, <2>2, <2>3 DEF RunInit, RunTypeOK, Contents, Maskings, Tallies, Nobody
<1>2. Told BY DEF RunInit, Told, NotRun, Finishing
<1>3. InPlace BY DEF RunInit, InPlace
<1>4. Uncovered BY DEF RunInit, Uncovered
<1>5. OnDisk BY DEF RunInit, OnDisk
<1>6. SuccessIsSound /\ RecordTellsTheRun BY DEF RunInit, SuccessIsSound, RecordTellsTheRun
<1> QED BY <1>1, <1>2, <1>3, <1>4, <1>5, <1>6 DEF RunInv

(* The run directory exists when the run goes on.                          *)
LEMMA PrepareStep == ASSUME RunInv, Prepare PROVE RunInv'
<1>1. RunTypeOK'
  BY DEF RunInv, maskVars, RunTypeOK, Causes, ViolationKind, AgentEnds, Prepare, Fail,
         worktreeVars, reportVars
<1>2. Told' BY DEF RunInv, maskVars, Told, Finishing, Prepare, Fail, worktreeVars, reportVars
<1>3. InPlace'
  BY DEF RunInv, maskVars, InPlace, Prepare, Fail, worktreeVars,
         reportVars
<1>4. Uncovered'
  BY DEF RunInv, maskVars, Uncovered, InDiff, GitData, Prepare, Fail, worktreeVars, reportVars
<1>5. OnDisk' BY DEF RunInv, maskVars, OnDisk, Prepare, Fail, worktreeVars, reportVars
<1>6. SuccessIsSound'
  BY DEF RunInv, maskVars, SuccessIsSound, OnDisk, Prepare, Fail, worktreeVars, reportVars
<1>7. RecordTellsTheRun'
  BY DEF RunInv, maskVars, RecordTellsTheRun, OnDisk, Prepare, Fail, worktreeVars, reportVars
<1> QED BY <1>1, <1>2, <1>3, <1>4, <1>5, <1>6, <1>7 DEF RunInv

(* So do the worktree's files and its registration.                        *)
LEMMA AddWorktreeStep == ASSUME RunInv, AddWorktree PROVE RunInv'
<1>1. RunTypeOK'
  BY DEF RunInv, maskVars, RunTypeOK, Causes, ViolationKind, AgentEnds, AddWorktree, Fail,
         reportVars
<1>2. Told' BY DEF RunInv, maskVars, Told, Finishing, AddWorktree, Fail, reportVars
<1>3. InPlace'
  BY DEF RunInv, maskVars, InPlace, AddWorktree, Fail, reportVars
<1>4. Uncovered'
  BY DEF RunInv, maskVars, Uncovered, InDiff, GitData, AddWorktree, Fail, reportVars
<1>5. OnDisk' BY DEF RunInv, maskVars, OnDisk, AddWorktree, Fail, reportVars
<1>6. SuccessIsSound'
  BY DEF RunInv, maskVars, SuccessIsSound, OnDisk, AddWorktree, Fail, reportVars
<1>7. RecordTellsTheRun'
  BY DEF RunInv, maskVars, RecordTellsTheRun, OnDisk, AddWorktree, Fail, reportVars
<1> QED BY <1>1, <1>2, <1>3, <1>4, <1>5, <1>6, <1>7 DEF RunInv

(* An inventory that is missing afterwards was reported.                   *)
LEMMA InventoryStep == ASSUME RunInv, Inventory PROVE RunInv'
<1>1. RunTypeOK'
  BY DEF RunInv, maskVars, RunTypeOK, Causes, ViolationKind, AgentEnds, Inventory, Report,
         AfterSetup, worktreeVars, outputVars
<1>2. Told'
  BY CommandsAssumption DEF RunInv, maskVars, Told, Finishing, Inventory, Report, AfterSetup,
         worktreeVars, outputVars
<1>3. InPlace'
  BY DEF RunInv, maskVars, InPlace, Inventory, Report, AfterSetup,
         worktreeVars, outputVars
<1>4. Uncovered'
  BY DEF RunInv, maskVars, Uncovered, InDiff, GitData, Inventory, Report, AfterSetup,
         worktreeVars, outputVars
<1>5. OnDisk'
  BY DEF RunInv, maskVars, OnDisk, Inventory, Report, AfterSetup, worktreeVars, outputVars
<1>6. SuccessIsSound'
  BY DEF RunInv, maskVars, SuccessIsSound, OnDisk, Inventory, Report, AfterSetup, worktreeVars,
         outputVars
<1>7. RecordTellsTheRun'
  BY DEF RunInv, maskVars, RecordTellsTheRun, OnDisk, Inventory, Report, AfterSetup, worktreeVars,
         outputVars
<1> QED BY <1>1, <1>2, <1>3, <1>4, <1>5, <1>6, <1>7 DEF RunInv

(* The setup loop ends when all commands are counted or one has failed.    *)
LEMMA RunSetupStep == ASSUME RunInv, RunSetup PROVE RunInv'
<1>1. RunTypeOK'
  <2>1. PICK b \in BOOLEAN : done' = [done EXCEPT !.setup = @ + 1, !.setupOk = b]
    BY DEF RunSetup
  <2>2. done' \in Tallies
    BY <2>1, SetupCounted DEF RunInv, RunTypeOK, Told, RunSetup, Tallies
  <2>3. files' \in Contents
    BY DEF RunInv, RunTypeOK, Contents, RunSetup, TaskCommand, Rewritten
  <2> QED
    BY <2>2, <2>3
    DEF RunInv, maskVars, RunTypeOK, Causes, ViolationKind, Contents, Tallies, RunSetup,
        AfterSetup, TaskCommand, Act, outputVars
<1>2. Told'
  BY CommandsAssumption DEF RunInv, maskVars, Told, Finishing, RunSetup, AfterSetup, TaskCommand,
         Act, outputVars, RunTypeOK
<1>3. InPlace'
  BY DEF RunInv, maskVars, InPlace, RunSetup, AfterSetup, TaskCommand,
         Act, outputVars
<1>4. Uncovered'
  BY DEF RunInv, maskVars, Uncovered, InDiff, GitData, RunSetup, AfterSetup, TaskCommand, Act,
         outputVars
<1>5. OnDisk' BY DEF RunInv, maskVars, OnDisk, RunSetup, AfterSetup, TaskCommand, Act, outputVars
<1>6. SuccessIsSound'
  BY DEF RunInv, maskVars, SuccessIsSound, OnDisk, RunSetup, AfterSetup, TaskCommand, Act,
         outputVars
<1>7. RecordTellsTheRun'
  BY DEF RunInv, maskVars, RecordTellsTheRun, OnDisk, RunSetup, AfterSetup, TaskCommand, Act,
         outputVars
<1> QED BY <1>1, <1>2, <1>3, <1>4, <1>5, <1>6, <1>7 DEF RunInv

(* Files that could not be hidden leave an error of the agent's.           *)
LEMMA HideStep == ASSUME RunInv, Hide PROVE RunInv'
<1>1. RunTypeOK'
  <2>1. CASE UNCHANGED <<files, hidden, done, errors>>
    BY <2>1 DEF RunInv, RunTypeOK, Hide, outputVars
  <2>2. CASE /\ hidden' = Taken(NFiles) /\ files' = Without(NFiles)
             /\ UNCHANGED <<done, errors>>
    <3>1. hidden' \in Maskings /\ files' \in Contents
      BY <2>2, TakenFiles, CommandsAssumption DEF RunInv, RunTypeOK, Contents
    <3> QED
      BY <2>2, <3>1 DEF RunInv, RunTypeOK, Contents, Maskings, Hide, outputVars
  <2>3. ASSUME files' \in Contents, done' = [done EXCEPT !.agent = "refused"],
               errors' = errors \cup {"agent"}, UNCHANGED hidden
        PROVE  RunTypeOK'
    <3>1. done' \in Tallies BY <2>3 DEF RunInv, RunTypeOK, Tallies, AgentEnds
    <3> QED
      BY <2>3, <3>1
      DEF RunInv, RunTypeOK, Contents, Tallies, Causes, Hide, outputVars
  <2>4. ASSUME NEW n \in 0 .. NFiles, NEW r \in Restores(Without(n), Taken(n)),
               files' = r.files
        PROVE  files' \in Contents
    <3>1. Taken(n) \in Maskings /\ Without(n) \in Contents
      BY TakenFiles DEF RunInv, RunTypeOK, Contents
    <3> QED BY <2>4, <3>1, RestoresFiles
  <2>5. UNCHANGED files => files' \in Contents BY DEF RunInv, RunTypeOK, Contents
  <2> QED BY <2>1, <2>2, <2>3, <2>4, <2>5 DEF Hide
<1>2. Told'
  BY CommandsAssumption DEF RunInv, maskVars, Told, Finishing, Hide, outputVars, RunTypeOK
<1>3. InPlace' BY DEF RunInv, maskVars, InPlace, Hide, outputVars
<1>4. Uncovered' BY DEF RunInv, maskVars, Uncovered, InDiff, GitData, Hide, outputVars
<1>5. OnDisk' BY DEF RunInv, maskVars, OnDisk, Hide, outputVars
<1>6. SuccessIsSound' BY DEF RunInv, maskVars, SuccessIsSound, OnDisk, Hide, outputVars
<1>7. RecordTellsTheRun' BY DEF RunInv, maskVars, RecordTellsTheRun, OnDisk, Hide, outputVars
<1> QED BY <1>1, <1>2, <1>3, <1>4, <1>5, <1>6, <1>7 DEF RunInv

(* What the agent does to the files matters until they are put back.       *)
LEMMA RunAgentStep == ASSUME RunInv, RunAgent PROVE RunInv'
<1>1. RunTypeOK'
  <2>1. files' \in Contents
    BY DEF RunAgent, Rewritten, Everywhere, Contents, Things
  <2> QED
    BY <2>1
    DEF RunInv, maskVars, RunTypeOK, Contents, Causes, ViolationKind, AgentEnds, RunAgent,
        Act, outputVars
<1>2. Told'
  BY CommandsAssumption DEF RunInv, maskVars, Told, Finishing, RunAgent, Act, outputVars,
         RunTypeOK
<1>3. InPlace'
  BY DEF RunInv, maskVars, InPlace, RunAgent, Act, outputVars
<1>4. Uncovered' BY DEF RunInv, maskVars, Uncovered, InDiff, GitData, RunAgent, Act, outputVars
<1>5. OnDisk' BY DEF RunInv, maskVars, OnDisk, RunAgent, Act, outputVars
<1>6. SuccessIsSound' BY DEF RunInv, maskVars, SuccessIsSound, OnDisk, RunAgent, Act, outputVars
<1>7. RecordTellsTheRun'
  BY DEF RunInv, maskVars, RecordTellsTheRun, OnDisk, RunAgent, Act, outputVars
<1> QED BY <1>1, <1>2, <1>3, <1>4, <1>5, <1>6, <1>7 DEF RunInv

(* The mask is gone, whatever it could put back.                           *)
LEMMA RestoreStep == ASSUME RunInv, Restore PROVE RunInv'
<1>1. RunTypeOK'
  <2>1. files \in Contents /\ hidden \in Maskings
    BY DEF RunInv, RunTypeOK, Contents, Maskings
  <2>2. \A r \in Restores(files, hidden) : r.files \in Contents BY <2>1, RestoresFiles
  <2>3. \A r \in Restores(files, hidden) : \A again \in Restores(r.files, hidden) :
          again.files \in Contents
    BY <2>1, <2>2, RestoresFiles
  <2>4. files' \in Contents BY <2>2, <2>3 DEF Restore
  <2>5. hidden' \in Maskings BY DEF Restore, Everywhere, Maskings
  <2> QED
    BY <2>4, <2>5
    DEF RunInv, RunTypeOK, Contents, Maskings, Causes, ViolationKind, Restore, Report,
        reportVars, outputVars
<1>2. Told'
  BY CommandsAssumption DEF RunInv, maskVars, Told, Finishing, Restore, Report, reportVars,
         outputVars
<1>3. InPlace' BY DEF InPlace, Restore
<1>4. Uncovered'
  BY DEF RunInv, maskVars, Uncovered, InDiff, GitData, Restore, Report, reportVars, outputVars
<1>5. OnDisk' BY DEF RunInv, maskVars, OnDisk, Restore, Report, reportVars, outputVars
<1>6. SuccessIsSound'
  BY DEF RunInv, maskVars, SuccessIsSound, OnDisk, Restore, Report, reportVars, outputVars
<1>7. RecordTellsTheRun'
  BY DEF RunInv, maskVars, RecordTellsTheRun, OnDisk, Restore, Report, reportVars, outputVars
<1> QED BY <1>1, <1>2, <1>3, <1>4, <1>5, <1>6, <1>7 DEF RunInv

(* Verification counts every command, whatever it answers.                 *)
LEMMA RunVerifyStep == ASSUME RunInv, RunVerify PROVE RunInv'
<1>1. RunTypeOK'
  <2>1. PICK b \in BOOLEAN : done' = [done EXCEPT !.verify = @ + 1, !.verifyOk = @ /\ b]
    BY DEF RunVerify
  <2>2. done' \in Tallies
    BY <2>1, VerifyCounted DEF RunInv, RunTypeOK, Told, RunVerify, Tallies
  <2>3. files' \in Contents
    BY DEF RunInv, RunTypeOK, Contents, RunVerify, TaskCommand, Everywhere, Things
  <2> QED
    BY <2>2, <2>3
    DEF RunInv, maskVars, RunTypeOK, Causes, ViolationKind, Contents, Tallies, RunVerify,
        AfterVerify, TaskCommand, Act, outputVars
<1>2. Told'
  BY CommandsAssumption DEF RunInv, maskVars, Told, Finishing, RunVerify, TaskCommand, Act,
         AfterVerify, outputVars, RunTypeOK
<1>3. InPlace'
  BY DEF RunInv, maskVars, InPlace, RunVerify, TaskCommand, Act,
         AfterVerify, outputVars
<1>4. Uncovered'
  BY DEF RunInv, maskVars, Uncovered, InDiff, GitData, RunVerify, TaskCommand, Act, AfterVerify,
         outputVars
<1>5. OnDisk'
  BY DEF RunInv, maskVars, OnDisk, RunVerify, TaskCommand, Act, AfterVerify, outputVars
<1>6. SuccessIsSound'
  BY DEF RunInv, maskVars, SuccessIsSound, OnDisk, RunVerify, TaskCommand, Act, AfterVerify,
         outputVars
<1>7. RecordTellsTheRun'
  BY DEF RunInv, maskVars, RecordTellsTheRun, OnDisk, RunVerify, TaskCommand, Act, AfterVerify,
         outputVars
<1> QED BY <1>1, <1>2, <1>3, <1>4, <1>5, <1>6, <1>7 DEF RunInv

(* Without a report, both inventories were compared and agreed.            *)
LEMMA InspectStep == ASSUME RunInv, Inspect PROVE RunInv'
<1>1. RunTypeOK'
  BY DEF RunInv, maskVars, RunTypeOK, Causes, ViolationKind, AgentEnds, Inspect, Report,
         worktreeVars, outputVars
<1>2. Told' BY DEF RunInv, maskVars, Told, Finishing, Inspect, Report, worktreeVars, outputVars
<1>3. InPlace'
  BY DEF RunInv, maskVars, InPlace, Inspect, Report, worktreeVars,
         outputVars
<1>4. Uncovered'
  BY DEF RunInv, maskVars, Uncovered, InDiff, GitData, Inspect, Report, worktreeVars, outputVars
<1>5. OnDisk' BY DEF RunInv, maskVars, OnDisk, Inspect, Report, worktreeVars, outputVars
<1>6. SuccessIsSound'
  BY DEF RunInv, maskVars, SuccessIsSound, OnDisk, Inspect, Report, worktreeVars, outputVars
<1>7. RecordTellsTheRun'
  BY DEF RunInv, maskVars, RecordTellsTheRun, OnDisk, Inspect, Report, worktreeVars, outputVars
<1> QED BY <1>1, <1>2, <1>3, <1>4, <1>5, <1>6, <1>7 DEF RunInv

(* A pinned HEAD, which the inventory vouched for, makes the diff whole.   *)
LEMMA CaptureDiffStep == ASSUME RunInv, CaptureDiff PROVE RunInv'
<1>1. RunTypeOK'
  BY DEF RunInv, maskVars, RunTypeOK, Causes, ViolationKind, AgentEnds, CaptureDiff, Nobody,
         worktreeVars, outputVars
<1>2. Told'
  BY DEF RunInv, maskVars, Told, Finishing, CaptureDiff, Nobody, worktreeVars, outputVars
<1>3. InPlace'
  BY DEF RunInv, maskVars, InPlace, CaptureDiff, Nobody, worktreeVars,
         outputVars
<1>4. Uncovered'
  BY DEF RunInv, maskVars, Uncovered, InDiff, GitData, CaptureDiff, Nobody, worktreeVars,
         outputVars
<1>5. OnDisk'
  BY DEF RunInv, maskVars, OnDisk, CaptureDiff, Nobody, worktreeVars, outputVars, InDiff
<1>6. SuccessIsSound'
  BY DEF RunInv, maskVars, SuccessIsSound, OnDisk, CaptureDiff, Nobody, worktreeVars, outputVars
<1>7. RecordTellsTheRun'
  BY DEF RunInv, maskVars, RecordTellsTheRun, OnDisk, CaptureDiff, Nobody, worktreeVars,
         outputVars
<1> QED BY <1>1, <1>2, <1>3, <1>4, <1>5, <1>6, <1>7 DEF RunInv

(* Whatever a whole diff shows is reported.                                *)
LEMMA JudgeStep == ASSUME RunInv, Judge PROVE RunInv'
<1>1. RunTypeOK'
  BY DEF RunInv, maskVars, RunTypeOK, Causes, ViolationKind, AgentEnds, Judge, Report, Nobody,
         worktreeVars, outputVars
<1>2. Told'
  BY DEF RunInv, maskVars, Told, Finishing, Judge, Report, Nobody, worktreeVars, outputVars
<1>3. InPlace'
  BY DEF RunInv, maskVars, InPlace, Judge, Report, Nobody, worktreeVars,
         outputVars
<1>4. Uncovered'
  BY DEF RunInv, maskVars, Uncovered, InDiff, GitData, Judge, Report, Nobody, worktreeVars,
         outputVars
<1>5. OnDisk' BY DEF RunInv, maskVars, OnDisk, Judge, Report, Nobody, worktreeVars, outputVars
<1>6. SuccessIsSound'
  BY DEF RunInv, maskVars, SuccessIsSound, OnDisk, Judge, Report, Nobody, worktreeVars, outputVars
<1>7. RecordTellsTheRun'
  BY DEF RunInv, maskVars, RecordTellsTheRun, OnDisk, Judge, Report, Nobody, worktreeVars,
         outputVars
<1> QED BY <1>1, <1>2, <1>3, <1>4, <1>5, <1>6, <1>7 DEF RunInv

(* What is left of the worktree was reported.                              *)
LEMMA CloseWorktreeStep == ASSUME RunInv, CloseWorktree PROVE RunInv'
<1>1. RunTypeOK'
  BY DEF RunInv, maskVars, RunTypeOK, Causes, ViolationKind, AgentEnds, CloseWorktree, Report,
         reportVars, outputVars
<1>2. Told'
  BY DEF RunInv, maskVars, Told, Finishing, CloseWorktree, Report, reportVars, outputVars
<1>3. InPlace'
  BY DEF RunInv, maskVars, InPlace, CloseWorktree, Report, reportVars,
         outputVars
<1>4. Uncovered'
  BY DEF RunInv, maskVars, Uncovered, InDiff, GitData, CloseWorktree, Report, reportVars,
         outputVars
<1>5. OnDisk' BY DEF RunInv, maskVars, OnDisk, CloseWorktree, Report, reportVars, outputVars
<1>6. SuccessIsSound'
  BY DEF RunInv, maskVars, SuccessIsSound, OnDisk, CloseWorktree, Report, reportVars, outputVars
<1>7. RecordTellsTheRun'
  BY DEF RunInv, maskVars, RecordTellsTheRun, OnDisk, CloseWorktree, Report, reportVars,
         outputVars
<1> QED BY <1>1, <1>2, <1>3, <1>4, <1>5, <1>6, <1>7 DEF RunInv

(* Only all four artifacts lead to the record.                             *)
LEMMA WriteArtifactsStep == ASSUME RunInv, WriteArtifacts PROVE RunInv'
<1>1. RunTypeOK'
  BY DEF RunInv, maskVars, RunTypeOK, Causes, ViolationKind, AgentEnds, WriteArtifacts, Fail,
         Installed, worktreeVars, reportVars
<1>2. Told'
  BY DEF RunInv, maskVars, Told, Finishing, WriteArtifacts, Fail, Installed, worktreeVars,
         reportVars
<1>3. InPlace'
  BY DEF RunInv, maskVars, InPlace, WriteArtifacts, Fail, Installed,
         worktreeVars, reportVars
<1>4. Uncovered'
  BY DEF RunInv, maskVars, Uncovered, InDiff, GitData, WriteArtifacts, Fail, Installed,
         worktreeVars, reportVars
<1>5. OnDisk'
  BY DEF RunInv, maskVars, OnDisk, WriteArtifacts, Fail, Installed, worktreeVars, reportVars
<1>6. SuccessIsSound'
  BY DEF RunInv, maskVars, SuccessIsSound, OnDisk, WriteArtifacts, Fail, Installed, worktreeVars,
         reportVars
<1>7. RecordTellsTheRun'
  BY DEF RunInv, maskVars, RecordTellsTheRun, OnDisk, WriteArtifacts, Fail, Installed,
         worktreeVars, reportVars
<1> QED BY <1>1, <1>2, <1>3, <1>4, <1>5, <1>6, <1>7 DEF RunInv

(* The record is written from what is settled by now.                      *)
LEMMA SaveResultStep == ASSUME RunInv, SaveResult PROVE RunInv'
<1>1. RunTypeOK'
  BY DEF RunInv, maskVars, RunTypeOK, Causes, ViolationKind, AgentEnds, SaveResult, Installed,
         Recordable, worktreeVars, reportVars
<1>2. Told'
  BY DEF RunInv, maskVars, Told, Finishing, SaveResult, Installed, Recordable, worktreeVars,
         reportVars
<1>3. InPlace'
  BY DEF RunInv, maskVars, InPlace, SaveResult, Installed, Recordable,
         worktreeVars, reportVars
<1>4. Uncovered'
  BY DEF RunInv, maskVars, Uncovered, InDiff, GitData, SaveResult, Installed, Recordable,
         worktreeVars, reportVars
<1>5. OnDisk'
  BY DEF RunInv, maskVars, OnDisk, SaveResult, Installed, Recordable, worktreeVars, reportVars,
         Success, RecordTellsTheRun
<1>6. SuccessIsSound'
  <2>1. record = "none" BY DEF RunInv, maskVars, OnDisk, SaveResult
  <2> SUFFICES ASSUME record' = "success"
               PROVE  /\ deeds \subseteq {"beyond"} /\ seen = {}
                      /\ done = [setup |-> NSetup, setupOk |-> TRUE, agent |-> "ok",
                                 verify |-> NVerify, verifyOk |-> TRUE]
    BY DEF SuccessIsSound, SaveResult, worktreeVars
  <2>2. Success BY <2>1 DEF SaveResult
  <2>3. seen = {} /\ deeds \cap InDiff = {} /\ deeds \cap ({"ignored"} \cup GitData) = {}
    BY <2>2 DEF RunInv, maskVars, Uncovered, SaveResult, Success
  <2>4. deeds \subseteq {"beyond"}
    BY <2>3, DeedsAssumption DEF RunInv, maskVars, RunTypeOK, InDiff, GitData
  <2>5. done.setup = NSetup BY <2>2 DEF RunInv, maskVars, Told, Finishing, SaveResult, Success
  <2>6. done = [setup |-> NSetup, setupOk |-> TRUE, agent |-> "ok",
                verify |-> NVerify, verifyOk |-> TRUE]
    BY <2>2, <2>5 DEF RunInv, maskVars, RunTypeOK, Success
  <2> QED BY <2>3, <2>4, <2>6
<1>7. RecordTellsTheRun'
  BY DEF RunInv, maskVars, RecordTellsTheRun, OnDisk, SaveResult, Installed, Recordable,
         worktreeVars, reportVars, Told, Finishing
<1> QED BY <1>1, <1>2, <1>3, <1>4, <1>5, <1>6, <1>7 DEF RunInv

(* The end of the scope can only remove files.                             *)
LEMMA LeaveStep == ASSUME RunInv, Leave PROVE RunInv'
<1>1. RunTypeOK'
  BY DEF RunInv, maskVars, RunTypeOK, Causes, ViolationKind, AgentEnds, Leave, reportVars,
         outputVars
<1>2. Told' BY DEF RunInv, maskVars, Told, Finishing, Leave, reportVars, outputVars
<1>3. InPlace'
  BY DEF RunInv, maskVars, InPlace, Leave, reportVars, outputVars
<1>4. Uncovered'
  BY DEF RunInv, maskVars, Uncovered, InDiff, GitData, Leave, reportVars, outputVars
<1>5. OnDisk' BY DEF RunInv, maskVars, OnDisk, Leave, reportVars, outputVars
<1>6. SuccessIsSound'
  BY DEF RunInv, maskVars, SuccessIsSound, OnDisk, Leave, reportVars, outputVars
<1>7. RecordTellsTheRun'
  BY DEF RunInv, maskVars, RecordTellsTheRun, OnDisk, Leave, reportVars, outputVars
<1> QED BY <1>1, <1>2, <1>3, <1>4, <1>5, <1>6, <1>7 DEF RunInv

(* A killed run has neither record nor answer, and nothing more happens.   *)
LEMMA KilledStep == ASSUME RunInv, Killed PROVE RunInv'
<1>1. RunTypeOK'
  <2>1. hidden' \in Maskings BY DEF Killed, Everywhere, Maskings
  <2>2. done' \in Tallies BY CommandsAssumption DEF Killed, NotRun, Tallies, AgentEnds
  <2> QED
    BY <2>1, <2>2
    DEF RunInv, RunTypeOK, Causes, ViolationKind, Maskings, Tallies, Killed, Nobody,
        worktreeVars, outputVars
<1>2. Told'
  BY DEF RunInv, maskVars, Told, Finishing, Killed, NotRun, Nobody, worktreeVars, outputVars
<1>3. InPlace'
  BY DEF RunInv, maskVars, InPlace, Killed, NotRun, Nobody,
         worktreeVars, outputVars
<1>4. Uncovered'
  BY DEF RunInv, maskVars, Uncovered, InDiff, GitData, Killed, NotRun, Nobody, worktreeVars,
         outputVars
<1>5. OnDisk' BY DEF RunInv, maskVars, OnDisk, Killed, NotRun, Nobody, worktreeVars, outputVars
<1>6. SuccessIsSound'
  BY DEF RunInv, maskVars, SuccessIsSound, OnDisk, Killed, NotRun, Nobody, worktreeVars,
         outputVars
<1>7. RecordTellsTheRun'
  BY DEF RunInv, maskVars, RecordTellsTheRun, OnDisk, Killed, NotRun, Nobody, worktreeVars,
         outputVars
<1> QED BY <1>1, <1>2, <1>3, <1>4, <1>5, <1>6, <1>7 DEF RunInv

-----------------------------------------------------------------------------
(* The invariant holds throughout a run.                                   *)
THEOREM RunInvariant == RunSpec => []RunInv
<1>1. RunInv /\ [RunNext]_runVars => RunInv'
  <2> SUFFICES ASSUME RunInv, [RunNext]_runVars PROVE RunInv' OBVIOUS
  <2>1. CASE RunStep
    BY <2>1, PrepareStep, AddWorktreeStep, InventoryStep, RunSetupStep, HideStep,
       RunAgentStep, RestoreStep, RunVerifyStep, InspectStep, CaptureDiffStep, JudgeStep,
       CloseWorktreeStep, WriteArtifactsStep, SaveResultStep, LeaveStep
    DEF RunStep, GitStep, OwnStep
  <2>2. CASE Killed BY <2>2, KilledStep
  <2>3. CASE UNCHANGED runVars
    <3>1. RunTypeOK' /\ Told' /\ InPlace'
      BY <2>3 DEF RunInv, maskVars, RunTypeOK, Told, InPlace, runVars
    <3>2. Uncovered' /\ OnDisk' BY <2>3 DEF RunInv, maskVars, Uncovered, OnDisk, runVars
    <3>3. SuccessIsSound' /\ RecordTellsTheRun'
      BY <2>3 DEF RunInv, maskVars, SuccessIsSound, RecordTellsTheRun, runVars
    <3> QED BY <3>1, <3>2, <3>3 DEF RunInv
  <2> QED BY <2>1, <2>2, <2>3 DEF RunNext
<1> QED BY InitInvariant, <1>1, PTL DEF RunSpec

(* The variables keep their types.                                         *)
THEOREM RunTypes == RunSpec => []RunTypeOK
<1>1. RunInv => RunTypeOK BY DEF RunInv
<1> QED BY RunInvariant, <1>1, PTL

(* A run recorded as successful executed every command with success and    *)
(* its processes broke no rule, whatever inspection failed on the way, but *)
(* for what lies beyond the budget of the inventory of an ignored path.    *)
THEOREM RunSuccess == RunSpec => []SuccessIsSound
<1>1. RunInv => SuccessIsSound BY DEF RunInv
<1> QED BY RunInvariant, <1>1, PTL

(* Verification sees the instruction files that a mask hid from the agent, *)
(* as they were after setup and whatever the agent put there, or the run   *)
(* has an error that keeps it from success.                                *)
THEOREM RunInstructions == RunSpec => VerifiedWithInstructions
<1> DEFINE Back ==
      rpc # "verify" /\ rpc' = "verify" =>
        \/ \A i \in 1 .. NFiles : hidden[i] # "none" => files'[i] = hidden[i]
        \/ "restore" \in errors'
<1>1. RunInv /\ [RunNext]_runVars => [Back]_runVars
  <2> SUFFICES ASSUME RunInv, RunNext, rpc # "verify", rpc' = "verify" PROVE Back
    BY DEF runVars
  <2>1. CASE Restore
    <3>1. files \in Contents /\ hidden \in Maskings
      BY DEF RunInv, RunTypeOK, Contents, Maskings
    <3>2. PICK r \in Restores(files, hidden) :
            IF r.ok
              THEN files' = r.files /\ UNCHANGED reportVars
              ELSE /\ \E again \in Restores(r.files, hidden) : files' = again.files
                   /\ Report({"path"}, {"restore"})
      BY <2>1 DEF Restore
    <3>3. CASE r.ok BY <3>1, <3>2, <3>3, RestoresFiles
    <3>4. CASE ~r.ok BY <3>2, <3>4 DEF Report
    <3> QED BY <3>3, <3>4
  <2>2. CASE Hide \/ RunAgent
    <3>1. hidden = Everywhere("none") BY <2>2 DEF RunInv, InPlace, Hide, RunAgent
    <3> QED BY <3>1 DEF Everywhere
  <2>3. Restore \/ Hide \/ RunAgent
    BY DEF RunNext, RunStep, GitStep, OwnStep, Prepare, Fail, AddWorktree, Inventory,
           AfterSetup, RunSetup, RunVerify, Inspect, CaptureDiff, Judge, CloseWorktree,
           WriteArtifacts, SaveResult, Leave, Killed
  <2> QED BY <2>1, <2>2, <2>3
<1> QED BY RunInvariant, <1>1, PTL DEF RunSpec, VerifiedWithInstructions

(* A record comes after the artifacts and tells which commands ran, even   *)
(* when setup failed.                                                      *)
THEOREM RunRecords == RunSpec => []RecordTellsTheRun
<1>1. RunInv => RecordTellsTheRun BY DEF RunInv
<1> QED BY RunInvariant, <1>1, PTL

(* What is left of a worktree at the end belongs to a run that is not      *)
(* successful and whose record, if any, says so.                           *)
THEOREM RunLeaves == RunSpec => []NothingLeftBehind
<1>1. RunInv => NothingLeftBehind BY DEF RunInv, maskVars, OnDisk, NothingLeftBehind
<1> QED BY RunInvariant, <1>1, PTL

(* Every step of a run is, for its caller, no step or the one step of the  *)
(* promise: the run returns with its record or without, or is killed.      *)
THEOREM RunKeepsPromise ==
  RunSpec => /\ Promise!PromiseInit
             /\ [][Promise!Return \/ Promise!Die]_(Promise!promiseVars)
<1>1. RunInit => Promise!PromiseInit BY DEF RunInit, Promise!PromiseInit
<1>2. RunInv /\ [RunNext]_runVars =>
        [Promise!Return \/ Promise!Die]_(Promise!promiseVars)
  <2> SUFFICES ASSUME RunInv, [RunNext]_runVars
               PROVE  Promise!Return \/ Promise!Die \/ UNCHANGED Promise!promiseVars
    OBVIOUS
  <2> USE DEF Promise!Return, Promise!Die, Promise!promiseVars
  <2>1. CASE Fail /\ record' = record /\ rpc \in {"start", "add", "artifacts"}
    BY <2>1 DEF RunInv, maskVars, OnDisk, Fail
  <2>2. CASE UNCHANGED <<record, answer>> /\ rpc # "dead" /\ rpc' # "dead"
    BY <2>2
  <2>3. CASE SaveResult
    BY <2>3 DEF RunInv, maskVars, OnDisk, SaveResult, WriteOutcomes, Installed
  <2>4. CASE Killed
    BY <2>4 DEF RunInv, maskVars, OnDisk, Killed, outputVars
  <2>5. CASE UNCHANGED runVars BY <2>5 DEF runVars
  <2>6. CASE Prepare BY <2>6, <2>1, <2>2 DEF Prepare
  <2>7. CASE AddWorktree BY <2>7, <2>1, <2>2 DEF AddWorktree
  <2>8. CASE WriteArtifacts BY <2>8, <2>1, <2>2 DEF WriteArtifacts
  <2>9. CASE Inventory \/ RunSetup \/ Hide \/ RunAgent
    BY <2>9, <2>2 DEF Inventory, RunSetup, AfterSetup, Hide, RunAgent, outputVars
  <2>10. CASE Restore \/ RunVerify \/ Inspect \/ CaptureDiff
    BY <2>10, <2>2 DEF Restore, RunVerify, AfterVerify, Inspect, CaptureDiff, outputVars
  <2>11. CASE Judge \/ CloseWorktree \/ Leave
    BY <2>11, <2>2 DEF Judge, CloseWorktree, Leave, outputVars
  <2> QED
    BY <2>3, <2>4, <2>5, <2>6, <2>7, <2>8, <2>9, <2>10, <2>11
    DEF RunNext, RunStep, GitStep, OwnStep
<1> QED BY <1>1, <1>2, RunInvariant, PTL DEF RunSpec
=============================================================================
