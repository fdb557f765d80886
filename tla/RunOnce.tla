------------------------------ MODULE RunOnce ------------------------------
(***************************************************************************)
(* ArenaRunner::run_once: one benchmark run in a detached worktree, with   *)
(* the guard of that worktree (git::DetachedWorktree), the mask that hides *)
(* instruction files from the agent (InstructionMask) and the run's five   *)
(* files, of which result.json is the last.                                *)
(*                                                                         *)
(* The processes a run starts may do anything to the worktree.  What the   *)
(* checks of the run tell apart is kept in deeds, the truth that the run   *)
(* itself only learns through its inventories and its diff.  RunGroup      *)
(* takes a whole run as one step; RunPromise says why it may.              *)
(***************************************************************************)
EXTENDS Environment, Naturals, FiniteSets

CONSTANTS
  NSetup,    \* the number of setup commands of the task
  NVerify,   \* the number of its verification commands
  NFiles,    \* the number of paths of AGENTS.md files in the worktree
  Deeds,     \* what the run's processes may do to the worktree
  MaxDeeds,  \* a bound for model checking: how many of these one run sees
  MaxEdits   \* another: how many instruction files one command changes

(* "ignored"  a forbidden path that Git ignores is changed                 *)
(* "beyond"   so is one, but only past the first 10,000 entries and 64 MiB *)
(*            that an inventory looks at                                   *)
(* "tracked"  a forbidden path is changed and shows in the diff            *)
(* "oddname"  so is one whose name holds a colon or a backslash            *)
(* "big"      the patch exceeds a limit on files or lines                  *)
(* "escape"   a changed symbolic link leaves the worktree                  *)
(* "refs"     refs, local configuration or the index are changed           *)
(* "head"     the worktree's HEAD leaves the pinned commit                 *)
InDiff  == {"tracked", "oddname", "big", "escape"}
GitData == {"refs", "head"}

ASSUME CommandsAssumption == NSetup \in Nat /\ NVerify \in Nat \ {0} /\ NFiles \in Nat
ASSUME DeedsAssumption ==
  /\ Deeds \subseteq {"ignored", "beyond"} \cup InDiff \cup GitData
  /\ {MaxDeeds, MaxEdits} \subseteq Nat

VARIABLES
  rpc,        \* where the run is
  masking,    \* instructions are to be hidden from the agent
  runDir,     \* runs/<uuid> exists
  tree,       \* the worktree's files exist
  registered, \* the repository lists the worktree
  files,      \* files[i]: what is at the path of the i-th AGENTS.md
  hidden,     \* hidden[i]: what the mask took from there, "none" if nothing
  deeds,      \* what was done to the worktree
  before,     \* the inventories taken before execution: "paths", "git"
  done,       \* the commands run, and how the agent ended
  violations, \* the kinds of violation recorded
  errors,     \* the errors recorded, by their cause
  seen,       \* what the captured diff shows, {"none"} when there is none
  artifacts,  \* how many of the four artifact files are in place
  record,     \* result.json: its success, "none" when it is absent
  answer      \* the answer decided on, "none" before

runVars == <<rpc, masking, runDir, tree, registered, files, hidden, deeds, before,
             done, violations, errors, seen, artifacts, record, answer>>

maskVars     == <<masking, hidden>>
worktreeVars == <<tree, registered, files, deeds>>
reportVars   == <<violations, errors>>
outputVars   == <<runDir, artifacts, record, answer>>

(* The causes of errors; "command" stands for setup and verification, and  *)
(* "diff" for the capture and for the inspection of a changed path.        *)
Causes == {"paths", "git", "command", "agent", "restore", "diff", "cleanup"}

(* ViolationKind, as far as properties tell kinds apart: "command" stands  *)
(* for ForbiddenCommand and OutputLimit, "path" for ForbiddenPath,         *)
(* LimitExceeded and SymlinkEscape, "oddpath" for one of these that names  *)
(* a path no record accepts.                                               *)
ViolationKind == {"command", "path", "oddpath", "other"}

AgentEnds == {"notrun", "ok", "fail", "refused"}

NotRun == [setup |-> 0, setupOk |-> TRUE, agent |-> "notrun", verify |-> 0, verifyOk |-> TRUE]

Nobody == {"none"}

(* The things at the path of an instruction file: a file as it was checked *)
(* out ("task"), as a setup command ("setup") or a later process ("agent") *)
(* wrote it, a symbolic link, nothing, or what a failed restoration left,  *)
(* and "blocked" a directory or a link on the way to it.  "any" is one of  *)
(* these when no later step of the run looks at it.                        *)
Regular == {"task", "setup", "agent"}
Things  == Regular \cup {"gone", "link", "blocked", "any"}

Everywhere(thing) == [i \in 1 .. NFiles |-> thing]

-----------------------------------------------------------------------------
RunInit ==
  /\ rpc = "start"
  /\ masking \in BOOLEAN
  /\ runDir = FALSE /\ tree = FALSE /\ registered = FALSE
  /\ files = Everywhere("task")
  /\ hidden = Everywhere("none")
  /\ deeds = {}
  /\ before = {}
  /\ done = NotRun
  /\ violations = {} /\ errors = {}
  /\ seen = Nobody
  /\ artifacts = 0
  /\ record = "none"
  /\ answer = "none"

(* An error passed on with ?: the locals are dropped and the caller gets   *)
(* Err; what is in the run directory stays.                                *)
Fail ==
  /\ answer' = "err"
  /\ rpc' = "drop"

(* create_private_directory and the temporary parent of the worktree.      *)
Prepare ==
  /\ rpc = "start"
  /\ \/ runDir' = TRUE /\ rpc' = "add" /\ UNCHANGED answer
     \/ "dir" \in Faults /\ runDir' \in BOOLEAN /\ Fail
  /\ UNCHANGED <<maskVars, worktreeVars, before, done, reportVars, seen, artifacts, record>>

(* create_detached_worktree at the pinned commit.  When it fails the run   *)
(* directory is removed again, if that can be done; a worktree that cannot *)
(* be canonicalized is removed as far as Git agrees.                       *)
AddWorktree ==
  /\ rpc = "add"
  /\ \/ /\ tree' = TRUE /\ registered' = TRUE
        /\ rpc' = "inventory"
        /\ UNCHANGED <<runDir, answer>>
     \/ /\ "worktree" \in Faults
        /\ tree' \in BOOLEAN /\ registered' = tree'
        /\ runDir' \in (IF "dir" \in Faults THEN BOOLEAN ELSE {FALSE})
        /\ Fail
  /\ UNCHANGED <<maskVars, files, deeds, before, done, reportVars, seen,
                 artifacts, record>>

(* The number of commands run decides where the run goes.                  *)
AfterSetup(n) == IF n < NSetup THEN "setup" ELSE "hide"

AfterVerify(n) == IF n < NVerify THEN "verify" ELSE "after"

Report(kinds, causes) ==
  /\ violations' = violations \cup kinds
  /\ errors' = errors \cup causes

(* Mutation: a missing inventory is not reported.                          *)
MutInventory ==
  /\ rpc = "inventory"
  /\ \E failed \in SUBSET (IF "probe" \in Faults THEN {"paths", "git"} ELSE {}) :
       before' = {"paths", "git"} \ failed
  /\ rpc' = AfterSetup(0)
  /\ UNCHANGED <<maskVars, worktreeVars, done, reportVars, seen, outputVars>>

(* The two inventories before execution; a failing one is reported, and    *)
(* its counterpart after execution is left out.                            *)
Inventory ==
  /\ rpc = "inventory"
  /\ \E failed \in SUBSET (IF "probe" \in Faults THEN {"paths", "git"} ELSE {}) :
       /\ before' = {"paths", "git"} \ failed
       /\ Report(IF failed = {} THEN {} ELSE {"other"}, failed)
  /\ rpc' = AfterSetup(0)
  /\ UNCHANGED <<maskVars, worktreeVars, done, seen, outputVars>>

(* A process of the run did at most one more thing to the worktree.        *)
Act ==
  \/ UNCHANGED deeds
  \/ \E deed \in Deeds : Cardinality(deeds) < MaxDeeds /\ deeds' = deeds \cup {deed}

(* It may also write, remove or replace the instruction files.             *)
Rewritten(writer) ==
  {f \in [1 .. NFiles -> Things] :
     /\ \A i \in 1 .. NFiles : f[i] \in {files[i], writer, "gone", "link", "blocked"}
     /\ Cardinality({i \in 1 .. NFiles : f[i] # files[i]}) <= MaxEdits}

(* run_task_command: a command that matches a forbidden pattern is blocked *)
(* and never runs; output past the limit is a violation of a command that  *)
(* may well have succeeded.                                                *)
TaskCommand(succeeded, rewritten) ==
  \/ /\ violations' \in {violations, violations \cup {"command"}}
     /\ Act
     /\ files' \in rewritten
  \/ /\ ~succeeded
     /\ violations' = violations \cup {"command"}
     /\ UNCHANGED <<deeds, files>>

(* Mutation: a failed setup command does not end the run's preparation.    *)
MutRunSetup ==
  /\ rpc = "setup"
  /\ \E succeeded \in BOOLEAN :
       /\ TaskCommand(succeeded, Rewritten("setup"))
       /\ done' = [done EXCEPT !.setup = @ + 1, !.setupOk = succeeded]
       /\ errors' = IF succeeded THEN errors ELSE errors \cup {"command"}
       /\ rpc' = AfterSetup(done'.setup)
  /\ UNCHANGED <<maskVars, tree, registered, before, seen, outputVars>>

(* The setup loop: it ends at the first failure, and then neither agent    *)
(* nor verification run.                                                   *)
RunSetup ==
  /\ rpc = "setup"
  /\ \E succeeded \in BOOLEAN :
       /\ TaskCommand(succeeded, Rewritten("setup"))
       /\ done' = [done EXCEPT !.setup = @ + 1, !.setupOk = succeeded]
       /\ errors' = IF succeeded THEN errors ELSE errors \cup {"command"}
       /\ rpc' = IF succeeded THEN AfterSetup(done'.setup) ELSE "after"
  /\ UNCHANGED <<maskVars, tree, registered, before, seen, outputVars>>

(* restore_inner, of the files in kept: they are put back in order,        *)
(* whatever lies in their place is replaced, and the first one that cannot *)
(* be put back, because a directory or a link is in its way or the file    *)
(* system refuses, ends the attempt.  The mask stays active then and its   *)
(* drop tries once more.                                                   *)
Restores(f, kept) ==
  LET Kept    == {i \in 1 .. NFiles : kept[i] # "none"}
      Blocked == {i \in Kept : f[i] = "blocked"}
      Stops   == {j \in Kept :
                    /\ \A i \in Blocked : j <= i
                    /\ j \in Blocked \/ "worktree" \in Faults}
      Left(j) == IF j \in Blocked THEN {"blocked"} ELSE {f[j], "gone", kept[j]}
      UpTo(j, left) == [i \in 1 .. NFiles |-> CASE i < j /\ i \in Kept -> kept[i]
                                               [] i = j -> left
                                               [] OTHER -> f[i]]
      Whole   == [i \in 1 .. NFiles |-> IF i \in Kept THEN kept[i] ELSE f[i]]
  IN  (IF Blocked = {} THEN {[files |-> Whole, ok |-> TRUE]} ELSE {})
        \cup UNION {{[files |-> UpTo(j, left), ok |-> FALSE] : left \in Left(j)} : j \in Stops}

(* The first n files as a mask takes them, and what it leaves.             *)
Taken(n)   == [i \in 1 .. NFiles |-> IF i <= n /\ files[i] \in Regular THEN files[i] ELSE "none"]
Without(n) == [i \in 1 .. NFiles |-> IF i <= n /\ files[i] \in Regular THEN "gone" ELSE files[i]]

(* instruction_paths and InstructionMask::hide take the regular files that *)
(* are there after setup, and refuse a link.  When a file cannot be hidden *)
(* those before it are put back by the mask's drop, whose failure nobody   *)
(* hears of, and the agent does not run.                                   *)
Hide ==
  /\ rpc = "hide"
  /\ \/ /\ ~masking
        /\ rpc' = "agent"
        /\ UNCHANGED <<files, hidden, done, errors>>
     \/ /\ masking
        /\ \A i \in 1 .. NFiles : files[i] # "link"
        /\ hidden' = Taken(NFiles)
        /\ files' = Without(NFiles)
        /\ rpc' = "agent"
        /\ UNCHANGED <<done, errors>>
     \/ /\ masking
        /\ \/ /\ \E i \in 1 .. NFiles : files[i] = "link"
              /\ UNCHANGED files
           \/ /\ "worktree" \in Faults
              /\ \E n \in 0 .. NFiles : \E r \in Restores(Without(n), Taken(n)) :
                   files' = r.files
        /\ done' = [done EXCEPT !.agent = "refused"]
        /\ errors' = errors \cup {"agent"}
        /\ rpc' = "verify"
        /\ UNCHANGED hidden
  /\ UNCHANGED <<masking, tree, registered, deeds, before, violations, seen,
                 outputVars>>

(* agent.run: it succeeds, fails or times out; it may leave files, links   *)
(* or directories where hidden files were, and nobody looks at them when   *)
(* none were hidden.  Truncated output and forbidden commands found in it  *)
(* are violations.                                                         *)
RunAgent ==
  /\ rpc = "agent"
  /\ \E end \in {"ok", "fail"} :
       /\ done' = [done EXCEPT !.agent = end]
       /\ errors' = IF end = "ok" THEN errors ELSE errors \cup {"agent"}
  /\ \E found \in {{}, {"command"}} :
       violations' = violations \cup found
  /\ Act
  /\ IF masking
       THEN files' \in Rewritten("agent") /\ rpc' = "restore"
       ELSE files' = Everywhere("any") /\ rpc' = "verify"
  /\ UNCHANGED <<maskVars, tree, registered, before, seen, outputVars>>

(* Mutation: a failed restoration is left to the drop, which is silent.    *)
MutRestore ==
  /\ rpc = "restore"
  /\ \E r \in Restores(files, hidden) : files' = r.files
  /\ hidden' = Everywhere("none")
  /\ rpc' = "verify"
  /\ UNCHANGED <<masking, tree, registered, deeds, before, done, violations,
                 errors, seen, outputVars>>

(* mask.restore, then the drop of a mask that is still active.             *)
Restore ==
  /\ rpc = "restore"
  /\ \E r \in Restores(files, hidden) :
       IF r.ok
         THEN files' = r.files /\ UNCHANGED reportVars
         ELSE /\ \E again \in Restores(r.files, hidden) : files' = again.files
              /\ Report({"path"}, {"restore"})
  /\ hidden' = Everywhere("none")
  /\ rpc' = "verify"
  /\ UNCHANGED <<masking, tree, registered, deeds, before, done, seen, outputVars>>

(* The verification loop runs every command, whatever the agent and the    *)
(* commands before it did.  No step looks at the instruction files again.  *)
RunVerify ==
  /\ rpc = "verify"
  /\ \E succeeded \in BOOLEAN :
       /\ TaskCommand(succeeded, {Everywhere("any")})
       /\ done' = [done EXCEPT !.verify = @ + 1, !.verifyOk = @ /\ succeeded]
       /\ errors' = IF succeeded THEN errors ELSE errors \cup {"command"}
  /\ rpc' = AfterVerify(done'.verify)
  /\ UNCHANGED <<maskVars, tree, registered, before, seen, outputVars>>

(* The second inventories: each is compared only when its first one was    *)
(* taken.  An inventory of paths stops at its budget, and the run does not *)
(* ask whether it did: what only changed beyond is equal, so that a        *)
(* tracked path may be left to the diff.  The refs are those of the whole  *)
(* repository, so a user who moves one while the run lasts is taken for    *)
(* the run's own processes.                                                *)
Inspect ==
  /\ rpc = "after"
  /\ \E failed \in SUBSET (IF "probe" \in Faults THEN before ELSE {}),
        userMoved, within \in BOOLEAN :
       LET compared == before \ failed
           shown    == {"ignored"} \cup (IF within THEN {"tracked", "oddname"} ELSE {})
           changed  == \/ "paths" \in compared /\ deeds \cap shown # {}
                       \/ "git" \in compared /\ (deeds \cap GitData # {} \/ userMoved)
       IN  Report((IF "paths" \in failed THEN {"other"} ELSE {})
                    \cup (IF "git" \in failed \/ changed THEN {"path"} ELSE {}),
                  failed)
  /\ before' = {}
  /\ rpc' = "diff"
  /\ UNCHANGED <<maskVars, worktreeVars, done, seen, outputVars>>

(* capture_diff: a temporary index, HEAD and all files of the worktree.  A *)
(* worktree whose HEAD moved is compared with another commit, and the diff *)
(* may show any part of what was done.                                     *)
CaptureDiff ==
  /\ rpc = "diff"
  /\ \/ /\ seen' \in (IF "head" \in deeds THEN SUBSET (deeds \cap InDiff)
                                          ELSE {deeds \cap InDiff})
        /\ UNCHANGED errors
     \/ /\ "probe" \in Faults
        /\ seen' = Nobody
        /\ errors' = errors \cup {"diff"}
  /\ rpc' = "judge"
  /\ UNCHANGED <<maskVars, worktreeVars, before, done, violations, outputVars>>

(* The limits and the changed paths.  A violation keeps the path it is     *)
(* about, and the path of an odd name is one no record accepts.            *)
Judge ==
  /\ rpc = "judge"
  /\ \E failed \in SUBSET (IF "probe" \in Faults /\ seen # {} /\ seen # Nobody
                             THEN {"diff"} ELSE {}) :
       Report(
         (IF seen \cap {"big", "tracked"} # {} THEN {"path"} ELSE {})
           \cup (IF "oddname" \in seen THEN {"oddpath"} ELSE {})
           \cup (IF "escape" \in seen /\ failed = {} THEN {"path"} ELSE {})
           \cup (IF failed = {} THEN {} ELSE {"other"}),
         failed)
  /\ rpc' = "close"
  /\ UNCHANGED <<maskVars, worktreeVars, before, done, seen, outputVars>>

(* Mutation: the guard forgets the worktree although it was not removed,   *)
(* and says that it was.                                                   *)
MutCloseWorktree ==
  /\ rpc = "close"
  /\ \/ tree' = FALSE /\ registered' = FALSE
     \/ "worktree" \in Faults /\ tree' \in BOOLEAN /\ registered' = TRUE
  /\ rpc' = "artifacts"
  /\ UNCHANGED <<maskVars, files, deeds, before, done, reportVars, seen,
                 outputVars>>

(* DetachedWorktree::close, and its drop: a worktree that could not be     *)
(* removed is tried once more, whose outcome nobody hears of; a prune that *)
(* fails after the removal is reported and not repeated.                   *)
CloseWorktree ==
  /\ rpc = "close"
  /\ \/ /\ tree' = FALSE /\ registered' = FALSE
        /\ UNCHANGED reportVars
     \/ /\ "worktree" \in Faults
        /\ registered' \in BOOLEAN
        /\ tree' \in {FALSE, registered'}
        /\ Report({"other"}, {"cleanup"})
  /\ rpc' = "artifacts"
  /\ UNCHANGED <<maskVars, files, deeds, before, done, seen, outputVars>>

(* stdout.log, stderr.log, changes.diff and audit.jsonl, in this order: an *)
(* error ends the run with those before it in place, and perhaps the one   *)
(* whose write it was.                                                     *)
WriteArtifacts ==
  /\ rpc = "artifacts"
  /\ \/ artifacts' = 4 /\ rpc' = "record" /\ UNCHANGED answer
     \/ /\ \E n \in 0 .. 3, outcome \in WriteOutcomes \ {"ok"} :
             artifacts' = IF Installed(outcome) THEN n + 1 ELSE n
        /\ Fail
  /\ UNCHANGED <<maskVars, worktreeVars, before, done, reportVars, seen, runDir, record>>

(* The formula for RunResult::success.                                     *)
Success ==
  /\ done.setupOk
  /\ done.agent = "ok"
  /\ done.verifyOk /\ done.verify = NVerify
  /\ violations = {} /\ errors = {}

(* RunResult::validate on what can go wrong in a result run_once builds:   *)
(* the clock stepped back behind started_at, or a violation whose path is  *)
(* not portable.                                                           *)
Recordable(stamp) == stamp = "later" /\ "oddpath" \notin violations

(* Mutation: an error of save_new is dropped.                              *)
MutSaveResult ==
  /\ rpc = "record"
  /\ \E outcome \in WriteOutcomes, stamp \in Stamps :
       /\ record' = IF Installed(outcome) /\ Recordable(stamp)
                      THEN (IF Success THEN "success" ELSE "failure") ELSE record
       /\ answer' = "ok"
  /\ rpc' = "drop"
  /\ UNCHANGED <<maskVars, worktreeVars, before, done, reportVars, seen, runDir, artifacts>>

(* result.save_new, the last write of the run.                             *)
SaveResult ==
  /\ rpc = "record"
  /\ \E outcome \in WriteOutcomes, stamp \in Stamps :
       /\ record' = IF Installed(outcome) /\ Recordable(stamp)
                      THEN (IF Success THEN "success" ELSE "failure") ELSE record
       /\ answer' = IF outcome = "ok" /\ Recordable(stamp) THEN "ok" ELSE "err"
  /\ rpc' = "drop"
  /\ UNCHANGED <<maskVars, worktreeVars, before, done, reportVars, seen, runDir, artifacts>>

(* The end of the scope: the temporary parent takes the worktree's files   *)
(* with it, best effort, and leaves the registration alone.                *)
Leave ==
  /\ rpc = "drop"
  /\ tree' \in (IF "dir" \in Faults THEN {FALSE, tree} ELSE {FALSE})
  /\ rpc' = "end"
  /\ UNCHANGED <<maskVars, registered, files, deeds, before, done, reportVars,
                 seen, outputVars>>

(* The process is killed: nothing is dropped, what it knew is gone.  A     *)
(* kill while the locals are dropped leaves what Leave may leave.          *)
Killed ==
  /\ "kill" \in Faults
  /\ rpc \notin {"drop", "end", "dead"}
  /\ rpc' = "dead"
  /\ before' = {} /\ done' = NotRun /\ hidden' = Everywhere("none")
  /\ violations' = {} /\ errors' = {}
  /\ seen' = Nobody
  /\ UNCHANGED <<masking, worktreeVars, outputVars>>

(* The steps that wait for Git, and the others.                            *)
GitStep == AddWorktree \/ Inventory \/ Inspect \/ CaptureDiff \/ CloseWorktree

OwnStep ==
  \/ Prepare \/ RunSetup \/ Hide \/ RunAgent \/ Restore \/ RunVerify \/ Judge
  \/ WriteArtifacts \/ SaveResult \/ Leave

RunStep == GitStep \/ OwnStep

RunNext == RunStep \/ Killed

(* The commands and the agent have deadlines, which execute_process keeps  *)
(* (CallEnds of module Process, with the exception it names), and the      *)
(* storage is taken to answer.                                             *)
StepsEnd == WF_runVars(OwnStep)

(* An assumption, which nothing in the code ensures: "Internal Git         *)
(* subprocesses do not currently have a separate deadline"                 *)
(* (docs/threat-model.md), so a Git that never returns holds a run up.     *)
GitReturns == WF_runVars(GitStep)

RunSpec == RunInit /\ [][RunNext]_runVars /\ StepsEnd /\ GitReturns

-----------------------------------------------------------------------------
(* The values the variables take, the run's place among its phases and     *)
(* what is settled by then.                                                *)
RunTypeOK ==
  /\ rpc \in {"start", "add", "inventory", "setup", "hide", "agent", "restore", "verify",
              "after", "diff", "judge", "close", "artifacts", "record", "drop", "end",
              "dead"}
  /\ {masking, runDir, tree, registered} \subseteq BOOLEAN
  /\ files \in [1 .. NFiles -> Things]
  /\ hidden \in [1 .. NFiles -> Regular \cup {"none"}]
  /\ deeds \subseteq Deeds
  /\ before \subseteq {"paths", "git"}
  /\ done \in [setup : 0 .. NSetup, setupOk : BOOLEAN, agent : AgentEnds,
               verify : 0 .. NVerify, verifyOk : BOOLEAN]
  /\ violations \subseteq ViolationKind
  /\ errors \subseteq Causes
  /\ seen \subseteq InDiff \cup Nobody
  /\ artifacts \in 0 .. 4
  /\ record \in {"none", "success", "failure"}
  /\ answer \in {"none", "ok", "err"}

(* A run recorded as successful ran its agent and every command with       *)
(* success, and nothing its processes did to the worktree breaks a rule:   *)
(* no forbidden path differs from before, ignored ones included, no limit  *)
(* is passed and the patch was taken against the pinned commit, whatever   *)
(* inspection fails on the way.  "A failure or policy violation must not   *)
(* be silently represented as success" (docs/threat-model.md), with the    *)
(* exception that document names: "a change beyond the inventory budget"   *)
(* of a path that Git ignores as well.  Deeds are what the inspection      *)
(* could still find: not what was undone before it, nor what a descendant  *)
(* that left its process group does afterwards.                            *)
SuccessIsSound ==
  record = "success" =>
    /\ deeds \subseteq {"beyond"} /\ seen = {}
    /\ done = [setup |-> NSetup, setupOk |-> TRUE, agent |-> "ok",
               verify |-> NVerify, verifyOk |-> TRUE]

(* When verification begins after an agent that worked behind the mask,    *)
(* every instruction file that was hidden is what it was when setup had    *)
(* ended, whatever the agent put in its place, or the run has the error of *)
(* the failed restoration, which keeps it from success: "Files are         *)
(* restored before verification" (README.md).  What setup itself, an agent *)
(* that was shown the files or a verification command writes there is not  *)
(* undone.                                                                 *)
VerifiedWithInstructions ==
  [][rpc # "verify" /\ rpc' = "verify" =>
       \/ \A i \in 1 .. NFiles : hidden[i] # "none" => files'[i] = hidden[i]
       \/ "restore" \in errors']_runVars

(* A result.json comes after its four artifacts and tells what ran: agent  *)
(* and verification exactly when setup succeeded, no verification command  *)
(* left out, and the diff, the inventories and the removal of the worktree *)
(* done or reported even when setup failed.                                *)
RecordTellsTheRun ==
  record # "none" =>
    /\ runDir /\ artifacts = 4
    /\ done.agent # "notrun" <=> done.setupOk
    /\ done.verify = IF done.setupOk THEN NVerify ELSE 0
    /\ done.setupOk => done.setup = NSetup
    /\ seen = Nobody => "diff" \in errors
    /\ tree \/ registered => "cleanup" \in errors

(* A worktree that stays registered, or whose files stay, once the run has *)
(* ended belongs to a run that is not successful: Git could not add it, or *)
(* its removal failed, which the record says when there is one.            *)
NothingLeftBehind ==
  rpc = "end" /\ (registered \/ tree) =>
    /\ record # "success"
    /\ "cleanup" \in errors \/ (answer = "err" /\ record = "none")

(* The run has its record when it ends: docs/threat-model.md:86 says that  *)
(* PatchArena records changed files, statistics and detected violations,   *)
(* incomplete "if the host crashes or storage fails".                      *)
EndsWithRecord == rpc = "end" => record # "none"

(* Seen by its caller, a run is one step: run_group relies on no more.     *)
(* The verdict is settled with the last write, so a kill after it comes    *)
(* too late to change it.  That every run returns assumes that Git does.   *)
Promise == INSTANCE RunPromise WITH
  recorded <- record # "none",
  verdict  <- IF answer # "none" THEN answer
              ELSE IF rpc = "dead" THEN "dead" ELSE "none"

ImplementsPromise == Promise!PromiseSpec
=============================================================================
