------------------------------- MODULE Battle -------------------------------
(***************************************************************************)
(* patcharena battle: one process that runs a group per agent, one after   *)
(* the other, and then writes battles/<uuid>.json.  The calls of run_group *)
(* that belong to the battle are its contestants, in the order given; the  *)
(* others are runs of the same repository in another terminal.  Reports    *)
(* are read beside all of them (ReportReader).                             *)
(***************************************************************************)
EXTENDS ReportReader, Sequences

CONSTANTS
  Order      \* the battle's calls of run_group, a sequence without repeats

Contestants == {Order[i] : i \in DOMAIN Order}

ASSUME OrderAssumption ==
  /\ Order \in Seq(Calls) /\ Order # <<>>
  /\ \A i, j \in DOMAIN Order : Order[i] = Order[j] => i = j
ASSUME NoCallAssumption == None \notin Calls

VARIABLES
  bpc,       \* where the battle is
  base,      \* the commit HEAD had when it began
  entries,   \* the BattleAgentResults so far, one per agent
  battle     \* what the battle's file holds, None before it exists

battleVars == <<bpc, base, entries, battle>>
battleAllVars == <<allVars, battleVars>>

(* The group of an entry, None when the agent's call answered Err, and     *)
(* whether the entry has an error.                                         *)
Entry == [group : Calls \cup {None}, error : BOOLEAN]

(* What the battle's file holds: a BattleSummary.                          *)
Summary == [base : Commits \cup {None}, entries : Seq(Entry)]

ASSUME NoSummaryAssumption == None \notin Summary

Clean(b) == \A i \in DOMAIN b.entries : ~b.entries[i].error

Turn == Order[Len(entries) + 1]

-----------------------------------------------------------------------------
BattleInit ==
  /\ Init
  /\ bpc = "start" /\ base = None /\ entries = <<>> /\ battle = None

(* The checks before the first agent: a clean tree, and the base commit.   *)
BattleBegin ==
  /\ bpc = "start"
  /\ \/ bpc' = "agent" /\ base' = head
     \/ "probe" \in Faults /\ bpc' = "err" /\ UNCHANGED base
  /\ UNCHANGED <<allVars, entries, battle>>

(* ArenaRunner::new cannot prepare the artifact directories: the battle    *)
(* ends and leaves no file, whatever groups it has run.                    *)
NoRunner ==
  /\ bpc = "agent"
  /\ gpc[Turn] = "idle"
  /\ "dir" \in Faults
  /\ bpc' = "err"
  /\ UNCHANGED <<allVars, base, entries, battle>>

(* Mutation: the group's benchmark identity is not compared with the base. *)
MutRecordAgent ==
  /\ bpc = "agent"
  /\ gpc[Turn] \in Returned
  /\ entries' = Append(entries,
       IF gpc[Turn] = "ok" THEN [group |-> Turn, error |-> FALSE]
                           ELSE [group |-> None, error |-> TRUE])
  /\ bpc' = IF Len(entries') = Len(Order) THEN "save" ELSE "agent"
  /\ UNCHANGED <<allVars, base, battle>>

(* Mutation: the group is named although its call answered Err.            *)
MutRecordAgentNames ==
  /\ bpc = "agent"
  /\ gpc[Turn] \in Returned
  /\ \E failed \in BOOLEAN :
       entries' = Append(entries,
         [group |-> Turn, error |-> gpc[Turn] # "ok" \/ mem[Turn].commit # base \/ failed])
  /\ bpc' = IF Len(entries') = Len(Order) THEN "save" ELSE "agent"
  /\ UNCHANGED <<allVars, base, battle>>

(* run_group answered for the agent whose turn it is.  A group pinned to   *)
(* another commit than the base, or with a run that failed, is an error of *)
(* its entry and keeps its place; an Err leaves no trace of the group.     *)
RecordAgent ==
  /\ bpc = "agent"
  /\ gpc[Turn] \in Returned
  /\ \E failed \in BOOLEAN :
       entries' = Append(entries,
         IF gpc[Turn] = "ok"
           THEN [group |-> Turn, error |-> mem[Turn].commit # base \/ failed]
           ELSE [group |-> None, error |-> TRUE])
  /\ bpc' = IF Len(entries') = Len(Order) THEN "save" ELSE "agent"
  /\ UNCHANGED <<allVars, base, battle>>

(* summary.save_new, and the exit code.                                    *)
SaveBattle ==
  /\ bpc = "save"
  /\ \E outcome \in WriteOutcomes :
       LET summary == [base |-> base, entries |-> entries]
       IN  /\ battle' = IF Installed(outcome) THEN summary ELSE battle
           /\ bpc' = IF outcome # "ok" THEN "err"
                     ELSE IF Clean(summary) THEN "success" ELSE "benchmark_failed"
  /\ UNCHANGED <<allVars, base, entries>>

(* A contestant's call begins when it is its turn; a battle that is killed *)
(* with its call, or stops for good, takes no further step.                *)
InTurn ==
  \A k \in Contestants : gpc[k] = "idle" /\ gpc'[k] # "idle" => bpc = "agent" /\ k = Turn

BattleStep == BattleBegin \/ NoRunner \/ RecordAgent \/ SaveBattle

BattleNext ==
  \/ GroupNext /\ InTurn /\ UNCHANGED <<reportVars, selectVars, battleVars>>
  \/ Read /\ UNCHANGED battleVars
  \/ BattleStep

BattleSpec == BattleInit /\ [][BattleNext]_battleAllVars /\ GroupFairness

-----------------------------------------------------------------------------
(* A battle names only groups that can be looked at: Completed, with every *)
(* run in place, and still so whenever somebody reads the battle later.    *)
(* No agent is left out, and one without a group is one whose call failed. *)
BattleHasEvidence ==
  \A i \in DOMAIN entries :
    LET k == entries[i].group
    IN  IF k = None
          THEN entries[i].error /\ gpc[Order[i]] \in {"err", "aborted"}
          ELSE /\ k = Order[i]
               /\ file[k] # None /\ file[k].status = "Completed"
               /\ HasRuns(k, Repeat)

(* A battle that exits with success has its file in place, and all its     *)
(* agents ran on one commit, the one the file names: "run several agents   *)
(* sequentially from the same committed base" (README.md), although HEAD   *)
(* may move, away and back, between the groups and during each.            *)
CleanBattleIsFair ==
  bpc = "success" =>
    /\ battle # None /\ battle.entries = entries
    /\ Len(entries) = Len(Order)
    /\ \A k \in Contestants : file[k] # None /\ file[k].commit = battle.base
=============================================================================
