---------------------------- MODULE ReportReader ----------------------------
(***************************************************************************)
(* The two readers of run groups, beside the calls of run_group that write *)
(* them: load_report, which reads every result and then every group, and   *)
(* load_selection, which reads one group and then the results it lists.    *)
(* No lock stands between readers and writers, and a reader sees what      *)
(* killed writers left.  Racing says whether load_report may start while a *)
(* call is at work; load_selection always may.                             *)
(***************************************************************************)
EXTENDS RunGroup

CONSTANT Racing

ASSUME RacingAssumption == Racing \in BOOLEAN

VARIABLES
  rpc,       \* where load_report is
  seen,      \* the results it has read
  unread,    \* the group files it has listed and not read yet
  read,      \* read[k]: the group it read from groups/<k>.json
  spc,       \* where load_selection is
  chosen,    \* the call whose group was selected
  picked     \* the group it read, None when the file was absent

reportVars == <<rpc, seen, unread, read>>
selectVars == <<spc, chosen, picked>>
allVars    == <<groupVars, reportVars, selectVars>>

-----------------------------------------------------------------------------
Init ==
  /\ GroupInit
  /\ rpc = "start" /\ seen = {} /\ unread = {} /\ read = NoGroup
  /\ spc = "start" /\ chosen \in Calls /\ picked = None

(* load_results: a result, once in place, neither changes nor goes away,   *)
(* so the walk over the directory is the moment it is read.                *)
LoadResults ==
  /\ rpc = "start"
  /\ Racing \/ \A k \in Calls : gpc[k] \notin Active \cup {"idle"}
  /\ seen' = results
  /\ rpc' = "list"
  /\ UNCHANGED <<groupVars, unread, read, selectVars>>

(* load_groups lists the directory, then loads the files one by one.       *)
ListGroups ==
  /\ rpc = "list"
  /\ unread' = {k \in Calls : file[k] # None}
  /\ rpc' = "load"
  /\ UNCHANGED <<groupVars, seen, read, selectVars>>

LoadGroup(k) ==
  /\ rpc = "load"
  /\ k \in unread
  /\ read' = [read EXCEPT ![k] = file[k]]
  /\ unread' = unread \ {k}
  /\ UNCHANGED <<groupVars, rpc, seen, selectVars>>

Listed(k) == IF read[k] = None THEN {} ELSE {<<k, i>> : i \in 1 .. read[k].listed}

(* Every listed run must have been read, and every result read declares    *)
(* its group, so it must be listed there: one that is not fails the report.*)
Conclude ==
  /\ rpc = "load"
  /\ unread = {}
  /\ rpc' = IF \E k \in Calls : ~(Listed(k) \subseteq seen) THEN "not_found"
            ELSE IF seen \ UNION {Listed(k) : k \in Calls} # {} THEN "incompatible"
            ELSE "rendered"
  /\ UNCHANGED <<groupVars, seen, unread, read, selectVars>>

(* load_selected_group, for the UUID of a group.                           *)
SelectGroup ==
  /\ spc = "start"
  /\ picked' = file[chosen]
  /\ spc' = IF file[chosen] = None THEN "not_found" ELSE "found"
  /\ UNCHANGED <<groupVars, reportVars, chosen>>

(* load_selected_result for each run the group lists, then summarize.      *)
SelectResults ==
  /\ spc = "found"
  /\ spc' = IF HasRuns(chosen, picked.listed) THEN "rendered" ELSE "missing"
  /\ UNCHANGED <<groupVars, reportVars, chosen, picked>>

Read ==
  \/ LoadResults \/ ListGroups \/ (\E k \in Calls : LoadGroup(k)) \/ Conclude
  \/ SelectGroup \/ SelectResults

Next == (GroupNext /\ UNCHANGED <<reportVars, selectVars>>) \/ Read

Spec == Init /\ [][Next]_allVars

(* The calls go on; nobody has to read.                                    *)
FairSpec == Spec /\ GroupFairness

-----------------------------------------------------------------------------
(* What the readers hold.                                                  *)
ReaderTypeOK ==
  /\ rpc \in {"start", "list", "load", "rendered", "not_found", "incompatible"}
  /\ seen \subseteq Calls \X (1 .. Repeat)
  /\ unread \subseteq Calls
  /\ read \in [Calls -> Group \cup {None}]
  /\ spc \in {"start", "found", "rendered", "not_found", "missing"}
  /\ picked \in Group \cup {None}

(* A group selected by its UUID can be shown whatever its state: every run *)
(* it lists is found, while the group is being written, after a kill and   *)
(* after a failed write ("Running, aborted, and legacy groups remain       *)
(* inspectable", README).                                                  *)
SelectionIsWhole == spc # "missing"

(* load_report, started when nothing runs, never misses a run that a group *)
(* lists, whatever killed or failing writers left behind.                  *)
ReportFindsItsRuns == rpc # "not_found"

(* "Reports can still render incomplete evidence and label its status"     *)
(* (docs/architecture.md): what the writers left behind can be rendered.   *)
ReportRenders == rpc \notin {"not_found", "incompatible"}
=============================================================================
