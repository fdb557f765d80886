---------------------------- MODULE RecordChecks ----------------------------
(***************************************************************************)
(* Inputs for the operators of Records and what must hold of each.         *)
(***************************************************************************)
EXTENDS Records

(* What a process can leave: the deadline hides the exit code.             *)
ProcessSamples ==
  [topic : {"process"}, timed_out : {FALSE}, exit_code : {<<>>, <<0>>, <<1>>}]
  \cup [topic : {"process"}, timed_out : {TRUE}, exit_code : {<<>>}]

OutcomesAreRecordable(process) ==
  LET made == {ProcessCommandOutcome("c", process), AgentCommandOutcome("c", process),
               NotStarted("c", "no such file"), TimedOut("c")}
              \cup {Exited("c", process.exit_code[i]) : i \in DOMAIN process.exit_code}
  IN  \A outcome \in made :
        /\ OutcomeValid(outcome)
        /\ outcome.success => process.exit_code = <<0>> /\ outcome.error = <<>>

-----------------------------------------------------------------------------
(* The results of one group.  A kind is how a run went; the last two are no*)
(* result a runner makes: a success with a violation, and one unverified.  *)

Digest   == <<"e", "f", "e">>
Identity == [repository_commit |-> <<"e", "f">>, task_fingerprint |-> Digest]

TheGroup(ids) ==
  [group_id |-> "g", task_id |-> "t", agent |-> "codex", instructions_enabled |-> TRUE,
   benchmark_identity |-> <<Identity>>, run_ids |-> ids,
   requested_runs |-> <<Len(ids)>>, status |-> "completed"]

Passed(id) ==
  [run_id |-> id, group_id |-> <<"g">>, task_id |-> "t", agent |-> "codex",
   patcharena_version |-> <<"v">>, instructions_enabled |-> TRUE,
   agent_metadata |-> <<[id |-> "codex", display_name |-> "Codex",
                         adapter_version |-> "1", command |-> "codex exec"]>>,
   execution_metadata |-> <<[os |-> "linux", arch |-> "x86_64", repeat_index |-> id,
                             agent_config_hash |-> Digest]>>,
   benchmark_identity |-> <<Identity>>, started_at |-> 0, finished_at |-> 1,
   duration_ms |-> 1, changed_files |-> 1, added_lines |-> 1, deleted_lines |-> 1,
   setup |-> <<>>, agent_outcome |-> <<Exited("codex", 0)>>,
   verification |-> <<Exited("v", 0)>>, audit |-> <<Exited("v", 0)>>,
   violations |-> <<>>, artifacts |-> << <<"stdout.log">>, <<"stderr.log">>, <<"changes.diff">> >>,
   error |-> <<>>, success |-> TRUE, exit_code |-> <<0>>]

Violation == [message |-> "forbidden path", command |-> <<>>, path |-> << <<"d", "f">> >>]

Result(kind, id) ==
  LET passed == Passed(id)
      failed == [passed EXCEPT !.success = FALSE]
  IN  CASE kind = "passed"  -> passed
        [] kind = "slow"    -> [passed EXCEPT !.duration_ms = 3, !.changed_files = 2,
                                              !.added_lines = 3, !.deleted_lines = 2]
        [] kind = "failed"  -> [failed EXCEPT !.verification = <<Exited("v", 1), TimedOut("w")>>]
        [] kind = "flagged" -> [failed EXCEPT !.violations = <<Violation>>]
        [] kind = "late"    -> [failed EXCEPT !.agent_outcome = <<TimedOut("codex")>>,
                                              !.exit_code = <<>>]
        [] kind = "unready" -> [failed EXCEPT !.setup = <<NotStarted("s", "no such file")>>,
                                              !.agent_outcome = <<>>, !.exit_code = <<>>,
                                              !.verification = <<>>, !.error = <<"setup failed">>]
        [] kind = "cheated" -> [passed EXCEPT !.violations = <<Violation>>]
        [] kind = "unproved" -> [passed EXCEPT !.verification = <<>>]

RunnerKinds == {"passed", "slow", "failed", "flagged", "late", "unready"}
Kinds       == RunnerKinds \cup {"cheated", "unproved"}

(* What may be wrong with the results given for a group.                   *)
Faults ==
  {"none", "task", "agent", "instructions", "identity", "group", "missing", "extra", "twice"}

Given(results, fault) ==
  LET First(field, value) == [results EXCEPT ![1] = [@ EXCEPT ![field] = value]] IN
  CASE fault = "none"         -> results
    [] fault = "task"         -> First("task_id", "u")
    [] fault = "agent"        -> First("agent", "other")
    [] fault = "instructions" -> First("instructions_enabled", FALSE)
    [] fault = "identity"     -> First("benchmark_identity", <<>>)
    [] fault = "group"        -> First("group_id", <<"h">>)
    [] fault = "missing"      -> Tail(results)
    [] fault = "extra"        -> Append(results, Result("passed", 9))
    [] fault = "twice"        -> Append(results, results[1])

KindLists == UNION {[1 .. n -> Kinds] : n \in 1 .. 2}
             \cup {<<a, b, c>> : a \in {"passed", "slow"}, b \in {"passed", "flagged"},
                                 c \in {"failed", "slow", "unproved"}}

GroupSamples == [topic : {"group"}, kinds : KindLists, fault : Faults]

Made(kinds) == [i \in DOMAIN kinds |-> Result(kinds[i], i)]

Shared == {"successes", "duration", "files", "lines", "verification_failures", "violations"}

(* Core's summary and the report's aggregates of one group.                *)
SummaryIsReport(group, results) ==
  LET summary == Summarize(group, results)
      report  == GroupReport(group, results)
  IN  summary.ok =>
        /\ \A field \in Shared : summary[field] = report[field]
        /\ \A same \in Reordered(results) :
             Summarize(group, same) = summary /\ GroupReport(group, same) = report
        /\ report.run_count = Len(group.run_ids) /\ GroupAggregateValid(report)
        /\ summary.successes = Len(results) =>
             summary.verification_failures = 0 /\ summary.violations = 0
        /\ ExitForRun(results) = 0 <=> summary.successes = Len(results)
        /\ report.lines.min <= report.lines.max /\ report.duration.spread >= 0

SummariesAgree(kinds, fault) ==
  LET results == Made(kinds)
      group   == TheGroup([i \in DOMAIN kinds |-> i])
      report  == GroupReport(group, results)
  IN  /\ SummaryIsReport(group, results)
      /\ Summarize(group, Given(results, fault)).ok
          <=> fault = "none" /\ ToSet(kinds) \subseteq RunnerKinds
      /\ Summarize(group, results).ok =>
           /\ CompletedGroup(report)
           /\ Len(kinds) = 1 =>
                \A field \in Shared : SingleResultReport(results[1])[field] = report[field]

-----------------------------------------------------------------------------
(* Two groups compared.                                                    *)

ComparisonSamples ==
  [topic : {"comparison"}, kinds : [1 .. 2 -> {"passed", "slow", "failed"}],
   other : {<<"passed">>} \cup [1 .. 2 -> {"slow", "flagged"}],
   change : {"none", "task_id", "benchmark_identity", "status", "requested_runs"}]

Changed(report, change) ==
  CASE change = "none"               -> report
    [] change = "task_id"            -> [report EXCEPT !.task_id = "u"]
    [] change = "benchmark_identity" -> [report EXCEPT !.benchmark_identity = <<>>]
    [] change = "status"             -> [report EXCEPT !.status = "aborted"]
    [] change = "requested_runs"     -> [report EXCEPT !.requested_runs = <<3>>]

Opposite(ab, ba) == \A field \in DOMAIN ab : ab[field] + ba[field] = 0

ReportsCompare(a, b, comparable) ==
  /\ Comparable(a, b) <=> comparable
  /\ Comparable(a, b) = Comparable(b, a)
  /\ Opposite(ComparisonDelta(a, b), ComparisonDelta(b, a))
  /\ a.violations <= a.run_count

ComparisonsAreFair(kinds, other, change) ==
  LET Report(list) == GroupReport(TheGroup([i \in DOMAIN list |-> i]), Made(list))
  IN  ReportsCompare(Report(kinds), Changed(Report(other), change),
                     change = "none" /\ Len(kinds) = Len(other))

-----------------------------------------------------------------------------
(* Two tasks and two agents, two runs in every cell.                       *)

Cells == {"all", "some", "none", "error", "pending"}

SuiteFaults ==
  {"none", "swapped", "missing", "extra", "twice", "identity", "instructions", "short", "miscounted"}

SuiteSamples == [topic : {"suite"}, cells : [1 .. 4 -> Cells], fault : SuiteFaults]

KindsOf(cell) ==
  CASE cell = "all"  -> <<"passed", "slow">>
    [] cell = "some" -> <<"slow", "failed">>
    [] cell = "none" -> <<"flagged", "late">>

TaskOf(i)  == IF i <= 2 THEN "t" ELSE "u"
AgentOf(i) == IF i % 2 = 1 THEN "codex" ELSE "claude"

HasGroup(cell) == cell \in {"all", "some", "none"}

ExecutionOf(cells) ==
  LET Status(cell) == IF HasGroup(cell) THEN "completed" ELSE cell
      Snapshot(t)  == [task_id |-> t, benchmark_identity |-> Identity]
  IN  [repeat |-> 2, instructions_enabled |-> TRUE, agents |-> <<"codex", "claude">>,
       tasks |-> <<Snapshot("t"), Snapshot("u")>>,
       status |-> CASE \E i \in 1 .. 4 : cells[i] = "pending" -> "aborted"
                    [] \E i \in 1 .. 4 : cells[i] = "error" -> "completed_with_errors"
                    [] OTHER -> "completed",
       cells |-> [i \in 1 .. 4 |->
         [task_id |-> TaskOf(i), agent_id |-> AgentOf(i), status |-> Status(cells[i]),
          group_id |-> IF HasGroup(cells[i]) THEN <<i>> ELSE <<>>]]]

GroupOf(i, cell) ==
  LET group == [TheGroup(<<1, 2>>) EXCEPT !.group_id = i, !.task_id = TaskOf(i), !.agent = AgentOf(i)]
  IN  GroupReport(group, Made(KindsOf(cell)))

Groups(cells) ==
  LET backed == SelectSeq(<<1, 2, 3, 4>>, LAMBDA i : HasGroup(cells[i]))
  IN  [i \in DOMAIN backed |-> GroupOf(backed[i], cells[backed[i]])]

Spoiled(groups, fault) ==
  LET First(field, value) == [groups EXCEPT ![1] = [@ EXCEPT ![field] = value]] IN
  CASE fault = "none"         -> groups
    [] fault = "swapped"      -> [groups EXCEPT ![1] = [@ EXCEPT !.group_id = groups[2].group_id],
                                                ![2] = [@ EXCEPT !.group_id = groups[1].group_id]]
    [] fault = "missing"      -> Tail(groups)
    [] fault = "extra"        -> Append(groups, [groups[1] EXCEPT !.group_id = 5])
    [] fault = "twice"        -> Append(groups, groups[1])
    [] fault = "identity"     -> First("benchmark_identity", <<>>)
    [] fault = "instructions" -> First("instructions_enabled", FALSE)
    [] fault = "short"        -> First("run_count", 1)
    [] fault = "miscounted"   -> First("successes", groups[1].successes + 1)

(* Every cell of an agent is in one of its three numbers, its rate is the  *)
(* share of its runs that passed, and the exit code is 0 exactly when the  *)
(* suite is complete and every run of every cell passed.                   *)
SuiteIsCounted(execution, groups, report) ==
  LET cells     == execution.cells
      Own(a)    == {i \in DOMAIN cells : cells[i].agent_id = execution.agents[a]}
      Passes(g) == \A r \in DOMAIN g.runs : g.runs[r].success
  IN  /\ \A a \in DOMAIN execution.agents :
           LET agent == report.agents[a]
               rate  == agent.macro_success_rate
           IN  /\ agent.completed + agent.errors + agent.pending = Cardinality(Own(a))
               /\ agent.total_runs = agent.completed * execution.repeat
               /\ agent.successful_runs <= agent.total_runs
               /\ rate = <<>> <=> agent.completed = 0
               /\ agent.completed > 0 =>
                    rate[1][2] > 0 /\ rate[1][1] * agent.total_runs = rate[1][2] * agent.successful_runs
      /\ ExitForReport(report) = 0 <=>
           /\ execution.status = "completed" /\ cells # <<>>
           /\ \A i \in DOMAIN cells :
                /\ cells[i].status = "completed"
                /\ \A g \in ToSet(groups) : <<g.group_id>> = cells[i].group_id => Passes(g)

CellsAreCounted(report, cells) ==
  LET agents    == ExecutionOf(cells).agents
      completed == {i \in 1 .. 4 : HasGroup(cells[i])}
      Successes(i) == CASE cells[i] = "all" -> 2 [] cells[i] = "some" -> 1 [] OTHER -> 0
  IN  /\ ExitForReport(report) = 0 <=> \A i \in 1 .. 4 : cells[i] = "all"
      /\ Coverage(report.cells) =
           <<Cardinality(completed), Count(cells, LAMBDA c : c = "error"),
             Count(cells, LAMBDA c : c = "pending")>>
      /\ \A a \in 1 .. 2 :
           LET own == {i \in completed : AgentOf(i) = agents[a]}
               sum == MapThenFoldSet(+, 0, Successes, LAMBDA s : CHOOSE i \in s : TRUE, own)
           IN  report.agents[a].completed = Cardinality(own) /\ report.agents[a].successful_runs = sum

ReportCounts(cells, groups, fault) ==
  LET execution == ExecutionOf(cells)
      report    == SuiteReportOf(execution, groups)
  IN  /\ report.ok <=> fault = "none"
      /\ report.ok => CellsAreCounted(report, cells) /\ SuiteIsCounted(execution, groups, report)

SuitesAreCounted(cells, fault) ==
  LET needed == CASE fault = "none" -> 0 [] fault = "swapped" -> 2 [] OTHER -> 1
  IN  Cardinality({i \in 1 .. 4 : HasGroup(cells[i])}) >= needed =>
        ReportCounts(cells, Spoiled(Groups(cells), fault), fault)

-----------------------------------------------------------------------------
(* The identity a benchmark gets from Git.                                 *)

Outputs == UNION {[1 .. n -> {"e", "f", "x", "\n"}] : n \in 0 .. 4}

RevisionSamples ==
  [topic : {"revision"}, revision : {<<>>, <<"-">>, <<"h">>}, succeeds : BOOLEAN, output : Outputs]

CommitsAreObjects(revision, succeeds, output) ==
  LET answer == ResolveCommit(revision, succeeds, output)
      commit == TrimLineEnding(output)
  IN  /\ answer = "ok" =>
           /\ IdentityValid([repository_commit |-> commit, task_fingerprint |-> Digest])
           /\ succeeds /\ revision = <<"h">>
           /\ \E ending \in Outputs : output = commit \o ending /\ ToSet(ending) \subseteq {"\n"}
      /\ /\ succeeds /\ revision = <<"h">>
         /\ IdentityValid([repository_commit |-> output, task_fingerprint |-> Digest])
         => answer = "ok"

-----------------------------------------------------------------------------
(* A battle of up to three agents.                                         *)

Executions == {"clean", "moved", "failed", "aborted"}

BattleSamples == [topic : {"battle"}, agents : SeqOf({"codex", "a", "unknown"}, 3),
                  executions : [1 .. 3 -> Executions], base : {<<"e", "f">>, <<"e">>, <<"x", "f">>}]

(* A battle that starts can be recorded once all its groups have run, and  *)
(* exits with 0 exactly when every run of every agent passed on its base.  *)
BattlesAreRecordable(agents, executions, base) ==
  LET Execution(how) ==
        [error   |-> IF how = "aborted" THEN <<"run group g was aborted">> ELSE <<>>,
         commit  |-> IF how = "moved" THEN <<"f", "f">> ELSE base,
         results |-> Made(IF how = "failed" THEN <<"passed", "late">> ELSE <<"passed", "slow">>)]
      battle == [patcharena_version |-> "v", repeat |-> 2, base_commit |-> base,
                 agents |-> [i \in DOMAIN agents |-> BattleEntry(agents[i], Execution(executions[i]), base)]]
  IN  /\ BattleStarts(agents, {"codex", "a"}) =>
           /\ BattleValid(battle) <=> base = <<"e", "f">>
           /\ ExitForBattle(battle) = 0 <=> \A i \in DOMAIN agents : executions[i] = "clean"
           /\ \A i \in DOMAIN agents : executions[i] # "aborted" => battle.agents[i].run_ids = <<1, 2>>
      /\ BattleValid(battle) /\ ToSet(agents) \subseteq {"codex", "a"} => BattleStarts(agents, {"codex", "a"})

-----------------------------------------------------------------------------
RecordsAreRight(sample) ==
  CASE sample.topic = "process"    -> OutcomesAreRecordable(sample)
    [] sample.topic = "group"      -> SummariesAgree(sample.kinds, sample.fault)
    [] sample.topic = "comparison" -> ComparisonsAreFair(sample.kinds, sample.other, sample.change)
    [] sample.topic = "suite"      -> SuitesAreCounted(sample.cells, sample.fault)
    [] sample.topic = "revision"   -> CommitsAreObjects(sample.revision, sample.succeeds, sample.output)
    [] sample.topic = "battle"     -> BattlesAreRecordable(sample.agents, sample.executions, sample.base)
    [] OTHER -> TRUE

=============================================================================
