------------------------------ MODULE Records ------------------------------
(***************************************************************************)
(* What a record must look like to be written or read (core/result.rs) and *)
(* what is computed from records: the summary of a group in core, the      *)
(* aggregates, comparisons and suite reports of report/lib.rs and          *)
(* report/suite.rs, and the exit code of the command line.                 *)
(*                                                                         *)
(* An optional value is a sequence of at most one.  A text is one of a few *)
(* representatives.  Rates are pairs <<n, m>>, a median is doubled, and a  *)
(* standard deviation stands as count^2 times its square, so that all      *)
(* numbers are naturals; the code uses f64.                                *)
(***************************************************************************)
EXTENDS Policy, GitOutput

Blank   == {"", " "}
WithNul == {"nul"}
Usable(text)   == text \notin Blank \cup WithNul
Present(option, Fine(_)) == \A i \in DOMAIN option : Fine(option[i])
NotBlank(text) == text \notin Blank

DigestLength == 3   \* hexadecimal digits of a SHA-256, made few

Hex(text) == \A i \in DOMAIN text : text[i] \in HexDigits

IdentityValid(identity) ==
  /\ Len(identity.repository_commit) \in OidLengths /\ Hex(identity.repository_commit)
  /\ Len(identity.task_fingerprint) = DigestLength /\ Hex(identity.task_fingerprint)

-----------------------------------------------------------------------------
(* The outcome of a command.                                               *)

Outcome(command, success, exit, timedOut, error) ==
  [command |-> command, success |-> success, exit_code |-> exit, timed_out |-> timedOut,
   error |-> error]

Exited(command, code)     == Outcome(command, code = 0, <<code>>, FALSE, <<>>)
TimedOut(command)         == Outcome(command, FALSE, <<>>, TRUE, <<"command timed out">>)
NotStarted(command, text) == Outcome(command, FALSE, <<>>, FALSE, <<text>>)

ProcessSuccess(process) == ~process.timed_out /\ process.exit_code = <<0>>

ProcessCommandOutcome(command, process) ==
  Outcome(command, ProcessSuccess(process), process.exit_code, process.timed_out,
          IF process.timed_out THEN <<"command timed out">> ELSE <<>>)

AgentCommandOutcome(command, execution) ==
  Outcome(command, ProcessSuccess(execution), execution.exit_code, execution.timed_out,
          IF execution.timed_out THEN <<"agent timed out">> ELSE <<>>)

OutcomeValid(outcome) ==
  /\ Usable(outcome.command)
  /\ outcome.success =>
       outcome.exit_code = <<0>> /\ ~outcome.timed_out /\ outcome.error = <<>>
  /\ outcome.timed_out => outcome.exit_code = <<>>
  /\ Present(outcome.error, NotBlank)

AllValid(outcomes) == \A i \in DOMAIN outcomes : OutcomeValid(outcomes[i])

ViolationValid(violation) ==
  /\ NotBlank(violation.message)
  /\ Present(violation.command, Usable)
  /\ Present(violation.path, EnsureSafeRelativePath)

ArtifactsValid(paths) ==
  /\ \A i \in DOMAIN paths : EnsureSafeRelativePath(paths[i])
  /\ \A i, j \in DOMAIN paths : i # j => paths[i] # paths[j]

AgentValid(agent) == Usable(agent)

MetadataValid(metadata, agent) ==
  /\ AgentValid(metadata.id) /\ metadata.id = agent
  /\ Usable(metadata.display_name) /\ Usable(metadata.adapter_version) /\ Usable(metadata.command)

ExecutionValid(execution) ==
  /\ NotBlank(execution.os) /\ NotBlank(execution.arch) /\ execution.repeat_index > 0
  /\ Len(execution.agent_config_hash) = DigestLength /\ Hex(execution.agent_config_hash)

Successful(outcomes) == \A i \in DOMAIN outcomes : outcomes[i].success

(* RunResult::validate.                                                    *)
RunResultValid(result) ==
  /\ AgentValid(result.agent)
  /\ Present(result.patcharena_version, NotBlank)
  /\ Present(result.agent_metadata, LAMBDA m : MetadataValid(m, result.agent))
  /\ Present(result.execution_metadata, ExecutionValid)
  /\ Present(result.benchmark_identity, IdentityValid)
  /\ result.started_at <= result.finished_at
  /\ AllValid(result.setup) /\ AllValid(result.agent_outcome)
  /\ AllValid(result.verification) /\ AllValid(result.audit)
  /\ \A i \in DOMAIN result.violations : ViolationValid(result.violations[i])
  /\ ArtifactsValid(result.artifacts)
  /\ Present(result.error, NotBlank)
  /\ result.success =>
       /\ result.exit_code = <<0>> /\ result.verification # <<>> /\ result.error = <<>>
       /\ Successful(result.setup) /\ Successful(result.agent_outcome)
       /\ Successful(result.verification) /\ result.violations = <<>>

-----------------------------------------------------------------------------
(* Statistics.                                                             *)

Total(values) == FoldLeft(LAMBDA a, b : a + b, 0, values)
Each(list, Of(_)) == [i \in DOMAIN list |-> Of(list[i])]
Count(list, Test(_)) == Total(Each(list, LAMBDA v : IF Test(v) THEN 1 ELSE 0))

Orders(list) == {order \in [DOMAIN list -> DOMAIN list] : IsInjective(order)}
Reordered(list) == {[i \in DOMAIN list |-> list[order[i]]] : order \in Orders(list)}

(* No two numbers or runs that are sorted are told apart but by the key.   *)
InOrder(list, AtMost(_, _)) ==
  CHOOSE sorted \in Reordered(list) :
    \A i, j \in DOMAIN list : i < j => AtMost(sorted[i], sorted[j])

Sorted(values) == InOrder(values, LAMBDA a, b : a <= b)

Median(values) ==
  LET sorted == Sorted(values)
      middle == Len(sorted) \div 2
  IN  IF Len(sorted) % 2 = 0 THEN sorted[middle] + sorted[middle + 1]
      ELSE 2 * sorted[middle + 1]

Spread(values) ==
  Len(values) * Total(Each(values, LAMBDA v : v * v)) - Total(values) * Total(values)

FromValues(values) ==
  IF values = <<>> THEN [min |-> 0, median |-> 0, max |-> 0, mean |-> <<0, 0>>, spread |-> 0]
  ELSE [min |-> Sorted(values)[1], median |-> Median(values), max |-> Last(Sorted(values)),
        mean |-> <<Total(values), Len(values)>>, spread |-> Spread(values)]

DiffLines(result) == Least(result.added_lines + result.deleted_lines, MaxLines)

FailedOutcomes(outcomes) == Count(outcomes, LAMBDA o : ~o.success)

-----------------------------------------------------------------------------
(* RunGroup::summarize and RunSummary::from_validated.  A group has passed *)
(* RunGroup::validate.                                                     *)

NotASummary == [ok |-> FALSE]

Belongs(result, group) ==
  /\ RunResultValid(result)
  /\ result.task_id = group.task_id /\ result.agent = group.agent
  /\ result.instructions_enabled = group.instructions_enabled
  /\ result.benchmark_identity = group.benchmark_identity
  /\ Present(result.group_id, LAMBDA g : g = group.group_id)

FromValidated(ordered) ==
  LET values(Of(_)) == FromValues(Each(ordered, Of)) IN
  [ok |-> TRUE,
   successes |-> Count(ordered, LAMBDA r : r.success),
   duration  |-> values(LAMBDA r : r.duration_ms),
   files     |-> values(LAMBDA r : r.changed_files),
   lines     |-> values(DiffLines),
   verification_failures |-> Total(Each(ordered, LAMBDA r : FailedOutcomes(r.verification))),
   violations |-> Total(Each(ordered, LAMBDA r : Len(r.violations)))]

Summarize(group, results) ==
  LET ids == Each(results, LAMBDA r : r.run_id)
  IN  IF /\ \A i \in DOMAIN results : Belongs(results[i], group)
         /\ Cardinality(ToSet(ids)) = Len(ids)
         /\ Len(ids) = Len(group.run_ids) /\ ToSet(group.run_ids) \subseteq ToSet(ids)
      THEN FromValidated(Each(group.run_ids,
                              LAMBDA id : results[SelectInSeq(ids, LAMBDA i : i = id)]))
      ELSE NotASummary

-----------------------------------------------------------------------------
(* report/lib.rs.                                                          *)

RunDetail(result) ==
  [run_id |-> result.run_id, success |-> result.success, duration_ms |-> result.duration_ms,
   changed_files |-> result.changed_files,
   added_lines |-> result.added_lines, deleted_lines |-> result.deleted_lines,
   verification |-> Each(result.verification, LAMBDA o : [success |-> o.success]),
   violations |-> Each(result.violations, LAMBDA v : v.message),
   errors |-> result.error \o FlattenSeq(Each(result.setup \o result.agent_outcome
                                             \o result.verification, LAMBDA o : o.error))]

(* Mutation: the runs with a failed verification are counted, not the      *)
(* failed verifications.                                                   *)
MutAggregates(runs) ==
  [run_count |-> Len(runs),
   successes |-> Count(runs, LAMBDA r : r.success),
   duration  |-> FromValues(Each(runs, LAMBDA r : r.duration_ms)),
   files     |-> FromValues(Each(runs, LAMBDA r : r.changed_files)),
   lines     |-> FromValues(Each(runs, DiffLines)),
   verification_failures |-> Count(runs, LAMBDA r : FailedOutcomes(r.verification) > 0),
   violations |-> Total(Each(runs, LAMBDA r : Len(r.violations)))]

Aggregates(runs) ==
  [run_count |-> Len(runs),
   successes |-> Count(runs, LAMBDA r : r.success),
   duration  |-> FromValues(Each(runs, LAMBDA r : r.duration_ms)),
   files     |-> FromValues(Each(runs, LAMBDA r : r.changed_files)),
   lines     |-> FromValues(Each(runs, DiffLines)),
   verification_failures |-> Total(Each(runs, LAMBDA r : FailedOutcomes(r.verification))),
   violations |-> Total(Each(runs, LAMBDA r : Len(r.violations)))]

AggregateDetails(head, runs) ==
  LET sorted  == InOrder(runs, LAMBDA a, b : a.run_id <= b.run_id)
      numbers == Aggregates(sorted)
  IN  [field \in DOMAIN head \cup DOMAIN numbers \cup {"runs"} |->
         CASE field = "runs" -> sorted [] field \in DOMAIN head -> head[field]
           [] OTHER -> numbers[field]]

GroupHead(group) ==
  [group_id |-> group.group_id, task_id |-> group.task_id, agent |-> group.agent,
   instructions_enabled |-> group.instructions_enabled,
   benchmark_identity |-> group.benchmark_identity,
   requested_runs |-> group.requested_runs, status |-> group.status]

(* Called with results that summarize has accepted, whose instructions are *)
(* therefore the group's.                                                  *)
GroupReport(group, results) ==
  AggregateDetails(GroupHead(group), Each(results, RunDetail))

SingleResultReport(result) ==
  AggregateDetails(
    [group_id |-> result.run_id, task_id |-> result.task_id, agent |-> result.agent,
     instructions_enabled |-> result.instructions_enabled,
     benchmark_identity |-> result.benchmark_identity,
     requested_runs |-> <<1>>, status |-> "completed"],
    <<RunDetail(result)>>)

CompletedGroup(report) ==
  report.status = "completed" /\ report.requested_runs = <<report.run_count>>

Comparable(baseline, candidate) ==
  /\ CompletedGroup(baseline) /\ CompletedGroup(candidate)
  /\ baseline.task_id = candidate.task_id
  /\ baseline.benchmark_identity # <<>>
  /\ baseline.benchmark_identity = candidate.benchmark_identity
  /\ baseline.run_count = candidate.run_count

(* The deltas of Comparison::new; that of the success rate is times the    *)
(* number of runs, which is the same on both sides.                        *)
ComparisonDelta(baseline, candidate) ==
  [successes |-> candidate.successes - baseline.successes,
   duration  |-> candidate.duration.median - baseline.duration.median,
   files     |-> candidate.files.median - baseline.files.median,
   lines     |-> candidate.lines.median - baseline.lines.median,
   verification_failures |-> candidate.verification_failures - baseline.verification_failures,
   violations |-> candidate.violations - baseline.violations]

-----------------------------------------------------------------------------
(* report/suite.rs.                                                        *)

GroupAggregateValid(report) ==
  /\ \A i, j \in DOMAIN report.runs : i # j => report.runs[i].run_id # report.runs[j].run_id
  /\ LET again == Aggregates(report.runs) IN \A field \in DOMAIN again : report[field] = again[field]

CellGroupValid(report, task, agent, execution) ==
  /\ CompletedGroup(report)
  /\ report.task_id = task.task_id /\ report.agent = agent
  /\ report.instructions_enabled = execution.instructions_enabled
  /\ report.benchmark_identity = <<task.benchmark_identity>>
  /\ report.run_count = execution.repeat
  /\ GroupAggregateValid(report)

CompletedMatrixCell(report) ==
  [task_id |-> report.task_id, agent_id |-> report.agent, status |-> "completed",
   successful_runs |-> report.successes, requested_runs |-> report.run_count,
   verification_failures |-> report.verification_failures, violations |-> report.violations]

EmptyMatrixCell(cell, repeat) ==
  [task_id |-> cell.task_id, agent_id |-> cell.agent_id, status |-> cell.status,
   successful_runs |-> 0, requested_runs |-> repeat,
   verification_failures |-> 0, violations |-> 0]

(* The mean of the success rates of an agent's completed cells, whose      *)
(* numbers of runs are the suite's repeat.                                 *)
AddRates(a, b) == <<a[1] * b[2] + b[1] * a[2], a[2] * b[2]>>

SummarizeAgent(agent, cells) ==
  LET own       == Without(cells, {c \in ToSet(cells) : c.agent_id # agent})
      completed == Without(own, {c \in ToSet(own) : c.status # "completed"})
      rates     == Each(completed, LAMBDA c : <<c.successful_runs, c.requested_runs>>)
      sum       == FoldLeft(AddRates, <<0, 1>>, rates)
  IN  [agent_id |-> agent,
       completed |-> Len(completed),
       errors    |-> Count(own, LAMBDA c : c.status = "error"),
       pending   |-> Count(own, LAMBDA c : c.status = "pending"),
       successful_runs |-> Total(Each(completed, LAMBDA c : c.successful_runs)),
       total_runs      |-> Total(Each(completed, LAMBDA c : c.requested_runs)),
       macro_success_rate |-> IF completed = <<>> THEN <<>>
                              ELSE << <<sum[1], sum[2] * Len(completed)>> >>]

(* SuiteReport::new for an execution that has passed validate: every       *)
(* completed cell takes its group, every group is taken once.              *)
SuiteReportOf(execution, groups) ==
  LET ids == Each(groups, LAMBDA g : g.group_id)
      Taken(cell) == SelectInSeq(ids, LAMBDA id : <<id>> = cell.group_id)
      TaskOf(cell) == execution.tasks[SelectInSeq(execution.tasks,
                                        LAMBDA t : t.task_id = cell.task_id)]
      completed == {i \in DOMAIN execution.cells : execution.cells[i].status = "completed"}
      MatrixCell(cell) ==
        IF cell.status = "completed" THEN CompletedMatrixCell(groups[Taken(cell)])
        ELSE EmptyMatrixCell(cell, execution.repeat)
      cells == Each(execution.cells, MatrixCell)
  IN  IF /\ Cardinality(ToSet(ids)) = Len(ids)
         /\ \A i \in completed :
              LET cell == execution.cells[i] IN
              /\ Taken(cell) # 0
              /\ CellGroupValid(groups[Taken(cell)], TaskOf(cell), cell.agent_id, execution)
         /\ ToSet(ids) = {execution.cells[i].group_id[1] : i \in completed}
      THEN [ok |-> TRUE, status |-> execution.status, cells |-> cells,
            agents |-> Each(execution.agents, LAMBDA a : SummarizeAgent(a, cells))]
      ELSE [ok |-> FALSE]

AllBenchmarksSucceeded(report) ==
  /\ report.status = "completed" /\ report.cells # <<>>
  /\ \A i \in DOMAIN report.cells :
       LET cell == report.cells[i] IN
       /\ cell.status = "completed"
       /\ cell.successful_runs = cell.requested_runs /\ cell.requested_runs > 0
       /\ cell.verification_failures = 0 /\ cell.violations = 0

(* How many cells are completed, failed and pending, as the report says.   *)
Coverage(cells) ==
  LET completed == Count(cells, LAMBDA c : c.status = "completed")
      errors    == Count(cells, LAMBDA c : c.status = "error")
  IN  <<completed, errors, Len(cells) - (completed + errors)>>

-----------------------------------------------------------------------------
(* The command line's exit codes.                                          *)

ExitForReport(report) == IF AllBenchmarksSucceeded(report) THEN 0 ELSE 6

ExitForRun(results) ==
  IF \A i \in DOMAIN results : results[i].success THEN 0 ELSE 6

-----------------------------------------------------------------------------
(* A battle: the agents it accepts, the entry it makes of what run_group   *)
(* answered for one, and its exit code.                                    *)
BattleStarts(agents, known) ==
  /\ agents # <<>> /\ ToSet(agents) \subseteq known
  /\ Cardinality(ToSet(agents)) = Len(agents)

BattleEntry(id, execution, base) ==
  IF execution.error # <<>>
  THEN [agent_id |-> id, run_ids |-> <<>>, error |-> execution.error]
  ELSE [agent_id |-> id,
        run_ids  |-> Each(execution.results, LAMBDA result : result.run_id),
        error    |-> IF execution.commit # base THEN <<"base commit changed during battle">>
                     ELSE IF \E i \in DOMAIN execution.results : ~execution.results[i].success
                     THEN <<"one or more runs failed">> ELSE <<>>]

ExitForBattle(battle) ==
  IF \A i \in DOMAIN battle.agents : battle.agents[i].error = <<>> THEN 0 ELSE 6

(* BattleResult::validate.                                                 *)
BattleValid(battle) ==
  /\ NotBlank(battle.patcharena_version) /\ battle.repeat > 0
  /\ Len(battle.base_commit) \in OidLengths /\ Hex(battle.base_commit)
  /\ battle.agents # <<>>
  /\ \A i \in DOMAIN battle.agents :
       /\ AgentValid(battle.agents[i].agent_id) /\ Present(battle.agents[i].error, NotBlank)
       /\ \A j \in 1 .. i - 1 : battle.agents[j].agent_id # battle.agents[i].agent_id
=============================================================================
