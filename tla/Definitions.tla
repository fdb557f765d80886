---------------------------- MODULE Definitions ----------------------------
(***************************************************************************)
(* What a user defines: tasks (core/task.rs), suites (core/suite.rs), the  *)
(* project's configuration (core/config.rs) and its agents                 *)
(* (runner/registry.rs, agents/custom.rs), when each is accepted, and what *)
(* the commands make of them (cli/commands.rs, cli/suite.rs, runner/       *)
(* suite.rs).                                                              *)
(*                                                                         *)
(* An identifier and an error text are sequences of tokens, each a run of  *)
(* characters of one kind.  A directory of definitions is a function from  *)
(* file names <<stem, extension>> to entries [kind, doc].                  *)
(***************************************************************************)
EXTENDS Records

CONSTANTS
  MaxId,                             \* MAX_TASK_ID_BYTES, in tokens
  MaxTasks, MaxAgents, MaxRepeat,    \* MAX_SUITE_TASKS, MAX_SUITE_AGENTS, MAX_REPEAT
  MaxInvocations,                    \* MAX_SUITE_INVOCATIONS
  MaxErrorBytes                      \* MAX_SUITE_ERROR_BYTES

ASSUME DefinitionBounds ==
  /\ {MaxId, MaxTasks, MaxAgents, MaxRepeat, MaxInvocations, MaxErrorBytes} \subseteq Nat

Lower        == {"a", "con", "com", "1", "codex", "claude", "gemini"}
Alphanumeric == Lower \cup {"Com"}
Devices      == {<<"con">>, <<"com", "1">>, <<"Com", "1">>}

PortableId(id) ==
  /\ id # <<>> /\ Len(id) <= MaxId
  /\ id[1] \in Alphanumeric
  /\ ToSet(id) \subseteq Alphanumeric \cup {"-", "_"}
  /\ id \notin Devices

PortableAgentId(id) ==
  id # <<>> /\ Len(id) <= MaxId /\ ToSet(id) \subseteq Lower \cup {"-"}

Distinct(list) == Cardinality(ToSet(list)) = Len(list)

-----------------------------------------------------------------------------
(* Commands: a line [form, words, balanced, blank] of which the words are  *)
(* taken, or a program and its arguments, the words as they are.           *)

CommandPieceValid(text, allowEmpty) == text \notin WithNul /\ (allowEmpty \/ NotBlank(text))

ToArgv(command) ==
  IF command.form = "structured" THEN <<command.words>>
  ELSE IF command.balanced /\ command.words # <<>> THEN <<command.words>> ELSE <<>>

CommandValid(command) ==
  IF command.form = "structured"
  THEN \A i \in DOMAIN command.words : CommandPieceValid(command.words[i], i > 1)
  ELSE /\ ~command.blank /\ \A i \in DOMAIN command.words : command.words[i] \notin WithNul
       /\ ToArgv(command) # <<>>

(* How a command reads in the audit: quoted, a blank word is none.         *)
AuditString(command) ==
  IF \E i \in DOMAIN command.words : command.words[i] \in WithNul THEN "nul"
  ELSE IF command.form = "line" /\ command.blank THEN "" ELSE "command"

-----------------------------------------------------------------------------
(* Tasks.                                                                  *)

LimitsValid(limits) == \A limit \in Limits : limits[limit] > 0

RulesValid(rules) ==
  /\ \A i \in DOMAIN rules.commands : CommandPieceValid(rules.commands[i], FALSE)
  /\ Distinct(rules.commands)
  /\ \A i \in DOMAIN rules.paths : EnsureSafeRelativePath(rules.paths[i])
  /\ Distinct(rules.paths)

CommandsValid(commands) == \A i \in DOMAIN commands : CommandValid(commands[i])

TaskValid(task) ==
  /\ PortableId(task.id)
  /\ Usable(task.prompt)
  /\ CommandsValid(task.setup)
  /\ task.verify # <<>> /\ CommandsValid(task.verify)
  /\ LimitsValid(task.limits)
  /\ RulesValid(task.forbidden)

DefaultRules == [commands |-> <<"git push", "cargo publish">>, paths |-> << <<".git">>, <<".env">> >>]

(* load_tasks and load_suites: one document that does not fit fails all.   *)
LoadAll(directory, Valid(_)) ==
  LET yaml  == {name \in DOMAIN directory : name[2] \in {"yaml", "yml"}}
      files == {name \in yaml : directory[name].kind = "file"}
      docs  == {directory[name].doc : name \in files}
  IN  [ok |-> /\ \A name \in yaml : directory[name].kind # "link"
              /\ \A name \in files :
                   Valid(directory[name].doc) /\ directory[name].doc.id = name[1]
              /\ \A one, two \in files :
                   directory[one].doc.id = directory[two].doc.id => one = two,
       docs |-> docs]

LoadTasks(directory)  == LoadAll(directory, TaskValid)

(* The document a command names; the same for tasks and suites.            *)
LoadNamed(directory, id, Valid(_)) ==
  LET name == <<id, "yaml">> IN
  IF /\ name \in DOMAIN directory /\ directory[name].kind = "file"
     /\ Valid(directory[name].doc) /\ directory[name].doc.id = id
  THEN <<directory[name].doc>> ELSE <<>>

SaveNew(directory, doc, Valid(_)) ==
  LET name == <<doc.id, "yaml">> IN
  IF Valid(doc) /\ name \notin DOMAIN directory
  THEN [n \in DOMAIN directory \cup {name} |->
         IF n = name THEN [kind |-> "file", doc |-> doc] ELSE directory[n]]
  ELSE directory

(* patcharena task add.  A limit that is not given is the project's.       *)
TaskAdd(directory, arguments, defaults) ==
  SaveNew(directory,
    [id     |-> arguments.id,
     prompt |-> arguments.prompt,
     setup  |-> arguments.setup,
     verify |-> arguments.verify,
     limits |-> [limit \in Limits |-> IF arguments.limits[limit] = <<>> THEN defaults[limit]
                                      ELSE arguments.limits[limit][1]],
     forbidden |-> [commands |-> AppendUnique(DefaultRules.commands, arguments.commands),
                    paths    |-> AppendUnique(DefaultRules.paths, arguments.paths)]],
    TaskValid)

-----------------------------------------------------------------------------
(* Configuration and agents.                                               *)

(* The state directory comes first; every other one lies in it.            *)
PathsValid(paths) ==
  /\ \A i \in DOMAIN paths : EnsureSafeRelativePath(paths[i]) /\ IsPrefix(paths[1], paths[i])
  /\ Distinct(paths)

ResolvePaths(root, paths) == Each(paths, LAMBDA path : root \o path)

EnvironmentName(name) ==
  name # <<>> /\ ToSet(name) \subseteq Alphanumeric \cup {"_"} /\ name[1] # "1"

DefaultsValid(defaults) ==
  /\ LimitsValid(defaults.limits)
  /\ \A i \in DOMAIN defaults.environment : EnvironmentName(defaults.environment[i])
  /\ Distinct(defaults.environment)

AgentConfigValid(agent) ==
  /\ agent.command # <<"">> /\ agent.command # <<" ">>
  /\ ~Contains(Components(agent.command), "..")
  /\ Present(agent.timeout, LAMBDA seconds : seconds > 0)
  /\ \A i \in DOMAIN agent.args : ~Contains(agent.args[i], "nul") /\ ValidatePlaceholders(agent.args[i])

BuiltIn == {<<"codex">>, <<"claude">>, <<"gemini">>}

ConfigValid(config) ==
  /\ PathsValid(config.paths)
  /\ DefaultsValid(config.defaults)
  /\ RulesValid(config.security)
  /\ \A id \in DOMAIN config.agents :
       /\ id # <<>> /\ ToSet(id) \subseteq Lower \cup {"-"}
       /\ id \notin BuiltIn
       /\ AgentConfigValid(config.agents[id])

(* CustomAdapter::new_in: a command with a slash is a path in the          *)
(* repository.  (A backslash counts as a slash here and is left out.)      *)
Executable(command) ==
  IF Len(command) > 1 /\ command[1] = "." THEN Tail(command) ELSE command

AdapterBuilds(agent) == Len(agent.command) > 1 => EnsureSafeRelativePath(Executable(agent.command))

(* AgentRegistry::from_project: one custom agent that cannot be built fails*)
(* the registry.                                                           *)
RegistryOf(config) ==
  [ok  |-> \A id \in DOMAIN config.agents : AdapterBuilds(config.agents[id]),
   ids |-> BuiltIn \cup DOMAIN config.agents]

(* AdapterRunner::run: the agent's own ceiling lowers the task's.          *)
AgentTimeout(limit, agent) ==
  IF agent.timeout = <<>> THEN limit ELSE Least(limit, agent.timeout[1])

-----------------------------------------------------------------------------
(* Suites.                                                                 *)

SuiteValid(suite) ==
  /\ PortableId(suite.id)
  /\ Present(suite.description, Usable)
  /\ Len(suite.tasks) \in 1 .. MaxTasks
  /\ Distinct(suite.tasks)

LoadSuites(directory) == LoadAll(directory, SuiteValid)

(* Every task of the suite, in its order, or nothing.                      *)
LoadSuiteTasks(directory, suite) ==
  LET loaded == Each(suite.tasks, LAMBDA id : LoadNamed(directory, id, TaskValid))
  IN  IF \E i \in DOMAIN loaded : loaded[i] = <<>> THEN <<>>
      ELSE <<Each(loaded, LAMBDA one : one[1])>>

SuiteAdd(suites, tasks, suite) ==
  IF SuiteValid(suite) /\ LoadSuiteTasks(tasks, suite) # <<>>
  THEN SaveNew(suites, suite, SuiteValid) ELSE suites

SelectedAgents(registry, available, ids) ==
  ids # <<>> /\ Distinct(ids) /\ ToSet(ids) \subseteq registry.ids \cap available

SuiteRunnerNew(ids) ==
  /\ Len(ids) \in 1 .. MaxAgents /\ Distinct(ids)
  /\ \A i \in DOMAIN ids : PortableAgentId(ids[i])

(* Mutation: the repeats are not counted.                                  *)
MutCheckedInvocationCount(tasks, agents, repeat) ==
  IF tasks * agents > MaxInvocations THEN <<>> ELSE <<tasks * agents * repeat>>

CheckedInvocationCount(tasks, agents, repeat) ==
  IF tasks * agents * repeat > MaxInvocations THEN <<>> ELSE <<tasks * agents * repeat>>

TasksFit(tasks, suite) ==
  /\ Each(tasks, LAMBDA task : task.id) = suite.tasks
  /\ \A i \in DOMAIN tasks : TaskValid(tasks[i])

(* SuiteRunner::preflight in a clean repository whose HEAD stays.          *)
Preflight(suite, tasks, agents, repeat) ==
  LET count == CheckedInvocationCount(Len(tasks), Len(agents), repeat) IN
  IF SuiteValid(suite) /\ repeat \in 1 .. MaxRepeat /\ TasksFit(tasks, suite) /\ count # <<>>
  THEN <<[definition |-> suite, tasks |-> tasks, agents |-> agents, repeat |-> repeat,
          fingerprint |-> suite, count |-> count[1]]>>
  ELSE <<>>

ValidatePlan(plan, agents) ==
  /\ SuiteValid(plan.definition) /\ plan.repeat \in 1 .. MaxRepeat
  /\ TasksFit(plan.tasks, plan.definition)
  /\ plan.agents = agents
  /\ plan.fingerprint = plan.definition
  /\ CheckedInvocationCount(Len(plan.tasks), Len(plan.agents), plan.repeat) = <<plan.count>>

(* SuiteExecution::validate of the record made from a plan: the tests that *)
(* do not depend on its cells.                                             *)
PlanRecordable(plan) ==
  /\ plan.repeat \in 1 .. MaxRepeat
  /\ Len(plan.tasks) \in 1 .. MaxTasks /\ Distinct(Each(plan.tasks, LAMBDA task : task.id))
  /\ Len(plan.agents) \in 1 .. MaxAgents /\ Distinct(plan.agents)
  /\ \A i \in DOMAIN plan.agents : PortableAgentId(plan.agents[i])
  /\ Len(plan.tasks) * Len(plan.agents) * plan.repeat <= MaxInvocations

-----------------------------------------------------------------------------
(* The error kept with a cell.  A wide character takes two bytes, a cut    *)
(* falls between characters.                                               *)

Wide    == {"e'"}
Control == {"\n"}

Bytes(text) == Total(Each(text, LAMBDA c : IF c \in Wide THEN 2 ELSE 1))

BoundedError(text) ==
  LET fits == {n \in 0 .. Len(text) : Bytes(SubSeq(text, 1, n)) <= MaxErrorBytes}
  IN  SubSeq(text, 1, CHOOSE n \in fits : \A m \in fits : m <= n)

StoredErrorValid(text) ==
  /\ \E i \in DOMAIN text : text[i] # " "
  /\ Bytes(text) <= MaxErrorBytes /\ ToSet(text) \cap Control = {}

(* Runs of blanks become one, and none is left at the ends.                *)
Blanks == Control \cup {" "}

Squeeze(text) ==
  LET Take(kept, c) == IF c \notin Blanks THEN Append(kept, c)
                       ELSE IF kept = <<>> \/ Last(kept) = " " THEN kept
                       ELSE Append(kept, " ")
  IN  FoldLeft(Take, <<>>, text)

Collapse(text) ==
  LET words == Squeeze(text)
  IN  IF words # <<>> /\ Last(words) = " " THEN Front(words) ELSE words

SanitizeError(text) ==
  IF Bytes(text) <= MaxErrorBytes /\ StoredErrorValid(Collapse(text)) THEN <<Collapse(text)>> ELSE <<>>

=============================================================================
