-------------------------- MODULE DefinitionChecks --------------------------
(***************************************************************************)
(* Inputs for the operators of Definitions and what must hold of each.     *)
(***************************************************************************)
EXTENDS Definitions

Structured(words) == [form |-> "structured", words |-> words, balanced |-> TRUE, blank |-> FALSE]
Typed(words)      == [form |-> "line", words |-> words, balanced |-> TRUE, blank |-> FALSE]

SomeCommands ==
  {Structured(<<"git", "">>), Structured(<<"">>), Structured(<<"git", "nul">>),
   Typed(<<"git">>), Typed(<<"nul">>), [Typed(<<>>) EXCEPT !.blank = TRUE],
   [Typed(<<"git">>) EXCEPT !.balanced = FALSE]}

Ids == {<<"a">>, <<"a", "-", "1">>, <<"Com", "1">>, <<"-", "a">>, <<>>, <<"a", "a", "a", "a">>}

TaskNamed(id) ==
  [id |-> id, prompt |-> "do it", setup |-> <<>>, verify |-> <<Typed(<<"git">>)>>,
   limits |-> [limit \in Limits |-> 1], forbidden |-> DefaultRules]

SuiteNamed(id) == [id |-> id, description |-> <<>>, tasks |-> << <<"a">> >>]

(* What a directory may hold already, Doc(id) being a document that fits.  *)
Neighbours == {"none", "other", "same", "yml", "link", "broken", "misnamed", "text", "folder"}

DirectoryWith(neighbour, Doc(_)) ==
  LET file(id)    == [kind |-> "file", doc |-> Doc(id)]
      one(name, e) == [n \in {name} |-> e]
  IN  CASE neighbour = "none"     -> <<>>
        [] neighbour = "other"    -> one(<< <<"com">>, "yml">>, file(<<"com">>))
        [] neighbour = "same"     -> one(<< <<"a">>, "yaml">>, file(<<"a">>))
        [] neighbour = "yml"      -> one(<< <<"a">>, "yml">>, file(<<"a">>))
        [] neighbour = "link"     -> one(<< <<"b">>, "yaml">>, [kind |-> "link", doc |-> Doc(<<"b">>)])
        [] neighbour = "broken"   -> one(<< <<"con">>, "yaml">>, file(<<"con">>))
        [] neighbour = "misnamed" -> one(<< <<"com">>, "yaml">>, file(<<"a">>))
        [] neighbour = "text"     -> one(<< <<"com">>, "txt">>, file(<<"con">>))
        [] neighbour = "folder"   -> one(<< <<"com">>, "yaml">>, [kind |-> "dir", doc |-> Doc(<<"com">>)])

(* A document is added under its own name or not at all; a directory that  *)
(* could be read can still be read, with one document more, unless the     *)
(* same document already lies there under the other extension.             *)
AddingKeepsReadable(before, after, id, Load(_), Valid(_)) ==
  LET name  == <<id, "yaml">>
      other == <<id, "yml">>
      old   == Load(before)
      new   == Load(after)
  IN  /\ Restrict(after, DOMAIN before) = before
      /\ DOMAIN after \ DOMAIN before \subseteq {name}
      /\ after # before =>
           /\ LoadNamed(after, id, Valid) = <<after[name].doc>>
           /\ old.ok => (new.ok <=> ~(other \in DOMAIN before /\ before[other].kind = "file"))
           /\ new.ok => /\ new.docs = old.docs \cup {after[name].doc}
                        /\ \A doc \in new.docs \ {after[name].doc} : doc.id # id

-----------------------------------------------------------------------------
TaskSamples ==
  LET made == [topic : {"task"}, neighbour : Neighbours, id : Ids, verify : SeqOf(SomeCommands, 1),
               limit : {<<>>, <<0>>, <<2>>}, commands : {<<>>, <<"rm", "git push">>, <<" ">>},
               paths : {<< <<"..", "x">> >>, << <<".env">>, <<"d">> >>}]
  IN  {sample \in made : sample.neighbour \in {"none", "yml"}
                         \/ (sample.limit = <<>> /\ Len(sample.verify) = 1)}

(* The rules are those given and the project's, and what is written can be *)
(* run and recorded.                                                       *)
TaskIsAdded(before, arguments, defaults) ==
  LET after == TaskAdd(before, arguments, defaults)
      task  == after[<<arguments.id, "yaml">>].doc
  IN  /\ AddingKeepsReadable(before, after, arguments.id, LoadTasks, TaskValid)
      /\ after # before =>
           /\ ToSet(DefaultRules.commands \o arguments.commands) = ToSet(task.forbidden.commands)
           /\ ToSet(DefaultRules.paths \o arguments.paths) = ToSet(task.forbidden.paths)
           /\ \A command \in ToSet(task.setup) \cup ToSet(task.verify) :
                /\ OutcomeValid(Exited(AuditString(command), 0))
                /\ OutcomeValid(NotStarted(AuditString(command), "not found"))
                /\ ToArgv(command) \notin {<<>>, << <<>> >>}
           /\ \A limit \in Limits :
                task.limits[limit] = IF arguments.limits[limit] = <<>> THEN defaults[limit]
                                     ELSE arguments.limits[limit][1]

TasksAreAdded(given) ==
  TaskIsAdded(DirectoryWith(given.neighbour, TaskNamed),
    [id |-> given.id, prompt |-> "do it", setup |-> given.verify, verify |-> given.verify,
     limits |-> [limit \in Limits |-> IF limit = "max_diff_lines" THEN given.limit ELSE <<>>],
     commands |-> given.commands, paths |-> given.paths],
    [limit \in Limits |-> 3])

-----------------------------------------------------------------------------
SuiteDefinitionSamples ==
  [topic : {"definition"}, neighbour : Neighbours, id : Ids, stored : Neighbours,
   description : {<<>>, <<" ">>, <<"d">>},
   tasks : SeqOf({<<"a">>, <<"com">>, <<"con">>}, 3)]

SuiteIsAdded(suites, tasks, suite) ==
  LET after  == SuiteAdd(suites, tasks, suite)
      loaded == LoadSuiteTasks(tasks, suite)
  IN  /\ AddingKeepsReadable(suites, after, suite.id, LoadSuites, SuiteValid)
      /\ after # suites => loaded # <<>> /\ TasksFit(loaded[1], suite)

SuitesAreAdded(given) ==
  LET stored == DirectoryWith(given.stored, TaskNamed)
      com    == << <<"com">>, "yaml">>
      tasks  == [n \in DOMAIN stored \cup {com} |->
                   IF n \in DOMAIN stored THEN stored[n]
                   ELSE [kind |-> "file", doc |-> TaskNamed(<<"com">>)]]
  IN  SuiteIsAdded(DirectoryWith(given.neighbour, SuiteNamed), tasks,
                   [id |-> given.id, description |-> given.description, tasks |-> given.tasks])

-----------------------------------------------------------------------------
PlanSamples ==
  [topic : {"plan"}, tasks : SeqOf({<<"a">>, <<"com">>, <<"a", "1">>}, 3),
   agents : SeqOf({<<"codex">>, <<"a">>, <<"Com">>}, 3), repeat : 0 .. MaxRepeat + 1,
   swapped : BOOLEAN]

TaskIds(tasks) == Each(tasks, LAMBDA task : task.id)

PlanIsRecordable(suite, tasks, agents, repeat) ==
  LET flight  == Preflight(suite, tasks, agents, repeat)
      plan    == flight[1]
      cells   == (1 .. Len(suite.tasks)) \X (1 .. Len(agents))
      altered == {[plan EXCEPT !.repeat = @ + 1], [plan EXCEPT !.count = @ - 1],
                  [plan EXCEPT !.agents = Tail(@)], [plan EXCEPT !.tasks = Tail(@)],
                  [plan EXCEPT !.definition = [@ EXCEPT !.description = <<"d">>]]}
  IN  SuiteRunnerNew(agents) =>
        /\ flight # <<>> =>
             /\ PlanRecordable(plan) /\ ValidatePlan(plan, agents)
             /\ plan.count = Cardinality(cells \X (1 .. repeat))
             /\ TaskIds(plan.tasks) = suite.tasks
             /\ \A other \in altered : other # plan => ~ValidatePlan(other, agents)
             /\ ~ValidatePlan(plan, Tail(agents))
        /\ flight = <<>> =>
             \/ ~SuiteValid(suite) \/ repeat \notin 1 .. MaxRepeat \/ TaskIds(tasks) # suite.tasks
             \/ \E i \in DOMAIN tasks : ~TaskValid(tasks[i])
             \/ Cardinality(cells \X (1 .. repeat)) > MaxInvocations

PlansAreRecordable(given) ==
  PlanIsRecordable([id |-> <<"a">>, description |-> <<>>, tasks |-> given.tasks],
                   Each(IF given.swapped THEN Reverse(given.tasks) ELSE given.tasks, TaskNamed),
                   given.agents, given.repeat)

-----------------------------------------------------------------------------
SomeAgents ==
  [command : {<<"tool">>, <<"">>, <<"..", "tool">>, <<"bin", "tool">>, <<".", "tool">>,
              <<"", "bin", "tool">>, <<"c:d", "tool">>},
   timeout : {<<>>, <<0>>, <<2>>}, args : {<<>>, << <<"{", "prompt", "}">> >>, << <<"{", "x", "}">> >>}]

ConfigSamples ==
  LET paths == {<< <<"s">>, <<"s", "t">> >>, << <<"s">>, <<"s">> >>, << <<"s">>, <<"t">> >>,
                << <<"s">>, <<"s", "..", "t">> >>, << <<"..">>, <<"..", "t">> >>,
                << <<"s">>, <<"s", "t">>, <<"s", "u", "v">> >>, << <<"", "s">>, <<"", "s", "t">> >>}
      ids   == {<<"a">>, <<"claude">>, <<"Com">>, <<"a", "a", "a", "a">>}
      environments == {<<>>, << <<"a", "1">>, <<"_">> >>, << <<"1">> >>, << <<"a">>, <<"a">> >>}
  IN  [topic : {"config"}, paths : paths, id : ids, agent : SomeAgents, environment : {<<>>}]
      \cup [topic : {"config"}, paths : paths, id : {<<"a">>},
            agent : {[command |-> <<"tool">>, timeout |-> <<>>, args |-> <<>>]},
            environment : environments]

(* Paths stay in the state directory and apart.                            *)
DirectoriesAreApart(root, paths) ==
  LET resolved == ResolvePaths(root, paths)
  IN  /\ \A i \in DOMAIN resolved : Inside(resolved[1], resolved[i]) /\ ~Contains(resolved[i], "..")
      /\ Inside(root, resolved[1]) /\ Distinct(resolved)

(* A selection of agents is one exactly when it can make a suite runner.   *)
SelectionRuns(registry, list) ==
  /\ ToSet(list) \subseteq registry.ids
  /\ \A i \in DOMAIN list : Len(list[i]) <= MaxId
  /\ Len(list) \in 1 .. MaxAgents
  => (SelectedAgents(registry, registry.ids, list) <=> SuiteRunnerNew(list))

TimeoutIsLowered(limit, agent) ==
  /\ AgentTimeout(limit, agent) \in 1 .. limit
  /\ Present(agent.timeout, LAMBDA own : AgentTimeout(limit, agent) <= own)

AgentsAreKept(config) ==
  LET registry == RegistryOf(config)
  IN  /\ Cardinality(registry.ids) = 3 + Cardinality(DOMAIN config.agents)
      /\ ~registry.ok =>
           \E id \in DOMAIN config.agents :
             Len(config.agents[id].command) > 1 /\ ~EnsureSafeRelativePath(config.agents[id].command)

ConfigsAreUsable(given) ==
  LET config   == [paths    |-> given.paths,
                   defaults |-> [limits |-> [limit \in Limits |-> 1], environment |-> given.environment],
                   security |-> DefaultRules,
                   agents   |-> [id \in {given.id} |-> given.agent]]
      registry == RegistryOf(config)
  IN  ConfigValid(config) =>
        /\ DirectoriesAreApart(<<"r">>, given.paths)
        /\ AgentsAreKept(config)
        /\ \A first, second \in registry.ids : SelectionRuns(registry, <<first, second>>)
        /\ \A limit \in 1 .. 3 : TimeoutIsLowered(limit, given.agent)

-----------------------------------------------------------------------------
Texts == SeqOf({"x", "e'", " ", "\n"}, MaxErrorBytes + 2)

ErrorSamples == [topic : {"error"}, text : Texts]

ErrorsAreStorable(text) ==
  LET cut    == BoundedError(text)
      stored == SanitizeError(cut)
  IN  /\ IsPrefix(cut, text) /\ Bytes(cut) <= MaxErrorBytes
      /\ cut # text => Bytes(SubSeq(text, 1, Len(cut) + 1)) > MaxErrorBytes
      /\ stored = <<>> <=> ToSet(cut) \subseteq Blanks
      /\ \A i \in DOMAIN stored :
           /\ StoredErrorValid(stored[i])
           /\ SanitizeError(stored[i]) = stored
           /\ Without(stored[i], {" "}) = Without(cut, Blanks)

-----------------------------------------------------------------------------
DefinitionsAreSound(sample) ==
  CASE sample.topic = "task"       -> TasksAreAdded(sample)
    [] sample.topic = "definition" -> SuitesAreAdded(sample)
    [] sample.topic = "plan"       -> PlansAreRecordable(sample)
    [] sample.topic = "config"     -> ConfigsAreUsable(sample)
    [] sample.topic = "error"      -> ErrorsAreStorable(sample.text)
    [] OTHER -> TRUE

=============================================================================
