----------------------------- MODULE Algorithms -----------------------------
(***************************************************************************)
(* The sequential algorithms of the program against reference definitions, *)
(* over bounded inputs: each behaviour picks one input and stops.          *)
(***************************************************************************)
EXTENDS RecordChecks, DefinitionChecks

VARIABLE sample   \* the input: what it is for, and its parts

-----------------------------------------------------------------------------
(* Paths: a repository /r, a link /l to it and files outside, in /o.       *)

Absent == [kind |-> "absent"]

Trees ==
  LET Tree(d, e, f) ==
        LET all == (<<>> :> Directory) @@ (<<"r">> :> Directory) @@ (<<"l">> :> Link(<<"r">>))
                   @@ (<<"o">> :> Directory) @@ (<<"o", "s">> :> File(<<0>>))
                   @@ (<<"r", "d">> :> d) @@ (<<"r", "d", "e">> :> e) @@ (<<"r", "f">> :> f)
        IN  Restrict(all, {l \in DOMAIN all : all[l] # Absent})
      Others == {Link(<<"f">>), Link(<<"..", "o">>), Link(<<"d">>),
                 Link(<<"x">>), Link(<<"..", "o", "x">>)}
      Deep   == {Absent, File(<<0>>), File(<<1>>), File(<<0, 1, 1>>), Directory,
                 Link(<<"..", "f">>), Link(<<"..", "..", "o", "s">>)}
      Front2 == {Absent, File(<<0, 1>>), Directory, Link(<<"d">>),
                 Link(<<"..", "o", "x">>), Link(<<"", "r", "d">>)}
  IN  {Tree(d, Absent, f) : d \in Others \cup {Absent, File(<<0>>)}, f \in Front2}
      \cup {Tree(Directory, e, f) : e \in Deep, f \in Front2}
      \cup {Tree(Directory, e, Absent) @@ (<<"r", "d", "f">> :> f) :
              e \in Deep \ {Absent}, f \in {File(<<0>>), File(<<1>>)}}

Names == <<"d", "e", "f">>   \* the order in which a directory is read

Paths ==
  LET Parts == {"d", "e", "f", "x", "", ".", "..", "c:d"} IN
  {<<p>> : p \in Parts} \cup (Parts \X Parts)
  \cup {<<"d", "e", "x">>, <<"d", "..", "f">>, <<"d", ".", "e">>, <<"", "r", "d">>,
        <<"", "r", "x">>, <<"", "r", "f", "e">>, <<"f", "e", "x">>, <<"x", "e", "f">>}

PathSamples == [topic : {"paths"}, tree : Trees, path : Paths]

Bases == {<<"r">>, <<"l">>}   \* the repository, under its name and by a link

ASSUME TreesAreTrees ==
  (\A fs \in Trees : FileTree(fs)) /\ Paths \subseteq PathText /\ Bases \subseteq Seq(Name)

Real(fs, at) == Canonicalize(fs, at).at = at /\ Canonicalize(fs, at).err = ""

(* What a write to a location may reach: every existing prefix is real.    *)
StaysInside(fs, root, at) ==
  /\ Inside(root, at)
  /\ \A i \in DOMAIN at : at[i] \notin Special
  /\ \A i \in 0 .. Len(at) :
       SubSeq(at, 1, i) \in DOMAIN fs => Real(fs, SubSeq(at, 1, i))

(* Where a relative link leads when its target has no links on the way.    *)
LexicalEnd(from, target) ==
  FoldLeft(LAMBDA at, part : IF part = ".." THEN IF at = <<>> THEN at ELSE Front(at)
                             ELSE IF part = "." THEN at ELSE Append(at, part),
           from, target)

Subtree(fs, at) == Restrict(fs, {l \in DOMAIN fs : IsPrefix(at, l)})

(* Accepted on the way and again as a whole, a path may be out of links: a *)
(* walk through its parts gives each of them the whole number.             *)
SafeJoinIsInside(fs, base, path) ==
  LET joined == SafeJoinNoSymlinkEscape(fs, base, path)
      whole  == Canonicalize(fs, base \o path)
  IN  joined.err = "" =>
        /\ StaysInside(fs, Canonicalize(fs, base).at, joined.at)
        /\ joined.at \in DOMAIN fs => whole \in {Found(joined.at), Refuse("ELOOP")}

ArtifactsAreInside(fs, base, path) ==
  LET artifact == SafeArtifactPath(fs, base, path)
      joined   == SafeJoinNoSymlinkEscape(fs, base, path)
  IN  artifact.err = "" =>
        /\ base \in DOMAIN fs => fs[base].kind # "link"
        /\ StaysInside(fs, Canonicalize(fs, base).at, artifact.at)
        /\ EnsureSafeRelativePath(path) => joined = artifact

DirectoriesAreContained(fs, root, path) ==
  LET private   == EnsurePrivateContainedDirectory(fs, root, path)
      contained == WalkContainedDirectory(fs, root, path)
  IN  /\ private = contained
      /\ Restrict(private.fs, DOMAIN fs) = fs
      /\ \A l \in DOMAIN private.fs \ DOMAIN fs :
           private.fs[l] = Directory /\ StaysInside(private.fs, root, l)
      /\ private.err = "" => /\ StaysInside(private.fs, root, private.at)
                             /\ private.at \in DOMAIN private.fs
                             /\ private.fs[private.at].kind = "dir"

WorktreesAreNew(fs, path) ==
  ValidateWorktreeDestination(fs, path) =>
    LET parent == Canonicalize(fs, Front(Normals(path))) IN
    Append(parent.at, Last(path)) \notin DOMAIN fs \/ Last(path) \in Special \cup {""}

ChangedLinksAreJudged(fs, root, path) ==
  LET judged   == ChangedSymlinkEscapes(fs, root, path)
      seen     == SymlinkMetadata(fs, root \o path)
      resolved == Canonicalize(fs, root \o path)
      target   == Components(fs[seen.at].target)
      lexical  == LexicalEnd(Front(seen.at), target)
  IN  seen.err = "" /\ seen.kind = "link" =>
        /\ resolved.err = "" => judged = IF Inside(root, resolved.at) THEN "no" ELSE "yes"
        /\ /\ resolved.err = "ENOENT" /\ ~Absolute(fs[seen.at].target)
           /\ seen.at = root \o Normals(path)
           /\ ~Inside(root, lexical)
           => judged = "yes"

(* What lies at a place, and on the way to it, is the same.                *)
Untouched(fs, later, at) ==
  \A l \in DOMAIN fs \cup DOMAIN later :
    IsPrefix(at, l) \/ IsPrefix(l, at) =>
      l \in DOMAIN fs /\ l \in DOMAIN later /\ fs[l] = later[l]

InventoriesTell(fs, later, names, root, path) ==
  LET before == FingerprintForbiddenPath(fs, names, root, path)
      after  == FingerprintForbiddenPath(later, names, root, path)
      at     == root \o path
  IN  /\ before.count = Cardinality(before.entries)
      /\ before.bytes <= MaxBytes /\ before.count <= MaxEntries
      /\ after.entries = before.entries /\ ~before.truncated /\ ~after.truncated =>
           Subtree(fs, at) = Subtree(later, at)
      /\ Untouched(fs, later, at) => after = before

InventoriesTellChanges(fs, path) ==
  EnsureSafeRelativePath(path) =>
    \A later \in Trees : InventoriesTell(fs, later, Names, <<"r">>, path)

(* A path the program decides to write to stays inside the directory it    *)
(* was asked for: whatever links lie in the way, a join, an artifact path  *)
(* or a private directory it accepts has only real directories above it,   *)
(* names the same file the system finds, and creates nothing elsewhere; a  *)
(* changed link is judged by where it leads (core/path.rs, git/lib.rs,     *)
(* runner/orchestration.rs, cli/commands.rs).                              *)
PathsStayInside ==
  sample.topic = "paths" =>
    /\ WorktreesAreNew(sample.tree, sample.path)
    /\ \A base \in Bases :
         /\ SafeJoinIsInside(sample.tree, base, sample.path)
         /\ ArtifactsAreInside(sample.tree, base, sample.path)
         /\ base \in DOMAIN sample.tree /\ sample.tree[base].kind = "dir" =>
              /\ DirectoriesAreContained(sample.tree, base, sample.path)
              /\ ChangedLinksAreJudged(sample.tree, base, sample.path)

-----------------------------------------------------------------------------
(* The output of Git: any three fields, which may be what it prints for a  *)
(* few entries, output cut off, or garbage.                                *)

NumeralValues == [n \in {"0", "1", "2", "9"} |->
                   CASE n = "0" -> 0 [] n = "1" -> 1 [] n = "2" -> 2 [] n = "9" -> 9]

Fields ==
  {<<"1", "0", "a">>, <<"2", "2", "b">>, <<"-", "-", "a">>, <<"-", "0", "a">>,
   <<"9", "0", "a">>, <<"1", "0", "">>, <<"-", "-", "">>, <<"x", "0", "a">>,
   <<"1", "0">>, <<"a">>, <<"b">>, EmptyField}

ASSUME FieldsAreTexts == Fields \subseteq Seq(STRING)

FieldSamples == [topic : {"numstat"}, fields : SeqOf(Fields, 3)]

(* An entry tells the numbers of lines, or two dashes for a binary file.   *)
Counted(added, deleted) == {added, deleted} = {"-"} \/ {added, deleted} \subseteq Numeral

(* The entries that a listing with these fields may tell of.               *)
PathsIn(fields, record) ==
  LET texts == ToSet(fields) \ {EmptyField} IN
  IF record[3] = EmptyText THEN texts \X texts ELSE {<<record[3]>>}

EntriesIn(fields) ==
  UNION {[added : {f[1]}, deleted : {f[2]}, path : PathsIn(fields, f)] :
           f \in {f \in ToSet(fields) : Len(f) = 3 /\ Counted(f[1], f[2])}}

LinesIn(count) == IF count = "-" THEN 0 ELSE ValueOf[count]

Totals(entries) ==
  LET added   == Total(Each(entries, LAMBDA e : LinesIn(e.added)))
      deleted == Total(Each(entries, LAMBDA e : LinesIn(e.deleted)))
  IN  IF added > MaxLines \/ deleted > MaxLines THEN Failed
      ELSE [ok |-> TRUE, files |-> Len(entries), added |-> added, deleted |-> deleted,
            binary |-> Total(Each(entries, LAMBDA e : IF e.added = "-" THEN 1 ELSE 0))]

Stripped(fields) ==
  SubSeq(fields, 1, Max({0} \cup {i \in DOMAIN fields : fields[i] # EmptyField}))

Tells(fields, entries) == Stripped(PrintNumstat(entries)) = Stripped(fields)

TotalsAgree(fields) ==
  LET parsed   == ParseNumstatZ(fields)
      listings == {e \in SeqOf(EntriesIn(fields), Len(fields)) : Tells(fields, e)}
  IN  /\ \A entries \in listings : parsed = Totals(entries)
      /\ listings = {} => parsed = Failed

(* The totals of a diff are those of the entries Git printed, for every    *)
(* sequence of entries, renames and binary files included; an output that  *)
(* is no such listing (cut off in the middle of a record, a count missing, *)
(* a sum that does not fit) is refused as a whole, never counted in part   *)
(* (git/lib.rs, parse_numstat_z).                                          *)
TotalsAreThoseOfTheDiff == sample.topic = "numstat" => TotalsAgree(sample.fields)

-----------------------------------------------------------------------------
(* The rules: observed commands, changed paths, agents' events, the lists  *)
(* of project and task, and the templates of custom agents.                *)

CommandWords == {"git", "/usr/bin/git", "push", "origin", "sudo", "-lc", "env", "A=1",
                 "sh", "'git push'", "\"git"}
BaseNames    == [w \in CommandWords |-> IF w = "/usr/bin/git" THEN "git" ELSE w]
QuotedWords  == "'git push'" :> [words |-> <<"git", "push">>, balanced |-> TRUE]

Line(words)  == [words |-> words, balanced |-> ~Contains(words, "\"git")]

ForbiddenLines == {Line(<<"git">>), Line(<<"git", "push">>), Line(<<"git", "push", "origin">>),
                   Line(<<"\"git">>), Line(<<>>)}

CommandSamples == [topic : {"command"}, words : SeqOf(CommandWords, 3)]

Embeds(needed, words) ==
  \E at \in [DOMAIN needed -> DOMAIN words] :
    /\ \A i \in DOMAIN needed : words[at[i]] = needed[i]
    /\ \A i, j \in DOMAIN needed : i < j => at[i] < at[j]

(* What is matched: the executable, wrappers and assignments aside, and    *)
(* after it the needed words in their order.                               *)
MatchMeansInvoked(words, needle) ==
  LET command == AfterEnv(AfterWrappers(words)) IN
  InvocationMatches(words, needle) <=> /\ command # <<>>
                                       /\ Base[command[1]] = Base[needle[1]]
                                       /\ Embeds(Tail(needle), Tail(command))

(* A word more leaves a match one, a wrapper changes nothing.              *)
WordHidesNothing(words, word, needle) ==
  InvocationMatches(words, needle) => InvocationMatches(Append(words, word), needle)

WrapperHidesNothing(wrapper, options, words, needle) ==
  /\ Base[wrapper] \in {"sudo", "command"} /\ ToSet(options) \subseteq Dashed
  /\ words # <<>> /\ words[1] \notin Dashed
  => InvocationMatches(<<wrapper>> \o options \o words, needle) = InvocationMatches(words, needle)

EnvHidesNothing(env, options, words, needle) ==
  /\ Base[env] = "env" /\ ToSet(options) \subseteq Dashed \cup Assigned
  /\ words # <<>> /\ words[1] \notin Dashed \cup Assigned
  /\ Base[words[1]] \notin {"sudo", "command", "env"}
  => InvocationMatches(<<env>> \o options \o words, needle) = InvocationMatches(words, needle)

(* The text a shell is handed is read only where the shell is the first    *)
(* word: behind a wrapper nothing but the invocation itself is judged.     *)
WrappedShellIsNotRead(wrapper, words, forbidden) ==
  LET behind == <<wrapper>> \o words IN
  CommandContainsForbidden(Line(behind), forbidden) <=> InvocationMatches(behind, forbidden.words)

CommandsAreMatched(words) ==
  \A forbidden \in ForbiddenLines :
    LET needle  == forbidden.words
        invoked == needle # <<>> /\ InvocationMatches(words, needle)
        matched == CommandContainsForbidden(Line(words), forbidden)
    IN  /\ needle # <<>> =>
             /\ MatchMeansInvoked(words, needle)
             /\ \A w \in CommandWords : WordHidesNothing(words, w, needle)
             /\ WrapperHidesNothing("sudo", <<"-lc">>, words, needle)
             /\ EnvHidesNothing("env", <<"A=1", "-lc">>, words, needle)
             /\ WrapperHidesNothing("sudo", <<>>, <<"env", "A=1">> \o words, needle)
        /\ Line(words).balanced /\ forbidden.balanced =>
             /\ \A w \in CommandWords \ {"\"git"} :
                  matched => CommandContainsForbidden(Line(Append(words, w)), forbidden)
             /\ needle # <<>> => WrappedShellIsNotRead("sudo", words, forbidden)
             /\ matched /\ ~invoked =>
                  /\ words[1] = "sh"
                  /\ \/ needle = <<"git">>
                     \/ needle = <<"git", "push">> /\ Contains(words, "'git push'")

RulePaths == {p \in Paths : Len(p) <= 2}
RulePathSamples == [topic : {"rule"}, path : RulePaths]

LexicalPlace(path) == LexicalEnd(<<>>, Without(path, {""}))

RuleCoversBelow(path, rule) ==
  LET below == LexicalPlace(rule) # <<>> /\ Inside(LexicalPlace(rule), LexicalPlace(path))
  IN  /\ below => PathIsForbidden(path, rule)
      /\ PathIsForbidden(path, rule) =>
           \/ below \/ Contains(path, "..") \/ Contains(rule, "..")
           \/ Absolute(path) \/ Absolute(rule)

PathsBelowAreForbidden(path) == \A rule \in RulePaths : RuleCoversBelow(path, rule)

EventSamples ==
  [topic : {"events"}, outer : {"command", "item", ""}, inner : {"shell_command", "item", ""},
   listed : BOOLEAN, malformed : BOOLEAN]

EventsAreFound(event) ==
  LET Node(kind, key, t) == [node |-> kind, key |-> key, text |-> t]
      TypeField(place, t) == IF t = "" THEN <<>> ELSE place :> Node("text", "type", t)
      list  == IF event.listed THEN <<2, 1>> ELSE <<2>>
      outer == (<<>> :> Node("object", "", "")) @@ (<<1>> :> Node("text", "command", "c"))
               @@ (<<2>> :> Node(IF event.listed THEN "array" ELSE "object", "item", ""))
               @@ (list :> Node("object", "", ""))
               @@ (Append(list, 1) :> Node("text", "cmd", "a"))
               @@ (Append(list, 2) :> Node("text", "command", "b"))
               @@ TypeField(Append(list, 3), event.inner) @@ TypeField(<<3>>, event.outer)
      line  == IF event.malformed THEN << <<>> :> Node("malformed", "", "") >> ELSE <<>>
      fromOuter == IF event.outer = "command" THEN <<"c">> ELSE <<>>
      fromInner == IF event.outer = "command" \/ event.inner = "shell_command"
                   THEN <<"b", "a">> ELSE <<>>
  IN  ExtractCodexCommands(line \o <<outer>> \o line) = fromOuter \o fromInner

Lists == SeqOf({"a", "b"}, 2)
ListSamples == [topic : {"lists"}, project : Lists, task : SeqOf({"a", "b", "c"}, 3)]

ListsAreMerged(project, task) ==
  LET merged == Merge(project, task)
      First(v) == SelectInSeq(project \o task, LAMBDA w : w = v)
  IN  /\ ToSet(merged) = ToSet(project) \cup ToSet(task)
      /\ \A i, j \in DOMAIN merged : i < j => First(merged[i]) < First(merged[j])
      /\ Cardinality(ToSet(project)) = Len(project) => AppendUnique(project, task) = merged

Bounds(n) == [limit \in Limits |-> IF limit = "timeout_seconds" THEN n ELSE 1]

Policies ==
  [limit : 1 .. 2, own : 1 .. 2, environment : SeqOf({"a"}, 1), commands : Lists, paths : SeqOf({"b"}, 1)]
PolicySamples == [topic : {"policy"}, policy : Policies]

(* What a benchmark means: its task and the policy in effect.              *)
Effect(task, settings) ==
  <<task, EffectiveLimits(task, settings), settings.environment,
    Merge(settings.commands, task.commands), Merge(settings.paths, task.paths)>>

FingerprintsTell(task, settings, task2, settings2) ==
  LET one   == Effect(task, settings)
      other == Effect(task2, settings2)
      same  == TaskFingerprint(task, settings) = TaskFingerprint(task2, settings2)
  IN  /\ one = other => same
      /\ same /\ Len(one[3]) = Len(other[3]) /\ Len(one[4]) = Len(other[4]) => one = other

FingerprintsTellPolicies(policy) ==
  LET Task(p)     == [limits |-> Bounds(p.own), commands |-> <<"a">>, paths |-> <<>>]
      Settings(p) == [limits |-> Bounds(p.limit), environment |-> p.environment,
                      commands |-> p.commands, paths |-> p.paths]
  IN  \A other \in Policies :
        FingerprintsTell(Task(policy), Settings(policy), Task(other), Settings(other))

TemplateSamples ==
  [topic : {"template"},
   template : SeqOf({"{", "}", "prompt", "workspace", "secret", "=", "x"}, 4)
              \cup {<<"{", "prompt", "}", "{", "workspace", "}">>,
                    <<"secret", "=", "{", "prompt", "}">>,
                    <<"{", "prompt", "}", "=", "secret">>, <<"x", "{", "prompt_file", "}">>},
   prompt : {<<"p">>, <<"p", "{", "workspace", "}">>, <<"{", "prompt_file", "}", "p">>, <<"{", "p">>}]

InvocationsFollowTemplates(template, prompt) ==
  LET values  == [n \in ToSet(Placeholders) |-> IF n = "prompt" THEN prompt ELSE <<n>>]
      made    == BuildInvocation(<<template>>, values)
      InBraces(i) == i > 1 /\ template[i - 1] = "{"
      once    == FlattenSeq([i \in DOMAIN template |->
                   IF InBraces(i) THEN values[template[i]]
                   ELSE IF template[i] \in {"{", "}"} THEN <<>> ELSE <<template[i]>>])
      asksFile == Marker("prompt_file") \in SubSeqs(template)
  IN  ValidatePlaceholders(template) =>
        /\ ~Contains(made.audit[1], "p")
        /\ ~Contains(prompt, "{") => made.args = <<once>> /\ (made.prompt_file <=> asksFile)
        /\ asksFile => made.prompt_file
        /\ Contains(template, "secret") =>
             Last(made.audit[1]) = "<redacted:secret>" /\ Contains(made.audit[1], "=") = Contains(template, "=")


-----------------------------------------------------------------------------
(* What the program writes it can read, and two computations of one number *)
(* agree: every outcome of a process is a valid record; core's summary and *)
(* the report's aggregates of a group are equal whatever the order of the  *)
(* results, and both refuse results that are not the group's; only groups  *)
(* of one benchmark are compared; a suite report counts every cell once,   *)
(* a battle that starts can be recorded, and their exit codes are 0        *)
(* exactly when every run passed; a commit is a whole object name          *)
(* (core/result.rs, report/lib.rs, report/suite.rs, cli/suite.rs,          *)
(* cli/commands.rs, git/lib.rs).                                           *)
RecordsAgree == RecordsAreRight(sample)

(* What one command accepts the next one can use: adding a task or a suite *)
(* keeps its directory readable, with the exception that the same one may  *)
(* lie there already as a .yml file, which adding does not look for and    *)
(* which makes every later load fail; a plan made from definitions that    *)
(* fit is one whose record will be accepted and no other plan passes for   *)
(* it; a valid configuration keeps its paths apart and its agents          *)
(* selectable, but for an agent whose ID is longer than MaxId, which the   *)
(* configuration accepts and a suite refuses; and an error text is cut and *)
(* cleaned to what the record allows (core/task.rs, core/suite.rs,         *)
(* core/config.rs, cli/commands.rs, cli/suite.rs, runner/suite.rs,         *)
(* runner/registry.rs).                                                    *)
DefinitionsLoad == DefinitionsAreSound(sample)

-----------------------------------------------------------------------------
NoSample == [topic |-> "none"]

Pick(samples) == sample = NoSample /\ sample' \in samples

Init == sample = NoSample
Next ==
  \/ Pick(PathSamples) \/ Pick(FieldSamples)
  \/ Pick(CommandSamples) \/ Pick(RulePathSamples) \/ Pick(EventSamples)
  \/ Pick(ListSamples) \/ Pick(PolicySamples) \/ Pick(TemplateSamples)
  \/ Pick(ProcessSamples) \/ Pick(GroupSamples) \/ Pick(ComparisonSamples)
  \/ Pick(SuiteSamples) \/ Pick(RevisionSamples) \/ Pick(BattleSamples)
  \/ Pick(TaskSamples) \/ Pick(SuiteDefinitionSamples) \/ Pick(PlanSamples)
  \/ Pick(ConfigSamples) \/ Pick(ErrorSamples)
Spec == Init /\ [][Next]_sample
=============================================================================
